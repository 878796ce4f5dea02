SPECIFICATION Spec
CONSTANTS
    watch = watch
    sync = sync
    daemon = daemon
    doctor = doctor
    Runtimes = {watch, sync, daemon}
    Lookers = {doctor}
INVARIANTS TypeOK LivingLeaseStays ExcludesWhileAllRun NoPhantomHolder
PROPERTIES AcquireReturns StaleLeaseGoes
CHECK_DEADLOCK FALSE
