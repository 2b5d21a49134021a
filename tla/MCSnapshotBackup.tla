-------------------------- MODULE MCSnapshotBackup --------------------------
(* The backup for every source and every flush mode, with the flags that     *)
(* decide what is left behind, and at most one lock leaked by an earlier run.*)
EXTENDS SnapshotBackup

Ask(source, mode, flags) ==
    [source |-> source, mode |-> mode, keep |-> "keep" \in flags,
     detach |-> "detach" \in flags, noCleanup |-> "noCleanup" \in flags,
     noCleanupOnFailure |-> "noCleanupOnFailure" \in flags]

\* Every flush mode is asked for plainly and with --keep-snapshot; the other
\* flags are read after the lock is gone and are tried with a plain snapshot.
MCRequests ==
    {Ask("live", "none", f) : f \in {{}, {"detach"}, {"noCleanup"}}}
    \union {Ask("new", m, f) : m \in Modes, f \in {{}, {"keep"}, {"detach", "noCleanupOnFailure"}}}
    \union {Ask("new", "none", f) : f \in {{"noCleanup"}, {"noCleanupOnFailure"}, {"detach", "keep"}}}
    \union {Ask("existing", "none", f) : f \in {{}, {"keep"}, {"detach"}}}

=============================================================================
