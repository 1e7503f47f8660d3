---------------------------- MODULE MCFileTransfer ----------------------------
(* Small instances of FileTransfer for TLC. *)
EXTENDS FileTransfer

Dir == [dir |-> TRUE, size |-> 0]
File(n) == [dir |-> FALSE, size |-> n]
Faults(loss, crash, timeout, source_, dest, busy_) ==
    [loss |-> loss, crash |-> crash, timeout |-> timeout,
     source |-> source_, dest |-> dest, busy |-> busy_]

\* Manifests: a directory and two files, the first of two chunks, against one
\* small file; one file each; a file without bytes before another.
TreeAndFile ==
    [n \in Nodes |-> IF n = "a" THEN <<Dir, File(3), File(1)>> ELSE <<File(1)>>]
OneFile == [n \in Nodes |-> <<File(2)>>]
WithEmptyFile == [n \in Nodes |-> <<File(0), File(2)>>]

\* Fault budgets, one per question.
StorageFaults == Faults(0, 1, 0, 2, 1, 0)
BusyFaults == Faults(0, 1, 0, 2, 0, 1)
DeliveryFaults == Faults(1, 1, 2, 0, 0, 0)
OneLoss == Faults(1, 0, 0, 0, 0, 0)
OneCrash == Faults(0, 1, 0, 0, 0, 0)
SlowAndBusy == Faults(0, 0, 1, 0, 0, 1)
===============================================================================
