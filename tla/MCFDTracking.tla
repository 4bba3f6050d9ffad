---------------------------- MODULE MCFDTracking ----------------------------
EXTENDS FDTracking

(* One process that makes every kind of call; threads and processes with a *)
(* common table; threads and processes of which some have a copy.          *)
MCPrograms ==
    {{"open", "epoll_create1", "pipe2", "close", "dup", "dup2", "fcntl_dupfd", "fcntl_setfd",
      "recvmsg", "unseen", "execve"},
     {"open", "close", "dup", "clone", "execve", "unshare", "exit"},
     {"open", "close", "clone", "fork", "exit"}}

(* One process that opens files and calls execve()                         *)
MCExec == {{"open", "execve"}}

(* The state without what nobody can see any more: processes, tables and   *)
(* maps that have ended.                                                   *)
View ==
    <<calls, pc,
      [t \in Alive |-> <<proc[t], tbl[t], IF pc[t].at = "new" THEN Root ELSE ptr[t]>>],
      [i \in {tbl[t] : t \in Alive} |-> file[i]],
      [i \in {ptr[t] : t \in {u \in Alive : pc[u].at # "new"}} |-> <<map[i], off[i]>>]>>

=============================================================================
