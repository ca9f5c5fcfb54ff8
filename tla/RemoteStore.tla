---------------------------- MODULE RemoteStore -----------------------------
(***************************************************************************)
(* What the command line client promises of the records of a server that   *)
(* can die at any moment: each command is decided by the server at most    *)
(* once, in one step; the client reports a success or a missing record     *)
(* only when the server decided so, and prints only what the server        *)
(* showed it.  A client that reports failure has said nothing: its command *)
(* may have been decided, or may be yet.  Restarting the server removes    *)
(* every record and is the only other way that one can vanish.             *)
(***************************************************************************)
EXTENDS Commands

VARIABLES command,       \* what each client was asked to do
          decided,       \* the server's response to it
          told,          \* how the client ended
          printed        \* and what it showed

vars == <<records, issued, asked, reply, command, decided, told, printed>>

Init == /\ Api!Init
        /\ command \in Tasks
        /\ decided = [c \in Clients |-> Nothing]
        /\ told = [c \in Clients |-> "pending"]
        /\ printed = [c \in Clients |-> Nothing]

Decide(c) ==
    /\ decided[c] = Nothing
    /\ Served(command[c])
    /\ decided' = [decided EXCEPT ![c] = reply']
    /\ UNCHANGED <<command, told, printed>>

Means(status) == IF status \in {200, 201, 204} THEN "done"
                 ELSE IF status = 404 THEN "missing" ELSE "failed"

\* What was shown may get lost on the way even when the verdict does not.
Tell(c) ==
    /\ told[c] = "pending" /\ decided[c] # Nothing
    /\ told' = [told EXCEPT ![c] = Means(decided[c].status)]
    /\ \/ printed' = [printed EXCEPT ![c] = decided[c].records]
       \/ UNCHANGED printed
    /\ UNCHANGED <<apiVars, command, decided>>

GiveUp(c) ==
    /\ told[c] = "pending"
    /\ told' = [told EXCEPT ![c] = "failed"]
    /\ UNCHANGED <<apiVars, command, decided, printed>>

Restart ==
    /\ records' = [id \in Ids |-> NoRecord]
    /\ UNCHANGED <<issued, asked, reply, command, decided, told, printed>>

Next == \/ \E c \in Clients : Decide(c) \/ Tell(c) \/ GiveUp(c)
        \/ Restart

Spec == Init /\ [][Next]_vars

=============================================================================
