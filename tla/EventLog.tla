------------------------------ MODULE EventLog ------------------------------
(***************************************************************************)
(* What the event store promises its users: every project has one log that *)
(* only grows, by whole transactions, at its end; a reader that opened the *)
(* log somewhere receives what follows in order, exactly once, gap-free.   *)
(***************************************************************************)
EXTENDS Integers, Sequences

CONSTANTS
    Authors, Clients, Streams,
    InitialLog,  \* what the log holds before the first transaction
    MaxBatch     \* events of one transaction

VARIABLES
    log,     \* log[s]: the authors of the events of stream s, oldest first
    inbox    \* inbox[c]: where a client started and what it has received

logVars == <<log, inbox>>

Entry(s, n) == [position |-> n, author |-> log[s][n]]

LogInit ==
    /\ log = [s \in Streams |-> InitialLog]
    /\ \E s \in Streams :
          inbox = [c \in Clients |-> [stream |-> s, from |-> 0, received |-> <<>>]]

\* A transaction by one author becomes visible as a whole.
Extend(s) ==
    \E a \in Authors, n \in 1..MaxBatch :
        /\ log' = [log EXCEPT ![s] = @ \o [i \in 1..n |-> a]]
        /\ UNCHANGED inbox

Open(c, s) ==
    /\ \E n \in 0..Len(log[s]) :
          inbox' = [inbox EXCEPT ![c] = [stream |-> s, from |-> n, received |-> <<>>]]
    /\ UNCHANGED log

Deliver(c) ==
    LET b == inbox[c]
        start == b.from + Len(b.received)
    IN  \E n \in 1..(Len(log[b.stream]) - start) :
            /\ inbox' = [inbox EXCEPT ![c].received =
                            @ \o [i \in 1..n |-> Entry(b.stream, start + i)]]
            /\ UNCHANGED log

LogNext ==
    \/ \E s \in Streams : Extend(s)
    \/ \E c \in Clients : Deliver(c) \/ \E s \in Streams : Open(c, s)

LogSpec == LogInit /\ [][LogNext]_logVars

=============================================================================
