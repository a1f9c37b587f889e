---- MODULE TerminalStream ----
(***************************************************************************)
(* What the daemon promises about terminal output, without threads, locks  *)
(* or queues: a subscriber receives, of every pane, the newest Limit bytes *)
(* at the moment it attaches and then every byte that follows, in order,   *)
(* for as long as it is the current subscriber.                            *)
(*                                                                         *)
(* Bytes are numbered 1, 2, ... in the order the pane wrote them.          *)
(***************************************************************************)
EXTENDS Integers

CONSTANTS Panes, Conns, Limit, NoConn

VARIABLES appended,  \* [Panes -> Nat], bytes read from the pane so far
          current,   \* the subscriber of live output
          attached,  \* the connections that have attached
          gone,      \* those of them that have left
          next,      \* [Conns -> [Panes -> Nat]], first byte not delivered
          promised   \* [Conns -> [Panes -> Nat]], last byte owed

vars == <<appended, current, attached, gone, next, promised>>

TypeOK ==
    /\ appended \in [Panes -> Nat]
    /\ current \in Conns \cup {NoConn}
    /\ attached \in SUBSET Conns
    /\ gone \in SUBSET attached
    /\ next \in [Conns -> [Panes -> Nat \ {0}]]
    /\ promised \in [Conns -> [Panes -> Nat]]

Init ==
    /\ appended = [p \in Panes |-> 0]
    /\ current = NoConn
    /\ attached = {}
    /\ gone = {}
    /\ next = [c \in Conns |-> [p \in Panes |-> 1]]
    /\ promised = [c \in Conns |-> [p \in Panes |-> 0]]

Oldest(p) == IF appended[p] > Limit THEN appended[p] - Limit + 1 ELSE 1

Produce(p, n) ==
    /\ appended' = [appended EXCEPT ![p] = @ + n]
    /\ promised' = IF current = NoConn THEN promised
                   ELSE [promised EXCEPT ![current][p] = @ + n]
    /\ UNCHANGED <<current, attached, gone, next>>

Attach(c) ==
    /\ c \notin attached
    /\ attached' = attached \cup {c}
    /\ current' = c
    /\ next' = [next EXCEPT ![c] = [p \in Panes |-> Oldest(p)]]
    /\ promised' = [promised EXCEPT ![c] = appended]
    /\ UNCHANGED <<appended, gone>>

Deliver(c, p, n) ==
    /\ next[c][p] + n - 1 <= promised[c][p]
    /\ next' = [next EXCEPT ![c][p] = @ + n]
    /\ UNCHANGED <<appended, current, attached, gone, promised>>

\* A connection ends; if another has taken over, that one stays subscribed.
Detach(c) ==
    /\ c \in attached \ gone
    /\ gone' = gone \cup {c}
    /\ current' = IF current = c THEN NoConn ELSE current
    /\ UNCHANGED <<appended, attached, next, promised>>

\* What a connection that has ended did not receive is not owed any more.
Forget(c) ==
    /\ c \in gone
    /\ promised' = [promised EXCEPT ![c] = [p \in Panes |-> next[c][p] - 1]]
    /\ UNCHANGED <<appended, current, attached, gone, next>>

Next ==
    \/ \E p \in Panes, n \in 1..Limit : Produce(p, n)
    \/ \E c \in Conns : Attach(c) \/ Detach(c) \/ Forget(c)
    \/ \E c \in Conns, p \in Panes, n \in 1..Limit : Deliver(c, p, n)

Spec == Init /\ [][Next]_vars
====
