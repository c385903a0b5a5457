------------------------------- MODULE TopicFeed -------------------------------
(******************************************************************************)
(* What adn-report-proxy promises its monitors for one kind of frame, CONFIG  *)
(* or BRIDGE, whatever it does with the other kind, with requests and with    *)
(* the server: a feed that remembers its last value.  Who subscribes is given *)
(* that value first, then every value published, in order, none left out;     *)
(* the last value may be repeated; and a subscription may end at any time,    *)
(* what it was given before being delivered still.                            *)
(******************************************************************************)
EXTENDS Sequences

CONSTANTS
    Clients,
    Values,
    None            \* no value yet

VARIABLES
    value,          \* the last value published
    session,        \* of each client: off, on, or ended with values to deliver
    inbox,          \* the values given to a session and not yet delivered
    seen            \* the value delivered last

vars == <<value, session, inbox, seen>>

Init ==
    /\ value = None
    /\ session = [c \in Clients |-> "off"]
    /\ inbox = [c \in Clients |-> <<>>]
    /\ seen = [c \in Clients |-> None]

\* Publishing v, or at once u and then v.
Publish(values) ==
    /\ value' = values[Len(values)]
    /\ inbox' = [c \in Clients |->
                    IF session[c] = "on" THEN inbox[c] \o values ELSE inbox[c]]
    /\ UNCHANGED <<session, seen>>

Subscribe(c) ==
    /\ session[c] = "off"
    /\ session' = [session EXCEPT ![c] = "on"]
    /\ inbox' = [inbox EXCEPT ![c] = IF value = None THEN <<>> ELSE <<value>>]
    /\ UNCHANGED <<value, seen>>

Repeat(c) ==
    /\ session[c] = "on"
    /\ value # None
    /\ inbox' = [inbox EXCEPT ![c] = Append(@, value)]
    /\ UNCHANGED <<value, session, seen>>

Deliver(c) ==
    /\ inbox[c] # <<>>
    /\ seen' = [seen EXCEPT ![c] = Head(inbox[c])]
    /\ inbox' = [inbox EXCEPT ![c] = Tail(@)]
    /\ UNCHANGED <<value, session>>

\* No more values for this session; those given to it are still delivered.
End(c) ==
    /\ session[c] = "on"
    /\ session' = [session EXCEPT ![c] = "ended"]
    /\ UNCHANGED <<value, inbox, seen>>

Leave(c) ==
    /\ session[c] # "off"
    /\ session' = [session EXCEPT ![c] = "off"]
    /\ inbox' = [inbox EXCEPT ![c] = <<>>]
    /\ seen' = [seen EXCEPT ![c] = None]
    /\ UNCHANGED value

Next ==
    \/ \E v \in Values : Publish(<<v>>)
    \/ \E u, v \in Values : Publish(<<u, v>>)
    \/ \E c \in Clients :
          \/ Subscribe(c)
          \/ Repeat(c)
          \/ Deliver(c)
          \/ End(c)
          \/ Leave(c)

Spec == Init /\ [][Next]_vars

-----------------------------------------------------------------------------
TypeOK ==
    /\ value \in Values \cup {None}
    /\ session \in [Clients -> {"off", "on", "ended"}]
    /\ inbox \in [Clients -> Seq(Values)]
    /\ seen \in [Clients -> Values \cup {None}]

\* What a session will have been given once its inbox is empty.
LastGiven(c) == IF inbox[c] = <<>> THEN seen[c] ELSE inbox[c][Len(inbox[c])]

\* The feed keeps what it promises: a session that has been delivered everything it
\* was given has the current value.
Converged == \A c \in Clients : session[c] = "on" => LastGiven(c) = value

\* The inductive invariant behind Converged.
OffIsEmpty == \A c \in Clients : session[c] = "off" => inbox[c] = <<>> /\ seen[c] = None

FeedInv == TypeOK /\ OffIsEmpty /\ Converged
===============================================================================
