-------------------------------- MODULE Rounds --------------------------------
(***************************************************************************)
(* What the engines promise: a simulation is a sequence of rounds.  A      *)
(* round opens by handing each member the mail addressed to it; then every *)
(* member takes one turn, on its own, whatever the schedule: it changes    *)
(* only its own state and adds to its own outbox; the round closes when    *)
(* all have had their turn.  The outboxes become the mail of the next      *)
(* round, each kept in the order in which it was written and merged in     *)
(* some order of the members, and time moves on by one step.               *)
(*                                                                         *)
(* What a member is, and what a channel does to a time, is left open.      *)
(* Engine and ParallelEngine implement this specification.                 *)
(***************************************************************************)
EXTENDS Subsequences, SequencesExt

CONSTANTS
  Subs,            \* every subgraph there may be
  Step,            \* length of a round
  Nobody,          \* addressee of a message without one
  New(_),          \* state of a subgraph after init
  Give(_, _, _),   \* subgraph, state, messages: its state after taking them
  Settled(_, _, _),\* subgraph, state, time: it has nothing to do up to that time
  Carry(_, _, _)   \* channel, time sent, receiver: the time of arrival

VARIABLES
  now,
  open,      \* whether a round is under way
  members,
  todo,      \* members that still have to take their turn
  busy,      \* members in the middle of it
  local,     \* subgraph -> its state
  sent,      \* subgraph -> its outbox
  mail,      \* messages to hand out at the next round
  route,     \* node -> the member that takes its mail, if any does
  channels   \* in the order in which they were added

network == <<members, route, channels>>
vars == <<now, open, todo, busy, local, sent, mail, network>>

For(s) ==
  Kept(mail, {i \in DOMAIN mail : mail[i].dst # Nobody /\ route[mail[i].dst] = s})

\* A message without a channel to travel on arrives when it was sent; of several
\* channels between two subgraphs the one added last carries it.
Arrival(m) ==
  LET found == {i \in DOMAIN channels :
                  channels[i].src = route[m.src] /\ channels[i].dst = route[m.dst]}
  IN  IF m.dst = Nobody \/ found = {} THEN m.time
      ELSE Carry(channels[Max(found)], m.time, route[m.dst])

Merged(turns) == FlattenSeq([i \in DOMAIN turns |-> sent[turns[i]]])

-------------------------------------------------------------------------------
Init ==
  /\ now = 0 /\ ~open
  /\ members \subseteq Subs
  /\ todo = {} /\ busy = {}
  /\ local = [s \in Subs |-> New(s)]
  /\ sent = [s \in Subs |-> <<>>]
  /\ mail = <<>>

\* Between rounds the owner extends the network; with a new member, mail may go
\* another way.  One that joins again starts anew.
Join(s) ==
  /\ ~open
  /\ members' = members \cup {s}
  /\ local' = [local EXCEPT ![s] = New(s)]
  /\ s \in members => UNCHANGED route
  /\ UNCHANGED <<now, open, todo, busy, sent, mail, channels>>

Connect ==
  /\ ~open
  /\ Len(channels') = Len(channels) + 1 /\ IsPrefix(channels, channels')
  /\ UNCHANGED <<now, open, todo, busy, local, sent, mail, members, route>>

Post ==
  /\ ~open
  /\ Len(mail') = Len(mail) + 1 /\ IsPrefix(mail, mail')
  /\ UNCHANGED <<now, open, todo, busy, local, sent, network>>

\* A new simulation may or may not forget the mail of the old one.
Reset ==
  /\ ~open
  /\ now' = 0
  /\ local' = [s \in Subs |-> IF s \in members THEN New(s) ELSE local[s]]
  /\ mail' \in {<<>>, mail}
  /\ UNCHANGED <<open, todo, busy, sent, network>>

Open ==
  /\ ~open /\ open'
  /\ todo' = members
  /\ local' = [s \in Subs |-> Give(s, local[s], For(s))]
  /\ mail' = <<>>
  /\ UNCHANGED <<now, busy, sent, network>>

Begin(s) ==
  /\ s \in todo
  /\ todo' = todo \ {s} /\ busy' = busy \cup {s}
  /\ UNCHANGED <<now, open, local, sent, mail, network>>

Advance(s) ==
  /\ s \in busy
  /\ local' = [local EXCEPT ![s] = local'[s]]
  /\ sent' = [sent EXCEPT ![s] = sent'[s]] /\ IsPrefix(sent[s], sent'[s])
  /\ UNCHANGED <<now, open, todo, busy, mail, network>>

Finish(s) ==
  /\ s \in busy
  /\ busy' = busy \ {s}
  /\ local' = [local EXCEPT ![s] = local'[s]]
  /\ Settled(s, local'[s], now + Step)
  /\ UNCHANGED <<now, open, todo, sent, mail, network>>

Close ==
  /\ open /\ ~open'
  /\ todo = {} /\ busy = {}
  /\ now' = now + Step
  /\ \E turns \in SetToSeqs(members) :
       mail' = [i \in DOMAIN Merged(turns) |->
                 [time |-> Arrival(Merged(turns)[i]), dst |-> Merged(turns)[i].dst]]
  /\ sent' = [s \in Subs |-> <<>>]
  /\ UNCHANGED <<todo, busy, local, network>>

Next ==
  \/ \E s \in Subs : Join(s) \/ Begin(s) \/ Advance(s) \/ Finish(s)
  \/ Connect \/ Post \/ Reset \/ Open \/ Close

Spec == Init /\ [][Next]_vars
===============================================================================
