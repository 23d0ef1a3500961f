------------------------------- MODULE LiveHost -------------------------------
(***************************************************************************)
(* Live sessions (src/live): hosts, each with a worker behind a pseudo     *)
(* terminal and at most one attached terminal, and the terminals that      *)
(* attach, type, switch from one session to another and go away.           *)
(*                                                                         *)
(* A host is one loop (serve_launch): each turn takes one event and acts   *)
(* on it.  Each connection has a task of its own, which feeds the loop and *)
(* drains a bounded queue towards the terminal.  A step of the model is a  *)
(* turn of a loop, a message read or sent, or a chunk that moves through   *)
(* the pseudo terminal.                                                    *)
(***************************************************************************)
EXTENDS Integers, Sequences

CONSTANTS
  Hosts, Terminals,
  Queue,        \* messages a connection holds for its terminal (32)
  Room,         \* chunks each direction of a pseudo terminal holds
  MaxConns,     \* bound of the model: connections at once
  Scenes        \* bound of the model: who takes part in a behaviour

ASSUME HostsAssumption == Hosts # {}
ASSUME QueueAssumption == Queue \in Nat \ {0}
ASSUME RoomAssumption == Room \in Nat \ {0}
ASSUME MaxConnsAssumption == MaxConns \in Nat
ASSUME ScenesAssumption ==
  Scenes \subseteq [hosts : SUBSET Hosts, busy : SUBSET Hosts, terminals : SUBSET Terminals,
                   conns : 0 .. MaxConns, floods : BOOLEAN]

VARIABLES
  up,           \* hosts whose loop runs and whose socket answers
  attached,     \* the connection that holds the session, 0 for none
  stop,         \* "no", "asked", "stopping" (with a deadline) or "killed"
  writing,      \* the loop waits in pty.write for the worker to read
  worker,       \* "reading", "drawing" or "gone"
  typed,        \* input the worker has not read
  drawn,        \* output the host has not read
  key,          \* the session key the worker passed on (Message::Action)
  conns,        \* the connections
  on,           \* the connection a terminal shows, 0 for none
  opening,      \* the one it is asking for
  scene         \* who takes part in this behaviour

(* A scene says which hosts and terminals there are, how many connections  *)
(* at once, whether a terminal "floods" (types more than the worker's has  *)
(* room for), and which hosts are busy.  Of a host that is not busy only   *)
(* the switching to and from it is looked at: its worker draws nothing and *)
(* takes every key for a session key, at once; it stays up, and terminals  *)
(* read what it sends.                                                     *)
hosts == <<up, attached, stop, writing>>
workers == <<worker, typed, drawn, key>>
terminals == <<on, opening>>
vars == <<hosts, workers, conns, terminals, scene>>
Busy(h) == h \in scene.busy

Requests == {"attach", "input", "closed"}
Replies == {"info", "error", "output", "go", "detach"}
At(k) == conns[k].host

(* A connection: what waits for the loop, what waits for the terminal,     *)
(* whether the host's side let go of it ("cut") and whether the terminal   *)
(* closed it ("left").  Tokens are never used again; a place in conns is,  *)
(* once neither side knows its token any more.                             *)
NoConn == [used |-> FALSE, host |-> CHOOSE h \in Hosts : TRUE, inbox |-> <<>>,
           outbox |-> <<>>, cut |-> FALSE, left |-> FALSE]
Conns == 1 .. MaxConns
Ids == {k \in Conns : conns[k].used}

Init ==
  /\ scene \in Scenes
  /\ up = [h \in Hosts |-> h \in scene.hosts]
  /\ attached = [h \in Hosts |-> 0]
  /\ stop = [h \in Hosts |-> "no"]
  /\ writing = [h \in Hosts |-> FALSE]
  /\ worker = [h \in Hosts |-> "reading"]
  /\ typed = [h \in Hosts |-> 0]
  /\ drawn = [h \in Hosts |-> 0]
  /\ key = [h \in Hosts |-> "none"]
  /\ conns = [k \in Conns |-> NoConn]
  /\ on = [t \in Terminals |-> 0]
  /\ opening = [t \in Terminals |-> 0]

-----------------------------------------------------------------------------
Held(k) == conns[k].used /\ attached[At(k)] = k
Unanswered(k) == conns[k].inbox # <<>> /\ Head(conns[k].inbox) = "attach"

(* The loop lets go of a connection: its requests go to a token nobody     *)
(* knows.                                                                  *)
Cut(k) ==
  IF conns[k].left THEN NoConn ELSE [conns[k] EXCEPT !.inbox = <<>>, !.cut = TRUE]

(* The terminal closes it, and the loop hears of that, if it still listens,*)
(* after everything sent before.                                           *)
Closing(k) ==
  IF ~Held(k) /\ ~Unanswered(k) THEN NoConn
  ELSE [conns[k] EXCEPT !.outbox = <<>>, !.left = TRUE,
          !.inbox = IF conns[k].cut THEN @ ELSE Append(@, "closed")]

(* The connections once those of "set" are closed by their terminal.       *)
Without(set) == [k \in Conns |-> IF k \in set THEN Closing(k) ELSE conns[k]]

-----------------------------------------------------------------------------
(* Terminals.                                                              *)

(* open: connect, and ask to attach.                                       *)
Ask(t, h, rest) ==
  /\ up[h]
  /\ \E k \in 1 .. scene.conns \ Ids :
       /\ \A j \in 1 .. k - 1 : j \in Ids
       /\ conns' = [rest EXCEPT ![k] =
                      [NoConn EXCEPT !.used = TRUE, !.host = h, !.inbox = <<"attach">>]]
       /\ opening' = [opening EXCEPT ![t] = k]

Attach(t, h) ==
  /\ t \in scene.terminals
  /\ on[t] = 0 /\ opening[t] = 0
  /\ Ask(t, h, conns)
  /\ UNCHANGED <<hosts, workers, on>>

(* The terminal's current connection has something to read.                *)
Reads(t, what) ==
  /\ on[t] # 0 /\ opening[t] = 0
  /\ conns[on[t]].outbox # <<>>
  /\ Head(conns[on[t]].outbox) = what

Popped(k) == [conns EXCEPT ![k].outbox = Tail(@)]

(* try_recv until it finds nothing: what has arrived is thrown away.       *)
Drained(table, k) ==
  {[table EXCEPT ![k].outbox = SubSeq(@, n + 1, Len(@))] : n \in 0 .. Len(table[k].outbox)}

(* Mutant: the current session is released before the other is asked for.  *)
Switch_LeaveFirst(t, h) ==
  /\ Reads(t, "go")
  /\ h # At(on[t])
  /\ Ask(t, h, Without({on[t]}))
  /\ UNCHANGED <<hosts, workers, on>>

(* A session key, or a choice in the picker, names another session.        *)
Switch(t, h) ==
  /\ Reads(t, "go")
  /\ h # At(on[t])
  /\ Ask(t, h, Popped(on[t]))
  /\ UNCHANGED <<hosts, workers, on>>

(* The session stays, the picker having chosen it, or nothing else to      *)
(* visit; and output is drawn.                                             *)
Read(t) ==
  /\ \/ Reads(t, "go") /\ conns' \in Drained(Popped(on[t]), on[t])
     \/ Reads(t, "output") /\ conns' = Popped(on[t])
  /\ UNCHANGED <<hosts, workers, terminals>>

(* Accepted: the old connection goes, and what the new one brought so far  *)
(* is thrown away.                                                         *)
Opened(t) ==
  LET k == opening[t]
      left == {on[t]} \ {0}
  IN  /\ k # 0
      /\ conns[k].outbox # <<>> /\ Head(conns[k].outbox) = "info"
      /\ conns' \in Drained([Without(left) EXCEPT ![k].outbox = Tail(@)], k)
      /\ on' = [on EXCEPT ![t] = k]
      /\ opening' = [opening EXCEPT ![t] = 0]
      /\ UNCHANGED <<hosts, workers>>

(* Refused, closed unanswered, or nothing heard for three seconds: the     *)
(* terminal stays with the session it had, if any.                         *)
NotOpened(t) ==
  /\ opening[t] # 0
  /\ LET closed == Without({opening[t]})
     IN  conns' \in IF on[t] = 0 THEN {closed} ELSE Drained(closed, on[t])
  /\ opening' = [opening EXCEPT ![t] = 0]
  /\ UNCHANGED <<hosts, workers, on>>

Away(t) ==
  /\ conns' = Without({on[t], opening[t]} \ {0})
  /\ on' = [on EXCEPT ![t] = 0]
  /\ opening' = [opening EXCEPT ![t] = 0]
  /\ UNCHANGED <<hosts, workers>>

(* Detach, or the end of the connection.                                   *)
Returns(t) ==
  /\ \/ Reads(t, "detach")
     \/ /\ on[t] # 0 /\ opening[t] = 0
        /\ conns[on[t]].outbox = <<>>
        /\ ~Held(on[t]) \/ conns[on[t]].cut
  /\ Away(t)

(* A hangup, a signal, a kill, or Cancel in the picker.                    *)
Leaves(t) ==
  /\ on[t] # 0 \/ opening[t] # 0
  /\ Away(t)

Type(t) ==
  LET k == on[t] IN
  /\ k # 0 /\ opening[t] = 0
  /\ Held(k) /\ conns[k].inbox = <<>>
  /\ scene.floods \/ typed[At(k)] < Room
  /\ conns' = [conns EXCEPT ![k].inbox = <<"input">>]
  /\ UNCHANGED <<hosts, workers, terminals>>

-----------------------------------------------------------------------------
(* The worker.                                                             *)

(* Something to show: a frame, written chunk by chunk by the same loop     *)
(* that reads keys.                                                        *)
Draw(h) ==
  /\ Busy(h) /\ up[h]
  /\ worker[h] = "reading"
  /\ worker' = [worker EXCEPT ![h] = "drawing"]
  /\ UNCHANGED <<hosts, typed, drawn, key, conns, terminals>>

Emit(h) ==
  /\ worker[h] = "drawing"
  /\ drawn[h] < Room
  /\ drawn' = [drawn EXCEPT ![h] = @ + 1]
  /\ \E next \in {"drawing", "reading"} : worker' = [worker EXCEPT ![h] = next]
  /\ UNCHANGED <<hosts, typed, key, conns, terminals>>

TakeInput(h) ==
  /\ worker[h] = "reading"
  /\ typed[h] > 0
  /\ typed' = [typed EXCEPT ![h] = @ - 1]
  /\ \E action \in {key[h], "go", "detach"} :
       /\ action # key[h] => key[h] = "none"
       /\ key' = [key EXCEPT ![h] = action]
  /\ UNCHANGED <<hosts, worker, drawn, conns, terminals>>

Quit(h) ==
  /\ Busy(h) /\ up[h]
  /\ worker[h] # "gone"
  /\ worker' = [worker EXCEPT ![h] = "gone"]
  /\ UNCHANGED <<hosts, typed, drawn, key, conns, terminals>>

-----------------------------------------------------------------------------
(* The host's loop.                                                        *)
Turn(h) == up[h] /\ ~writing[h]
Waits(k, request) ==
  /\ Turn(At(k))
  /\ conns[k].inbox # <<>>
  /\ Head(conns[k].inbox) = request

Admits(h) == attached[h] = 0 /\ stop[h] \in {"no", "asked"}

TakeAttach(k) ==
  LET h == At(k) IN
  /\ Waits(k, "attach")
  /\ IF Admits(h)
     THEN /\ attached' = [attached EXCEPT ![h] = k]
          /\ conns' = [conns EXCEPT ![k].inbox = Tail(@),
                         ![k].outbox = IF conns[k].left THEN <<>> ELSE <<"info">>]
     ELSE /\ conns' = [conns EXCEPT ![k] =
               IF conns[k].left THEN NoConn ELSE [@ EXCEPT !.inbox = <<>>, !.outbox = <<"error">>]]
          /\ UNCHANGED attached
  /\ UNCHANGED <<up, stop, writing, workers, terminals>>

(* The loop waits until the whole of the input is written.                 *)
TakeKeys(k) ==
  LET h == At(k) IN
  /\ Waits(k, "input") /\ Held(k)
  /\ conns' = [conns EXCEPT ![k].inbox = Tail(@)]
  /\ IF worker[h] = "gone" THEN UNCHANGED <<typed, writing, key>>
     ELSE IF ~Busy(h) THEN key' = [key EXCEPT ![h] = "go"] /\ UNCHANGED <<typed, writing>>
     ELSE IF typed[h] < Room
     THEN typed' = [typed EXCEPT ![h] = @ + 1] /\ UNCHANGED <<writing, key>>
     ELSE writing' = [writing EXCEPT ![h] = TRUE] /\ UNCHANGED <<typed, key>>
  /\ UNCHANGED <<up, attached, stop, worker, drawn, terminals>>

Written(h) ==
  /\ up[h] /\ writing[h]
  /\ typed[h] < Room \/ worker[h] = "gone"
  /\ writing' = [writing EXCEPT ![h] = FALSE]
  /\ typed' = IF worker[h] = "gone" THEN typed ELSE [typed EXCEPT ![h] = @ + 1]
  /\ UNCHANGED <<up, attached, stop, worker, drawn, key, conns, terminals>>

(* Mutant: only the worker's connection is looked for.                     *)
TakeClosed_Forgets(k) ==
  /\ Waits(k, "closed")
  /\ conns' = [conns EXCEPT ![k].inbox = <<>>, ![k].cut = TRUE]
  /\ UNCHANGED <<hosts, workers, terminals>>

TakeClosed(k) ==
  /\ Waits(k, "closed")
  /\ conns' = [conns EXCEPT ![k] = Cut(k)]
  /\ attached' = IF Held(k) THEN [attached EXCEPT ![At(k)] = 0] ELSE attached
  /\ UNCHANGED <<up, stop, writing, workers, terminals>>

(* Mutant: the queue has no bound.                                         *)
Fits_Always(k) == ~conns[k].cut

(* send: a terminal whose queue is full, or whose task has ended, loses    *)
(* the session.                                                            *)
Fits(k) == Len(conns[k].outbox) < Queue /\ ~conns[k].cut

Send(h, message) ==
  IF attached[h] = 0 THEN UNCHANGED <<attached, conns>>
  ELSE LET k == attached[h] IN
    \/ /\ conns[k].left
       /\ UNCHANGED <<attached, conns>>
    \/ /\ ~conns[k].left /\ Fits(k)
       /\ conns' = [conns EXCEPT ![k].outbox = Append(@, message)]
       /\ UNCHANGED attached
    \/ /\ conns[k].left \/ ~Fits(k)
       /\ conns' = [conns EXCEPT ![k] = Cut(k)]
       /\ attached' = [attached EXCEPT ![h] = 0]

TakeOutput(h) ==
  /\ Turn(h) /\ drawn[h] > 0
  /\ drawn' = [drawn EXCEPT ![h] = @ - 1]
  /\ Send(h, "output")
  /\ UNCHANGED <<up, stop, writing, worker, typed, key, terminals>>

(* The worker's key goes to the terminal; a detach lets go of it.          *)
TakeKey(h) ==
  LET k == attached[h] IN
  /\ Turn(h) /\ key[h] # "none"
  /\ key' = [key EXCEPT ![h] = "none"]
  /\ IF key[h] = "detach" /\ k # 0
     THEN /\ conns' = [conns EXCEPT ![k] =
               IF conns[k].left THEN NoConn
               ELSE [Cut(k) EXCEPT !.outbox = IF Fits(k) THEN Append(@, "detach") ELSE @]]
          /\ attached' = [attached EXCEPT ![h] = 0]
     ELSE Send(h, key[h])
  /\ UNCHANGED <<up, stop, writing, worker, typed, drawn, terminals>>

(* A connection's task gives up on a terminal that does not read.          *)
PeerTimesOut(k) ==
  /\ Held(k) /\ up[At(k)] /\ Busy(At(k))
  /\ conns[k].outbox # <<>>
  /\ conns' = [conns EXCEPT ![k].inbox = Append(@, "closed"), ![k].outbox = <<>>,
                            ![k].cut = TRUE]
  /\ UNCHANGED <<hosts, workers, terminals>>

(* ainz stop, or SIGTERM.                                                  *)
AskStop(h) ==
  /\ Busy(h) /\ up[h] /\ stop[h] = "no"
  /\ stop' = [stop EXCEPT ![h] = "asked"]
  /\ UNCHANGED <<up, attached, writing, workers, conns, terminals>>

(* Mutant: the deadline is left to the worker's good will.                 *)
TakeStop_NoDeadline(h) ==
  /\ Turn(h) /\ stop[h] = "asked"
  /\ stop' = [stop EXCEPT ![h] = "killed"]
  /\ UNCHANGED <<up, attached, writing, workers, conns, terminals>>

TakeStop(h) ==
  /\ Turn(h) /\ stop[h] = "asked"
  /\ stop' = [stop EXCEPT ![h] = "stopping"]
  /\ UNCHANGED <<up, attached, writing, workers, conns, terminals>>

(* The deadline passed.                                                    *)
Kill(h) ==
  /\ Turn(h) /\ stop[h] = "stopping"
  /\ stop' = [stop EXCEPT ![h] = "killed"]
  /\ worker' = [worker EXCEPT ![h] = "gone"]
  /\ UNCHANGED <<up, attached, writing, typed, drawn, key, conns, terminals>>

(* The host goes, and every connection with it.                            *)
Gone(h) ==
  /\ up' = [up EXCEPT ![h] = FALSE]
  /\ attached' = [attached EXCEPT ![h] = 0]
  /\ conns' = [k \in Conns |-> IF k \in Ids /\ At(k) = h THEN Cut(k) ELSE conns[k]]
  /\ UNCHANGED <<stop, writing, typed, drawn, key, terminals>>

Ends(h) ==
  /\ Turn(h) /\ worker[h] = "gone"
  /\ Gone(h)
  /\ UNCHANGED worker

(* The host is killed, or its record cannot be saved.                      *)
Dies(h) ==
  /\ Busy(h) /\ up[h]
  /\ Gone(h)
  /\ worker' = [worker EXCEPT ![h] = "gone"]

-----------------------------------------------------------------------------
Take(k) == TakeAttach(k) \/ TakeKeys(k) \/ TakeClosed(k)

Step ==
  \/ \E t \in Terminals :
       \/ \E h \in Hosts : Attach(t, h) \/ Switch(t, h)
       \/ Read(t) \/ Opened(t) \/ NotOpened(t) \/ Returns(t) \/ Leaves(t) \/ Type(t)
  \/ \E h \in Hosts :
       \/ Draw(h) \/ Emit(h) \/ TakeInput(h) \/ Quit(h)
       \/ Written(h) \/ TakeOutput(h) \/ TakeKey(h)
       \/ AskStop(h) \/ TakeStop(h) \/ Kill(h) \/ Ends(h) \/ Dies(h)
  \/ \E k \in Ids : Take(k) \/ PeerTimesOut(k)

Next == Step /\ UNCHANGED scene

(* A loop that keeps coming back to its select! takes what is ready there  *)
(* in the end (it picks at random), the deadline passes, and a worker that *)
(* can go on drawing or reading does.  Nothing makes a terminal do         *)
(* anything.  (Each of the first three happens to a host once at most, so  *)
(* one condition is enough for all of them.)                               *)
Fairness ==
  /\ SF_vars(\E h \in Hosts : (TakeStop(h) \/ Kill(h) \/ Ends(h)) /\ UNCHANGED scene)
  /\ \A h \in Hosts :
       WF_vars((Written(h) \/ Emit(h) \/ TakeInput(h)) /\ UNCHANGED scene)
  /\ \A k \in Conns : WF_vars(k \in Ids /\ Take(k) /\ UNCHANGED scene)

Spec == Init /\ [][Next]_vars
LiveSpec == Spec /\ Fairness
-----------------------------------------------------------------------------
TypeOK ==
  /\ up \in [Hosts -> BOOLEAN] /\ writing \in [Hosts -> BOOLEAN]
  /\ attached \in [Hosts -> 0 .. MaxConns]
  /\ stop \in [Hosts -> {"no", "asked", "stopping", "killed"}]
  /\ worker \in [Hosts -> {"reading", "drawing", "gone"}]
  /\ typed \in [Hosts -> 0 .. Room] /\ drawn \in [Hosts -> 0 .. Room]
  /\ key \in [Hosts -> {"none", "go", "detach"}]
  /\ conns \in [Conns -> [used : BOOLEAN, host : Hosts, inbox : Seq(Requests),
                          outbox : Seq(Replies), cut : BOOLEAN, left : BOOLEAN]]
  /\ \A k \in Conns : Len(conns[k].outbox) <= Queue
  /\ on \in [Terminals -> 0 .. MaxConns]
  /\ opening \in [Terminals -> 0 .. MaxConns]

(* A terminal that shows a session holds it, until the host's side lets    *)
(* go: no two terminals show one session ("Only one terminal can control a *)
(* session at a time", docs/sessions.md), and one that switches keeps its  *)
(* session until it has the other, "so a race with another terminal leaves *)
(* this one on its original session rather than stranded" (client.rs).     *)
ShownIsHeld == \A t \in Terminals : on[t] # 0 => Held(on[t]) \/ conns[on[t]].cut

(* A session does not stay taken by a terminal that has gone, as long as   *)
(* nobody types faster than the worker reads.                              *)
SlotComesFree ==
  ~scene.floods => \A k \in Conns : (Held(k) /\ conns[k].left) ~> ~(Held(k) /\ conns[k].left)

(* "End the host and its worker" (docs/sessions.md:45): a host asked to    *)
(* stop ends, whatever its worker does, with the same proviso.             *)
StopEnds == ~scene.floods => \A h \in Hosts : stop[h] = "asked" ~> ~up[h]

(* The same without the proviso.                                           *)
StopAlwaysEnds == \A h \in Hosts : stop[h] = "asked" ~> ~up[h]
=============================================================================
