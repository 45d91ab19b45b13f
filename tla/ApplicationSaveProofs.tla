----------------------- MODULE ApplicationSaveProofs -----------------------
(***************************************************************************)
(* Machine-checked proofs about ApplicationSave, for any requests, consoles *)
(* and applications.                                                        *)
(***************************************************************************)
EXTENDS ApplicationSave, TLAPS

SavePC   == {"validate", "targets", "routes", "pins", "omitted", "delete"}
RemovePC == {"unpin", "siblings", "remove", "disable"}
DropPC   == {"drop routes", "drop targets", "drop app"}

-----------------------------------------------------------------------------
(***************************************************************************)
(* The inductive invariant. Of the rows and of each request:                *)
(***************************************************************************)
TypeInv ==
    /\ target \in [Slot -> TargetRow \cup {None}]
    /\ route \in [Key -> RouteRow \cup {None}]
    /\ pins = [k \in Key |-> pins[k]]
    /\ proc = [p \in Console |-> proc[p]]
    /\ ids \in Nat /\ spoiled \in BOOLEAN

\* What a request holds at each of its statements.
StateOK(x) ==
    /\ x.pc \in {"idle"} \cup SavePC \cup RemovePC \cup DropPC
    /\ x.pc \in SavePC =>
          /\ {"pc", "req", "want", "existing", "left"} \subseteq DOMAIN x
          /\ x.req \in Save /\ DOMAIN x.existing \subseteq Of(x.req.app)
    /\ x.pc \in SavePC \ {"validate"} => "valid" \in DOMAIN x
    /\ x.pc = "targets" => /\ x.left \subseteq DOMAIN x.req.targets
                           /\ DOMAIN x.valid = DOMAIN x.req.targets \ x.left
    /\ x.pc \in {"routes", "pins"} => x.left \subseteq DOMAIN x.req.routes
    /\ x.pc = "pins" => {"env", "keys"} \subseteq DOMAIN x
    /\ x.pc \in {"omitted", "delete"} => x.left \subseteq DOMAIN x.existing \ DOMAIN x.req.targets
    /\ x.pc = "delete" => "slot" \in DOMAIN x /\ x.slot \in x.left
    /\ x.pc \in RemovePC => {"pc", "slot", "id"} \subseteq DOMAIN x /\ x.slot \in Slot
    /\ x.pc \in {"remove", "disable"} => "last" \in DOMAIN x /\ x.last \in BOOLEAN
    /\ x.pc = "disable" => x.last
    /\ x.pc \in DropPC => {"pc", "app"} \subseteq DOMAIN x

StatesInv == \A p \in Console : StateOK(proc[p])

\* Request x knows the id i as the one of slot s.
Knows(x, s, i) ==
    \/ x.pc \in SavePC /\ s \in DOMAIN x.existing /\ x.existing[s] = i
    \/ x.pc \in RemovePC /\ x.slot = s /\ x.id = i

Uses(s, i) ==
    \/ target[s] # None /\ target[s].id = i
    \/ \E p \in Console : Knows(proc[p], s, i)

\* An id is the id of one slot, in the table and in the hands of any request.
IdsInv ==
    /\ \A s \in Slot : \A i : Uses(s, i) => i \in 1..ids
    /\ \A s, t \in Slot : \A i : Uses(s, i) /\ Uses(t, i) => s = t

(***************************************************************************)
(* As long as requests do not overlap:                                      *)
(***************************************************************************)
OneAtATime == \A p, o \in Console : p # o => At(p, "idle") \/ At(o, "idle")

Live(s, i) == s \in Slot /\ target[s] # None /\ target[s].id = i
Wanted(s)  == target[s] # None /\ target[s].enabled /\ target[s].asked
Enabled(k) == route[k] # None /\ route[k].enabled

\* A row that was read is there until the request removes it.
RowsHeld(p) ==
    LET x == proc[p]
    IN  /\ x.pc \in {"validate", "targets"} => \A s \in DOMAIN x.existing : Live(s, x.existing[s])
        /\ x.pc \in {"targets", "routes", "pins"} => \A s \in DOMAIN x.valid : Live(s, x.valid[s])
        /\ x.pc \in {"routes", "pins", "omitted", "delete"} =>
              \A s \in DOMAIN x.req.targets : target[s] # None
        /\ x.pc \in {"unpin", "siblings", "remove"} => Live(x.slot, x.id)
        /\ x.pc = "remove" /\ ~x.last => \E s \in Slot : target[s] # None /\ s[1] = x.slot[1] /\ s # x.slot

\* The ports that were looked up, and of the rows still to be written, are free.
PortsHeld(p) ==
    LET x == proc[p]
    IN  /\ x.pc = "validate" =>
              \A s \in DOMAIN x.req.targets :
                  x.req.targets[s].enabled /\ <<"port", s>> \notin x.left =>
                      \A t \in Slot \ {s} : Wanted(t) => target[t].port # x.req.targets[s].port
        /\ x.pc = "targets" =>
              \A s \in x.left : x.req.targets[s].enabled =>
                  /\ \A t \in Slot \ {s} : Wanted(t) => target[t].port # x.req.targets[s].port
                  /\ \A t \in DOMAIN x.req.targets \ {s} :
                        x.req.targets[t].enabled => x.req.targets[t].port # x.req.targets[s].port

\* The routes and the pins a deletion is ahead of are gone.
RoutesHeld(p) ==
    LET x == proc[p]
    IN  /\ x.pc = "delete" /\ (\A s \in DOMAIN x.req.targets : s[1] # x.slot[1]) =>
              \A k \in Key : Enabled(k) => route[k].env # x.slot[1]
        /\ x.pc = "drop targets" => \A k \in Key : route[k] # None => AppOf[route[k].env] # x.app
        /\ x.pc \in {"siblings", "remove"} => \A k \in Key : x.id \notin pins[k]

Held(p) == RowsHeld(p) /\ PortsHeld(p) /\ RoutesHeld(p)

DeletedAreGone ==
    /\ deleted \subseteq 1..ids
    /\ \A s \in Slot : target[s] # None => target[s].id \notin deleted
    /\ \A k \in Key : pins[k] \cap deleted = {}

RoutesBacked ==
    \A k \in Key : Enabled(k) =>
        \/ \E s \in Slot : target[s] # None /\ s[1] = route[k].env
        \/ \E p \in Console : At(p, "disable") /\ proc[p].slot[1] = route[k].env
        \/ route[k].env \in stranded

Apart == \A s, t \in Slot : Wanted(s) /\ Wanted(t) /\ s # t => target[s].port # target[t].port

SerialInv ==
    /\ OneAtATime
    /\ \A p \in Console : Held(p)
    /\ DeletedAreGone /\ RoutesBacked /\ Apart

Inv == TypeInv /\ StatesInv /\ IdsInv /\ IntentStands /\ (~spoiled => SerialInv)

-----------------------------------------------------------------------------
(***************************************************************************)
(* What the steps of a request have in common.                              *)
(***************************************************************************)
Steps(p) ==
    /\ TypeInv'
    /\ \A o \in Console \ {p} : proc'[o] = proc[o]
    /\ StateOK(proc'[p])
    /\ ~spoiled' => ~spoiled /\ (At(p, "idle") => \A o \in Console \ {p} : At(o, "idle"))

LEMMA Alone ==
    ASSUME Inv, NEW p \in Console, Steps(p), ~spoiled'
    PROVE  /\ SerialInv
           /\ \A o \in Console \ {p} : At(o, "idle") /\ proc'[o].pc = "idle"
  <1>1. SerialInv
    BY DEF Inv, Steps
  <1>2. \A o \in Console \ {p} : At(o, "idle")
    BY <1>1 DEF Steps, SerialInv, OneAtATime
  <1> QED
    BY <1>1, <1>2 DEF Steps, At

LEMMA Assemble ==
    ASSUME Inv, NEW p \in Console, Steps(p), IdsInv', IntentStands',
           ~spoiled' => Held(p)' /\ DeletedAreGone' /\ RoutesBacked' /\ Apart'
    PROVE  Inv'
  <1>1. StatesInv'
    BY DEF Inv, StatesInv, Steps
  <1>2. ASSUME ~spoiled' PROVE SerialInv'
    <2>1. \A o \in Console \ {p} : proc'[o].pc = "idle"
      BY <1>2, Alone
    <2>2. OneAtATime'
      BY <2>1 DEF OneAtATime, At
    <2>3. \A o \in Console \ {p} : Held(o)'
      BY <2>1 DEF Held, RowsHeld, PortsHeld, RoutesHeld
    <2> QED
      BY <1>2, <2>2, <2>3 DEF SerialInv
  <1> QED
    BY <1>1, <1>2 DEF Inv, Steps

\* No id is given out.
LEMMA IdsKept ==
    ASSUME Inv, NEW p \in Console, Steps(p), ids' = ids,
           \A s \in Slot : target'[s] # None => Uses(s, target'[s].id),
           \A s \in Slot : \A i : Knows(proc'[p], s, i) => Uses(s, i)
    PROVE  IdsInv'
  <1>1. ASSUME NEW s \in Slot, NEW i, Uses(s, i)' PROVE Uses(s, i)
    <2>1. CASE target'[s] # None /\ target'[s].id = i
      BY <2>1
    <2>2. CASE \E o \in Console : Knows(proc'[o], s, i)
      BY <2>2 DEF Steps, Uses
    <2> QED
      BY <1>1, <2>1, <2>2 DEF Uses
  <1> QED
    BY <1>1 DEF Inv, IdsInv

\* A step that writes no row.
LEMMA Proceeds ==
    ASSUME Inv, NEW p \in Console, Steps(p), UNCHANGED <<target, route, pins, ids, stopped, deleted>>,
           \A s \in Slot : \A i : Knows(proc'[p], s, i) => Uses(s, i),
           stranded \subseteq stranded', At(p, "disable") => proc[p].slot[1] \in stranded',
           ~spoiled' => Held(p)'
    PROVE  Inv'
  <1>1. IdsInv'
    BY IdsKept DEF Uses
  <1>2. IntentStands'
    BY DEF Inv, IntentStands, Rows
  <1>3. ASSUME ~spoiled' PROVE DeletedAreGone' /\ RoutesBacked' /\ Apart'
    <2>1. SerialInv
      BY <1>3, Alone
    <2>2. DeletedAreGone' /\ Apart'
      BY <2>1 DEF SerialInv, DeletedAreGone, Apart, Wanted
    <2>3. RoutesBacked'
      BY <1>3, <2>1 DEF SerialInv, RoutesBacked, Enabled, Steps, At
    <2> QED
      BY <2>2, <2>3
  <1> QED
    BY <1>1, <1>2, <1>3, Assemble

-----------------------------------------------------------------------------
(***************************************************************************)
(* The requests begin and end.                                              *)
(***************************************************************************)
LEMMA BeginSteps ==
    ASSUME Inv, NEW p \in Console, NEW state, Begin(p, state), StateOK(state),
           UNCHANGED <<target, route, pins, ids>>
    PROVE  Steps(p) /\ proc'[p] = state
  <1>1. /\ proc'[p] = state /\ proc' = [o \in Console |-> proc'[o]]
        /\ \A o \in Console \ {p} : proc'[o] = proc[o]
    BY DEF Begin, Inv, TypeInv
  <1>2. spoiled' \in BOOLEAN /\ (~spoiled' => ~spoiled /\ \A o \in Console \ {p} : At(o, "idle"))
    BY Zenon DEF Begin
  <1> QED
    BY <1>1, <1>2 DEF Steps, Inv, TypeInv

LEMMA StartSaveInvariant ==
    ASSUME Inv, NEW p \in Console, NEW q \in Save, StartSave(p, q)
    PROVE  Inv'
  <1> DEFINE rows  == [s \in Rows(Of(q.app)) |-> target[s].id]
             state == [pc |-> "validate", req |-> q, want |-> PinIds(q), left |-> Checks(q),
                       existing |-> rows]
  <1>1. StateOK(state)
    BY DEF StateOK, SavePC, RemovePC, DropPC, Rows
  <1>2. Begin(p, state) /\ UNCHANGED <<target, route, pins, ids, stopped, deleted, stranded>>
    BY DEF StartSave
  <1>3. Steps(p) /\ proc'[p] = state
    BY <1>1, <1>2, BeginSteps
  <1>4. \A s \in DOMAIN rows : s \in Slot /\ target[s] # None /\ target[s].id = rows[s]
    BY DEF Rows, Of
  <1>5. /\ state.pc = "validate" /\ state.existing = rows /\ state.req = q /\ At(p, "idle")
        /\ \A s \in DOMAIN q.targets : q.targets[s].enabled => <<"port", s>> \in state.left
    BY <1>2 DEF Begin, Checks
  <1> HIDE DEF state, rows
  <1>6. \A s \in Slot : \A i : Knows(proc'[p], s, i) => Uses(s, i)
    BY <1>3, <1>4, <1>5 DEF Knows, Uses, RemovePC
  <1>7. Held(p)'
    BY <1>2, <1>3, <1>4, <1>5 DEF Held, RowsHeld, PortsHeld, RoutesHeld, Live
  <1> QED
    BY <1>2, <1>3, <1>5, <1>6, <1>7, Proceeds DEF At

LEMMA DeleteInstanceInvariant ==
    ASSUME Inv, NEW p \in Console, NEW s \in Slot, DeleteInstance(p, s)
    PROVE  Inv'
  <1> DEFINE state == [pc |-> "unpin", slot |-> s, id |-> target[s].id]
  <1>1. StateOK(state)
    BY DEF StateOK, SavePC, RemovePC, DropPC
  <1>2. /\ Begin(p, state) /\ UNCHANGED <<target, route, pins, ids, stopped, deleted, stranded>>
        /\ target[s] # None
    BY DEF DeleteInstance
  <1>3. Steps(p) /\ proc'[p] = state
    BY <1>1, <1>2, BeginSteps
  <1>4. state.pc = "unpin" /\ state.slot = s /\ state.id = target[s].id /\ At(p, "idle")
    BY <1>2 DEF Begin
  <1> HIDE DEF state
  <1>5. \A t \in Slot : \A i : Knows(proc'[p], t, i) => Uses(t, i)
    BY <1>2, <1>3, <1>4 DEF Knows, Uses, SavePC
  <1>6. Held(p)'
    BY <1>2, <1>3, <1>4 DEF Held, RowsHeld, PortsHeld, RoutesHeld, Live
  <1> QED
    BY <1>2, <1>3, <1>4, <1>5, <1>6, Proceeds DEF At

LEMMA DeleteInvariant ==
    ASSUME Inv, NEW p \in Console, NEW app \in App, Delete(p, app)
    PROVE  Inv'
  <1> DEFINE state == [pc |-> "drop routes", app |-> app]
  <1>1. StateOK(state)
    BY DEF StateOK, SavePC, RemovePC, DropPC
  <1>2. Begin(p, state) /\ UNCHANGED <<target, route, pins, ids, stopped, deleted, stranded>>
    BY DEF Delete
  <1>3. Steps(p) /\ proc'[p] = state
    BY <1>1, <1>2, BeginSteps
  <1>4. state.pc = "drop routes" /\ At(p, "idle")
    BY <1>2 DEF Begin
  <1> HIDE DEF state
  <1>5. \A t \in Slot : \A i : ~Knows(proc'[p], t, i)
    BY <1>3, <1>4 DEF Knows, SavePC, RemovePC
  <1>6. Held(p)'
    BY <1>3, <1>4 DEF Held, RowsHeld, PortsHeld, RoutesHeld
  <1> QED
    BY <1>2, <1>3, <1>4, <1>5, <1>6, Proceeds DEF At

\* A request ends, or fails.
LEMMA EndInvariant ==
    ASSUME Inv, NEW p \in Console, proc' = [proc EXCEPT ![p] = Idle], ~At(p, "idle"),
           UNCHANGED <<target, route, pins, ids, stopped, deleted>>,
           UNCHANGED spoiled, stranded \subseteq stranded',
           At(p, "disable") => proc[p].slot[1] \in stranded'
    PROVE  Inv'
  <1>1. /\ proc'[p].pc = "idle" /\ proc' = [o \in Console |-> proc'[o]]
        /\ \A o \in Console \ {p} : proc'[o] = proc[o]
    BY DEF Inv, TypeInv, Idle
  <1>2. StateOK(proc'[p])
    BY <1>1 DEF StateOK, SavePC, RemovePC, DropPC
  <1>3. Steps(p)
    BY <1>1, <1>2 DEF Steps, Inv, TypeInv
  <1>4. \A s \in Slot : \A i : ~Knows(proc'[p], s, i)
    BY <1>1 DEF Knows, SavePC, RemovePC
  <1>5. Held(p)'
    BY <1>1 DEF Held, RowsHeld, PortsHeld, RoutesHeld
  <1> QED
    BY <1>3, <1>4, <1>5, Proceeds

LEMMA FailsInvariant ==
    ASSUME Inv, NEW p \in Console, Fails(p)
    PROVE  Inv'
  <1>1. stranded \subseteq stranded' /\ (At(p, "disable") => proc[p].slot[1] \in stranded')
    BY DEF Fails
  <1> QED
    BY <1>1, EndInvariant DEF Fails

LEMMA SavedInvariant ==
    ASSUME Inv, NEW p \in Console, Saved(p)
    PROVE  Inv'
  <1>1. ~At(p, "disable") /\ ~At(p, "idle")
    BY DEF Saved, At
  <1> QED
    BY <1>1, EndInvariant DEF Saved, ghosts

LEMMA DeleteAppInvariant ==
    ASSUME Inv, NEW p \in Console, DeleteApp(p)
    PROVE  Inv'
  <1>1. ~At(p, "disable") /\ ~At(p, "idle")
    BY DEF DeleteApp, At
  <1> QED
    BY <1>1, EndInvariant DEF DeleteApp, ghosts
-----------------------------------------------------------------------------
(***************************************************************************)
(* The statements of a request that write no row.                           *)
(***************************************************************************)
LEMMA MoveEffect ==
    ASSUME Inv, NEW p \in Console, NEW c, Move(p, c)
    PROVE  /\ proc' = [o \in Console |-> proc'[o]]
           /\ \A o \in Console \ {p} : proc'[o] = proc[o]
           /\ DOMAIN proc'[p] = DOMAIN proc[p] \cup DOMAIN c
           /\ \A x \in DOMAIN c : proc'[p][x] = c[x]
           /\ \A x \in DOMAIN proc[p] \ DOMAIN c : proc'[p][x] = proc[p][x]
  BY DEF Move, Inv, TypeInv

LEMMA MoveSteps ==
    ASSUME Inv, NEW p \in Console, NEW c, Move(p, c), StateOK(proc'[p]), ~At(p, "idle"),
           UNCHANGED spoiled, target' \in [Slot -> TargetRow \cup {None}],
           route' \in [Key -> RouteRow \cup {None}], pins' = [k \in Key |-> pins'[k]], ids' \in Nat
    PROVE  Steps(p)
  BY MoveEffect DEF Steps, Inv, TypeInv

\* A port that was looked up is free, but for the row the request holds itself.
LEMMA PortFree ==
    ASSUME Inv, NEW p \in Console, At(p, "validate"), NEW s \in Slot, ~PortTaken(p, s)
    PROVE  \A t \in Slot \ {s} : Wanted(t) => target[t].port # proc[p].req.targets[s].port
  <1> DEFINE x == proc[p]
  <1> SUFFICES ASSUME NEW t \in Slot \ {s}, Wanted(t), target[t].port = x.req.targets[s].port
               PROVE  FALSE
    OBVIOUS
  <1>1. target[t].id = Known(p, s) /\ Uses(t, target[t].id)
    BY DEF PortTaken, Wanted, Rows, Uses
  <1>2. target[t].id # 0
    BY <1>1 DEF Inv, IdsInv, TypeInv
  <1>3. Uses(s, target[t].id)
    BY <1>1, <1>2 DEF Known, Uses, Knows, SavePC, At
  <1> QED
    BY <1>1, <1>3 DEF Inv, IdsInv

LEMMA CheckInvariant ==
    ASSUME Inv, NEW p \in Console, Check(p)
    PROVE  Inv'
  <1> DEFINE x == proc[p]
  <1>0. /\ x.pc = "validate" /\ StateOK(x) /\ At(p, "validate")
        /\ UNCHANGED <<target, route, pins, ids, stopped, deleted, stranded, spoiled>>
    BY DEF Check, At, ghosts, Inv, StatesInv
  <1>c. PICK c \in x.left : Passes(p, c) /\ Move(p, [left |-> x.left \ {c}])
    BY DEF Check
  <1>1. /\ {"pc", "req", "want", "existing", "left"} \subseteq DOMAIN proc'[p]
        /\ proc'[p].pc = "validate" /\ proc'[p].req = x.req /\ proc'[p].existing = x.existing
        /\ proc'[p].left = x.left \ {c}
    BY <1>0, <1>c, MoveEffect DEF StateOK, SavePC
  <1>2. StateOK(proc'[p])
    BY <1>0, <1>1 DEF StateOK, SavePC, RemovePC, DropPC
  <1>3. Steps(p)
    BY <1>0, <1>c, <1>2, MoveSteps DEF At, Inv, TypeInv
  <1>4. \A s \in Slot : \A i : Knows(proc'[p], s, i) => Uses(s, i)
    BY <1>0, <1>1 DEF Knows, Uses, SavePC, RemovePC
  <1>5. ASSUME ~spoiled' PROVE Held(p)'
    <2>1. Held(p)
      BY <1>3, <1>5, Alone DEF SerialInv
    <2>2. RowsHeld(p)'
      BY <1>0, <1>1, <2>1 DEF Held, RowsHeld, Live
    <2>3. PortsHeld(p)'
      <3> SUFFICES ASSUME NEW s \in DOMAIN x.req.targets, x.req.targets[s].enabled,
                          <<"port", s>> \notin x.left \ {c}
                   PROVE  \A t \in Slot \ {s} : Wanted(t) => target[t].port # x.req.targets[s].port
        BY <1>0, <1>1 DEF PortsHeld, Wanted
      <3>1. CASE <<"port", s>> \notin x.left
        BY <1>0, <2>1, <3>1 DEF Held, PortsHeld
      <3>2. CASE c = <<"port", s>>
        <4>1. ~PortTaken(p, s)
          BY <1>c, <3>2 DEF Passes
        <4>2. s \in Slot
          BY <1>0, SaveAssumption DEF StateOK, SavePC
        <4> QED
          BY <1>0, <4>1, <4>2, PortFree
      <3> QED
        BY <3>1, <3>2
    <2>4. RoutesHeld(p)'
      BY <1>1 DEF RoutesHeld
    <2> QED
      BY <2>2, <2>3, <2>4 DEF Held
  <1> QED
    BY <1>0, <1>3, <1>4, <1>5, Proceeds DEF At

LEMMA ValidatedInvariant ==
    ASSUME Inv, NEW p \in Console, Validated(p)
    PROVE  Inv'
  <1> DEFINE x == proc[p]
  <1>0. /\ x.pc = "validate" /\ StateOK(x) /\ x.left = {} /\ Distinct(x.req)
        /\ Move(p, [pc |-> "targets", left |-> DOMAIN x.req.targets, valid |-> [s \in {} |-> 0]])
        /\ UNCHANGED <<target, route, pins, ids, stopped, deleted, stranded, spoiled>>
    BY DEF Validated, At, ghosts, Inv, StatesInv
  <1>1. /\ {"pc", "req", "want", "existing", "left", "valid"} \subseteq DOMAIN proc'[p]
        /\ proc'[p].pc = "targets" /\ proc'[p].req = x.req /\ proc'[p].existing = x.existing
        /\ proc'[p].left = DOMAIN x.req.targets /\ DOMAIN proc'[p].valid = {}
    BY <1>0, MoveEffect DEF StateOK, SavePC
  <1>2. StateOK(proc'[p])
    BY <1>0, <1>1 DEF StateOK, SavePC, RemovePC, DropPC
  <1>3. Steps(p)
    BY <1>0, <1>2, MoveSteps DEF At, Inv, TypeInv
  <1>4. \A s \in Slot : \A i : Knows(proc'[p], s, i) => Uses(s, i)
    BY <1>0, <1>1 DEF Knows, Uses, SavePC, RemovePC
  <1>5. ASSUME ~spoiled' PROVE Held(p)'
    <2>1. Held(p)
      BY <1>3, <1>5, Alone DEF SerialInv
    <2>2. RowsHeld(p)'
      BY <1>0, <1>1, <2>1 DEF Held, RowsHeld, Live
    <2>3. PortsHeld(p)'
      <3> SUFFICES ASSUME NEW s \in DOMAIN x.req.targets, x.req.targets[s].enabled
                   PROVE  /\ \A t \in Slot \ {s} : Wanted(t) => target[t].port # x.req.targets[s].port
                          /\ \A t \in DOMAIN x.req.targets \ {s} :
                                x.req.targets[t].enabled => x.req.targets[t].port # x.req.targets[s].port
        BY <1>0, <1>1 DEF PortsHeld, Wanted
      <3>1. \A t \in Slot \ {s} : Wanted(t) => target[t].port # x.req.targets[s].port
        BY <1>0, <2>1 DEF Held, PortsHeld
      <3>2. \A t \in DOMAIN x.req.targets \ {s} :
              x.req.targets[t].enabled => x.req.targets[t].port # x.req.targets[s].port
        BY <1>0 DEF Distinct
      <3> QED
        BY <3>1, <3>2
    <2>4. RoutesHeld(p)'
      BY <1>1 DEF RoutesHeld
    <2> QED
      BY <2>2, <2>3, <2>4 DEF Held
  <1> QED
    BY <1>0, <1>3, <1>4, <1>5, Proceeds DEF At

LEMMA TargetsWrittenInvariant ==
    ASSUME Inv, NEW p \in Console, TargetsWritten(p)
    PROVE  Inv'
  <1> DEFINE x == proc[p]
  <1>0. /\ x.pc = "targets" /\ StateOK(x) /\ x.left = {}
        /\ Move(p, [pc |-> "routes", left |-> DOMAIN x.req.routes])
        /\ UNCHANGED <<target, route, pins, ids, stopped, deleted, stranded, spoiled>>
    BY DEF TargetsWritten, Provided, At, ghosts, Inv, StatesInv
  <1>1. /\ {"pc", "req", "want", "existing", "left", "valid"} \subseteq DOMAIN proc'[p]
        /\ proc'[p].pc = "routes" /\ proc'[p].req = x.req /\ proc'[p].existing = x.existing
        /\ proc'[p].left = DOMAIN x.req.routes /\ proc'[p].valid = x.valid
    BY <1>0, MoveEffect DEF StateOK, SavePC
  <1>2. StateOK(proc'[p])
    BY <1>0, <1>1 DEF StateOK, SavePC, RemovePC, DropPC
  <1>3. Steps(p)
    BY <1>0, <1>2, MoveSteps DEF At, Inv, TypeInv
  <1>4. \A s \in Slot : \A i : Knows(proc'[p], s, i) => Uses(s, i)
    BY <1>0, <1>1 DEF Knows, Uses, SavePC, RemovePC
  <1>5. ASSUME ~spoiled' PROVE Held(p)'
    <2>1. Held(p)
      BY <1>3, <1>5, Alone DEF SerialInv
    <2>2. DOMAIN x.valid = DOMAIN x.req.targets
      BY <1>0 DEF StateOK
    <2>3. RowsHeld(p)'
      BY <1>0, <1>1, <2>1, <2>2 DEF Held, RowsHeld, Live
    <2> QED
      BY <1>1, <2>3 DEF Held, PortsHeld, RoutesHeld
  <1> QED
    BY <1>0, <1>3, <1>4, <1>5, Proceeds DEF At

LEMMA PinsWrittenInvariant ==
    ASSUME Inv, NEW p \in Console, PinsWritten(p)
    PROVE  Inv'
  <1> DEFINE x == proc[p]
  <1>0. /\ x.pc = "pins" /\ StateOK(x) /\ Move(p, [pc |-> "routes"])
        /\ UNCHANGED <<target, route, pins, ids, stopped, deleted, stranded, spoiled>>
    BY DEF PinsWritten, At, ghosts, Inv, StatesInv
  <1>1. /\ {"pc", "req", "want", "existing", "left", "valid"} \subseteq DOMAIN proc'[p]
        /\ proc'[p].pc = "routes" /\ proc'[p].req = x.req /\ proc'[p].existing = x.existing
        /\ proc'[p].left = x.left /\ proc'[p].valid = x.valid
    BY <1>0, MoveEffect DEF StateOK, SavePC
  <1>2. StateOK(proc'[p])
    BY <1>0, <1>1 DEF StateOK, SavePC, RemovePC, DropPC
  <1>3. Steps(p)
    BY <1>0, <1>2, MoveSteps DEF At, Inv, TypeInv
  <1>4. \A s \in Slot : \A i : Knows(proc'[p], s, i) => Uses(s, i)
    BY <1>0, <1>1 DEF Knows, Uses, SavePC, RemovePC
  <1>5. ASSUME ~spoiled' PROVE Held(p)'
    <2>1. Held(p)
      BY <1>3, <1>5, Alone DEF SerialInv
    <2>2. RowsHeld(p)'
      BY <1>0, <1>1, <2>1 DEF Held, RowsHeld, Live
    <2> QED
      BY <1>1, <2>2 DEF Held, PortsHeld, RoutesHeld
  <1> QED
    BY <1>0, <1>3, <1>4, <1>5, Proceeds DEF At

LEMMA RoutesWrittenInvariant ==
    ASSUME Inv, NEW p \in Console, RoutesWritten(p)
    PROVE  Inv'
  <1> DEFINE x == proc[p]
             omitted == DOMAIN x.existing \ DOMAIN x.req.targets
  <1>0. /\ x.pc = "routes" /\ StateOK(x) /\ Move(p, [pc |-> "omitted", left |-> omitted])
        /\ UNCHANGED <<target, route, pins, ids, stopped, deleted, stranded, spoiled>>
    BY DEF RoutesWritten, At, ghosts, Inv, StatesInv
  <1>1. /\ {"pc", "req", "want", "existing", "left", "valid"} \subseteq DOMAIN proc'[p]
        /\ proc'[p].pc = "omitted" /\ proc'[p].req = x.req /\ proc'[p].existing = x.existing
        /\ proc'[p].left = omitted
    BY <1>0, MoveEffect DEF StateOK, SavePC
  <1>2. StateOK(proc'[p])
    BY <1>0, <1>1 DEF StateOK, SavePC, RemovePC, DropPC
  <1>3. Steps(p)
    BY <1>0, <1>2, MoveSteps DEF At, Inv, TypeInv
  <1>4. \A s \in Slot : \A i : Knows(proc'[p], s, i) => Uses(s, i)
    BY <1>0, <1>1 DEF Knows, Uses, SavePC, RemovePC
  <1>5. ASSUME ~spoiled' PROVE Held(p)'
    <2>1. Held(p)
      BY <1>3, <1>5, Alone DEF SerialInv
    <2>2. RowsHeld(p)'
      BY <1>0, <1>1, <2>1 DEF Held, RowsHeld, Live
    <2> QED
      BY <1>1, <2>2 DEF Held, PortsHeld, RoutesHeld
  <1> QED
    BY <1>0, <1>3, <1>4, <1>5, Proceeds DEF At

LEMMA ListSiblingsInvariant ==
    ASSUME Inv, NEW p \in Console, ListSiblings(p)
    PROVE  Inv'
  <1> DEFINE x == proc[p]
             last == \A s \in Rows(Slot) : s[1] = x.slot[1] => target[s].id = x.id
  <1>0. /\ x.pc = "siblings" /\ StateOK(x) /\ Move(p, [pc |-> "remove", last |-> last])
        /\ UNCHANGED <<target, route, pins, ids, stopped, deleted, stranded, spoiled>>
    BY DEF ListSiblings, At, ghosts, Inv, StatesInv
  <1>a. last \in BOOLEAN /\ (~last => \E s \in Slot : target[s] # None /\ s[1] = x.slot[1]
                                                       /\ target[s].id # x.id)
    BY DEF Rows
  <1> HIDE DEF last
  <1>1. /\ {"pc", "slot", "id", "last"} \subseteq DOMAIN proc'[p]
        /\ proc'[p].pc = "remove" /\ proc'[p].slot = x.slot /\ proc'[p].id = x.id
        /\ proc'[p].last = last
    BY <1>0, MoveEffect DEF StateOK, RemovePC
  <1>2. StateOK(proc'[p])
    BY <1>0, <1>a, <1>1 DEF StateOK, SavePC, RemovePC, DropPC
  <1>3. Steps(p)
    BY <1>0, <1>2, MoveSteps DEF At, Inv, TypeInv
  <1>4. \A s \in Slot : \A i : Knows(proc'[p], s, i) => Uses(s, i)
    BY <1>0, <1>1 DEF Knows, Uses, SavePC, RemovePC
  <1>5. ASSUME ~spoiled' PROVE Held(p)'
    <2>1. Held(p)
      BY <1>3, <1>5, Alone DEF SerialInv
    <2>2. Live(x.slot, x.id)
      BY <1>0, <2>1 DEF Held, RowsHeld
    <2>3. ~last => \E s \in Slot : target[s] # None /\ s[1] = x.slot[1] /\ s # x.slot
      BY <1>a, <2>2 DEF Live
    <2>4. RowsHeld(p)'
      BY <1>0, <1>1, <2>2, <2>3 DEF RowsHeld, Live
    <2>5. RoutesHeld(p)'
      BY <1>0, <1>1, <2>1 DEF Held, RoutesHeld
    <2> QED
      BY <1>1, <2>4, <2>5 DEF Held, PortsHeld
  <1> QED
    BY <1>0, <1>3, <1>4, <1>5, Proceeds DEF At
-----------------------------------------------------------------------------
(***************************************************************************)
(* syncTargets.                                                             *)
(***************************************************************************)
\* The row an upsert writes.
LEMMA UpsertRow ==
    ASSUME Inv, NEW p \in Console, NEW s \in Slot, Upsert(p, s)
    PROVE  \E row \in TargetRow :
              /\ target' = [target EXCEPT ![s] = row]
              /\ row.asked = proc[p].req.targets[s].enabled /\ row.port = proc[p].req.targets[s].port
              /\ ids' = IF row.id > ids THEN row.id ELSE ids
              /\ Move(p, [left |-> proc[p].left \ {s},
                          valid |-> [t \in DOMAIN proc[p].valid \cup {s} |->
                                       IF t = s THEN row.id ELSE proc[p].valid[t]]])
              /\ target[s] = None => /\ row.id = (IF Known(p, s) # 0 THEN Known(p, s) ELSE ids + 1)
                                     /\ row.desired = "running" /\ stopped' = stopped \ {row.id}
              /\ target[s] # None => /\ row.id = target[s].id /\ row.desired = target[s].desired
                                     /\ stopped' = stopped
  <1> DEFINE x == proc[p]
             q == x.req.targets[s]
             row == IF target[s] = None THEN Created(p, s) ELSE Updated(p, s)
  <1>0. /\ x.pc = "targets" /\ StateOK(x) /\ s \in x.left
    BY DEF Upsert, At, Inv, StatesInv
  <1>1. q.port \in Port /\ q.enabled \in BOOLEAN
    BY <1>0, SaveAssumption DEF StateOK, SavePC
  <1>2. Known(p, s) \in Nat /\ ids \in Nat
    <2>1. s \in DOMAIN x.existing => Uses(s, x.existing[s])
      BY <1>0 DEF Uses, Knows, SavePC
    <2> QED
      BY <2>1 DEF Known, Inv, IdsInv, TypeInv
  <1>3. CASE target[s] = None
    <2>1. /\ Created(p, s) \in TargetRow /\ Created(p, s).asked = q.enabled /\ Created(p, s).port = q.port
          /\ Created(p, s).id = (IF Known(p, s) # 0 THEN Known(p, s) ELSE ids + 1)
          /\ Created(p, s).desired = "running"
      BY <1>1, <1>2 DEF Created, TargetRow
    <2>2. row = Created(p, s)
      BY <1>3
    <2> Created(p, s) \in TargetRow
      BY <2>1
    <2> WITNESS Created(p, s) \in TargetRow
    <2> QED
      BY <1>3, <2>1, <2>2 DEF Upsert
  <1>4. CASE target[s] # None
    <2>0. target[s] \in TargetRow
      BY <1>4 DEF Inv, TypeInv
    <2>1. Updated(p, s) \in TargetRow
      BY <1>1, <2>0, ZenonT(60) DEF Updated, TargetRow
    <2>2. /\ Updated(p, s).asked = q.enabled /\ Updated(p, s).port = q.port
          /\ Updated(p, s).id = target[s].id /\ Updated(p, s).desired = target[s].desired
      BY <2>0 DEF Updated, TargetRow
    <2>3. row = Updated(p, s)
      BY <1>4
    <2> Updated(p, s) \in TargetRow
      BY <2>1
    <2> WITNESS Updated(p, s) \in TargetRow
    <2> QED
      BY <1>4, <2>2, <2>3 DEF Upsert
  <1> QED
    BY <1>3, <1>4

LEMMA UpsertInvariant ==
    ASSUME Inv, NEW p \in Console, NEW s \in Slot, Upsert(p, s)
    PROVE  Inv'
  <1> DEFINE x == proc[p]
             q == x.req.targets
  <1>0. /\ x.pc = "targets" /\ StateOK(x) /\ s \in x.left
        /\ stranded' = stranded \ {s[1]} /\ UNCHANGED <<route, pins, deleted, spoiled>>
    BY DEF Upsert, At, Inv, StatesInv
  <1>1. PICK row \in TargetRow :
          /\ target' = [target EXCEPT ![s] = row]
          /\ row.asked = q[s].enabled /\ row.port = q[s].port
          /\ ids' = IF row.id > ids THEN row.id ELSE ids
          /\ Move(p, [left |-> x.left \ {s},
                      valid |-> [t \in DOMAIN x.valid \cup {s} |->
                                   IF t = s THEN row.id ELSE x.valid[t]]])
          /\ target[s] = None => /\ row.id = (IF Known(p, s) # 0 THEN Known(p, s) ELSE ids + 1)
                                 /\ row.desired = "running" /\ stopped' = stopped \ {row.id}
          /\ target[s] # None => /\ row.id = target[s].id /\ row.desired = target[s].desired
                                 /\ stopped' = stopped
    BY UpsertRow
  <1>2. /\ target' \in [Slot -> TargetRow \cup {None}]
        /\ target'[s] = row /\ row # None /\ row.id \in Nat /\ ids \in Nat
        /\ \A t \in Slot \ {s} : target'[t] = target[t]
    BY <1>1, SaveAssumption DEF Inv, TypeInv, TargetRow
  <1>3. /\ {"pc", "req", "want", "existing", "left", "valid"} \subseteq DOMAIN proc'[p]
        /\ proc'[p].pc = "targets" /\ proc'[p].req = x.req /\ proc'[p].existing = x.existing
        /\ proc'[p].left = x.left \ {s}
        /\ proc'[p].valid = [t \in DOMAIN x.valid \cup {s} |-> IF t = s THEN row.id ELSE x.valid[t]]
    BY <1>0, <1>1, MoveEffect DEF StateOK, SavePC
  <1>4. StateOK(proc'[p])
    BY <1>0, <1>3 DEF StateOK, SavePC, RemovePC, DropPC
  <1>5. ids' \in Nat /\ ids' >= ids /\ ids' >= row.id
    BY <1>1, <1>2
  <1>6. Steps(p)
    BY <1>0, <1>1, <1>2, <1>4, <1>5, MoveSteps DEF At, Inv, TypeInv
  <1>7. \/ Uses(s, row.id)
        \/ row.id = ids + 1 /\ ids' = ids + 1 /\ target[s] = None /\ Known(p, s) = 0
    <2>1. target[s] # None => Uses(s, row.id)
      BY <1>1 DEF Uses
    <2>2. Known(p, s) # 0 => Uses(s, Known(p, s))
      BY <1>0 DEF Known, Uses, Knows, SavePC
    <2> QED
      BY <1>1, <1>2, <2>1, <2>2
  <1>8. \A t \in Slot : \A i : Uses(t, i) => i \in Nat /\ i <= ids /\ i > 0
    BY <1>2 DEF Inv, IdsInv
  <1>9. \A t \in Slot \ {s} : \A i : Uses(t, i) => i # row.id
    BY <1>2, <1>7, <1>8 DEF Inv, IdsInv
  <1>10. IdsInv'
    <2>1. ASSUME NEW t \in Slot, NEW i, Uses(t, i)' PROVE Uses(t, i) \/ (t = s /\ i = row.id)
      <3>1. CASE target'[t] # None /\ target'[t].id = i
        BY <1>2, <3>1 DEF Uses
      <3>2. CASE \E o \in Console : Knows(proc'[o], t, i)
        <4>1. Knows(proc'[p], t, i) => Knows(proc[p], t, i)
          BY <1>0, <1>3 DEF Knows, SavePC, RemovePC
        <4> QED
          BY <1>6, <3>2, <4>1 DEF Steps, Uses
      <3> QED
        BY <2>1, <3>1, <3>2 DEF Uses
    <2>2. \A t \in Slot : \A i : Uses(t, i)' => i \in 1..ids'
      BY <1>2, <1>5, <1>7, <1>8, <2>1
    <2>3. \A t, r \in Slot : \A i : Uses(t, i)' /\ Uses(r, i)' => t = r
      BY <1>9, <2>1 DEF Inv, IdsInv
    <2> QED
      BY <2>2, <2>3 DEF IdsInv
  <1>11. IntentStands'
    <2> SUFFICES ASSUME NEW t \in Slot, target'[t] # None
                 PROVE  target'[t].desired = "stopped" <=> target'[t].id \in stopped'
      BY DEF IntentStands, Rows
    <2>1. CASE t = s
      BY <1>1, <1>2, <2>1 DEF Inv, IntentStands, Rows
    <2>2. CASE t # s
      <3>1. Uses(t, target[t].id) /\ target'[t] = target[t]
        BY <1>2, <2>2 DEF Uses
      <3>2. target[t].id # row.id
        BY <1>9, <2>2, <3>1
      <3> QED
        BY <1>1, <3>1, <3>2 DEF Inv, IntentStands, Rows
    <2> QED
      BY <2>1, <2>2
  <1>12. ASSUME ~spoiled' PROVE Held(p)' /\ DeletedAreGone' /\ RoutesBacked' /\ Apart'
    <2>0. SerialInv /\ Held(p)
      BY <1>6, <1>12, Alone DEF SerialInv
    <2>1. RowsHeld(p)'
      <3>1. \A t \in DOMAIN x.existing : t \in Slot /\ target[t] # None /\ target[t].id = x.existing[t]
        BY <1>0, <2>0 DEF Held, RowsHeld, Live
      <3>2. \A t \in DOMAIN x.existing : target'[t] # None /\ target'[t].id = x.existing[t]
        BY <1>1, <1>2, <3>1
      <3>3. \A t \in DOMAIN x.valid : t \in Slot /\ target[t] # None /\ target[t].id = x.valid[t]
        BY <1>0, <2>0 DEF Held, RowsHeld, Live
      <3>4. \A t \in DOMAIN x.valid \cup {s} : t \in Slot /\ target'[t] # None
                                               /\ target'[t].id = proc'[p].valid[t]
        BY <1>2, <1>3, <3>3
      <3> QED
        BY <1>3, <3>1, <3>2, <3>4 DEF RowsHeld, Live
    <2>2. /\ \A r \in x.left : q[r].enabled =>
               /\ \A t \in Slot \ {r} : Wanted(t) => target[t].port # q[r].port
               /\ \A t \in DOMAIN q \ {r} : q[t].enabled => q[t].port # q[r].port
          /\ s \in DOMAIN q
      BY <1>0, <2>0 DEF Held, PortsHeld, StateOK
    <2>3. \A t \in Slot : Wanted(t)' => IF t = s THEN q[s].enabled /\ target'[t].port = q[s].port
                                               ELSE Wanted(t) /\ target'[t].port = target[t].port
      BY <1>1, <1>2 DEF Wanted
    <2>4. PortsHeld(p)'
      <3> SUFFICES ASSUME NEW r \in x.left \ {s}, q[r].enabled
                   PROVE  /\ \A t \in Slot \ {r} : Wanted(t)' => target'[t].port # q[r].port
                          /\ \A t \in DOMAIN q \ {r} : q[t].enabled => q[t].port # q[r].port
        BY <1>3 DEF PortsHeld
      <3> QED
        BY <2>2, <2>3
    <2>5. Apart'
      BY <1>0, <2>0, <2>2, <2>3 DEF SerialInv, Apart
    <2>6. DeletedAreGone'
      <3>1. row.id \notin deleted
        <4>1. CASE target[s] # None
          BY <1>1, <2>0, <4>1 DEF SerialInv, DeletedAreGone
        <4>2. CASE target[s] = None
          <5>1. Known(p, s) = 0
            BY <1>0, <2>0, <4>2 DEF Held, RowsHeld, Live, Known
          <5> QED
            BY <1>1, <1>2, <2>0, <4>2, <5>1 DEF SerialInv, DeletedAreGone
        <4> QED
          BY <4>1, <4>2
      <3>2. deleted \subseteq 1..ids'
        BY <1>2, <1>5, <2>0 DEF SerialInv, DeletedAreGone
      <3> QED
        BY <1>0, <1>2, <2>0, <3>1, <3>2 DEF SerialInv, DeletedAreGone
    <2>7. RoutesBacked'
      <3> SUFFICES ASSUME NEW k \in Key, Enabled(k)'
                   PROVE  \/ \E t \in Slot : target'[t] # None /\ t[1] = route[k].env
                          \/ route[k].env \in stranded'
        BY <1>0 DEF RoutesBacked
      <3>1. Enabled(k)
        BY <1>0 DEF Enabled
      <3>2. \A o \in Console : ~At(o, "disable")
        BY <1>0, <1>6, <1>12, Alone DEF At
      <3> QED
        BY <1>0, <1>2, <2>0, <3>1, <3>2 DEF SerialInv, RoutesBacked
    <2>8. RoutesHeld(p)'
      BY <1>3 DEF RoutesHeld
    <2> QED
      BY <2>1, <2>4, <2>5, <2>6, <2>7, <2>8 DEF Held
  <1> QED
    BY <1>6, <1>10, <1>11, <1>12, Assemble

\* What synchronising an environment does to the routes.
LEMMA SyncedRoutes ==
    ASSUME Inv, NEW e \in Env, NEW asked,
           \A k \in DOMAIN asked : asked[k].site \in Site /\ asked[k].enabled \in BOOLEAN
    PROVE  /\ Synced(e, asked) \in [Key -> RouteRow \cup {None}]
           /\ \A k \in Key : k \in DOMAIN asked => Synced(e, asked)[k].env = e
           /\ \A k \in Key \ DOMAIN asked :
                /\ Synced(e, asked)[k] # None /\ Synced(e, asked)[k].enabled =>
                      route[k].env # e /\ Synced(e, asked)[k] = route[k]
                /\ Synced(e, asked)[k] # route[k] => route[k] # None /\ route[k].env = e
  <1> DEFINE r == Synced(e, asked)
  <1>0. \A k \in Key : route[k] \in RouteRow \cup {None}
    BY DEF Inv, TypeInv
  <1>1. \A k \in Key :
          r[k] = IF k \in DOMAIN asked
                   THEN [env |-> e, site |-> asked[k].site, enabled |-> asked[k].enabled \/ route[k] = None]
                 ELSE IF route[k] # None /\ route[k].env = e THEN [route[k] EXCEPT !.enabled = FALSE]
                 ELSE route[k]
    BY DEF Synced
  <1>2. r = [k \in Key |-> r[k]]
    BY DEF Synced
  <1> HIDE DEF r
  <1>3. ASSUME NEW k \in Key, k \in DOMAIN asked PROVE r[k] \in RouteRow /\ r[k].env = e
    <2> DEFINE b == asked[k].enabled \/ route[k] = None
    <2>1. b \in BOOLEAN
      BY Zenon
    <2>2. r[k] = [env |-> e, site |-> asked[k].site, enabled |-> b]
      BY <1>1, <1>3
    <2> HIDE DEF b
    <2> QED
      BY <1>3, <2>1, <2>2 DEF RouteRow
  <1>4. ASSUME NEW k \in Key, k \notin DOMAIN asked, route[k] # None, route[k].env = e
        PROVE  r[k] \in RouteRow /\ r[k].enabled = FALSE
    <2>1. r[k] = [route[k] EXCEPT !.enabled = FALSE] /\ route[k] \in RouteRow
      BY <1>0, <1>1, <1>4
    <2> QED
      BY <2>1 DEF RouteRow
  <1>5. ASSUME NEW k \in Key, k \notin DOMAIN asked, ~(route[k] # None /\ route[k].env = e)
        PROVE  r[k] = route[k]
    BY <1>1, <1>5
  <1>6. r \in [Key -> RouteRow \cup {None}]
    <2>1. \A k \in Key : r[k] \in RouteRow \cup {None}
      BY <1>0, <1>3, <1>4, <1>5
    <2> QED
      BY <1>2, <2>1
  <1> QED
    BY <1>3, <1>4, <1>5, <1>6 DEF r

LEMMA SyncedNone ==
    ASSUME Inv, NEW e \in Env
    PROVE  /\ Synced(e, NoRoutes) \in [Key -> RouteRow \cup {None}]
           /\ \A k \in Key :
                /\ Synced(e, NoRoutes)[k] # None /\ Synced(e, NoRoutes)[k].enabled =>
                      route[k].env # e /\ Synced(e, NoRoutes)[k] = route[k]
                /\ Synced(e, NoRoutes)[k] # route[k] => route[k] # None /\ route[k].env = e
  <1>1. DOMAIN NoRoutes = {}
    BY DEF NoRoutes
  <1> QED
    BY <1>1, SyncedRoutes

LEMMA SyncRoutesInvariant ==
    ASSUME Inv, NEW p \in Console, NEW e \in Env, SyncRoutes(p, e)
    PROVE  Inv'
  <1> DEFINE x == proc[p]
             asked == x.req.routes[e]
  <1>0. /\ x.pc = "routes" /\ StateOK(x) /\ e \in x.left
        /\ e \in DOMAIN x.req.routes /\ x.req \in Save
    BY DEF SyncRoutes, At, Inv, StatesInv, StateOK, SavePC
  <1>a. /\ route' = Synced(e, asked)
        /\ Move(p, [pc |-> "pins", left |-> x.left \ {e}, env |-> e, keys |-> DOMAIN asked])
        /\ pins' = [k \in Key |-> IF k \in DOMAIN asked /\ route[k] = None THEN {} ELSE pins[k]]
        /\ UNCHANGED <<target, ids, stopped, deleted, stranded, spoiled>>
    BY <1>0 DEF SyncRoutes, Asked, ghosts
  <1>1. /\ {"pc", "req", "want", "existing", "left", "valid", "env", "keys"} \subseteq DOMAIN proc'[p]
        /\ proc'[p].pc = "pins" /\ proc'[p].req = x.req /\ proc'[p].existing = x.existing
        /\ proc'[p].left = x.left \ {e} /\ proc'[p].valid = x.valid
    BY <1>0, <1>a, MoveEffect DEF StateOK, SavePC
  <1>2. StateOK(proc'[p])
    BY <1>0, <1>1 DEF StateOK, SavePC, RemovePC, DropPC
  <1>3. /\ route' \in [Key -> RouteRow \cup {None}]
        /\ \A k \in Key : k \in DOMAIN asked => route'[k].env = e
        /\ \A k \in Key \ DOMAIN asked : Enabled(k)' => Enabled(k) /\ route'[k].env = route[k].env
    <2>1. \A k \in DOMAIN asked : asked[k].site \in Site /\ asked[k].enabled \in BOOLEAN
      BY <1>0, SaveAssumption
    <2> HIDE DEF asked
    <2> QED
      BY <1>a, <2>1, SyncedRoutes DEF Enabled
  <1>b. pins' = [k \in Key |-> pins'[k]] /\ \A k \in Key : pins'[k] \subseteq pins[k]
    BY <1>a
  <1>4. Steps(p)
    BY <1>0, <1>a, <1>b, <1>2, <1>3, MoveSteps DEF At, Inv, TypeInv
  <1>5. IdsInv'
    <2>1. \A s \in Slot : \A i : Knows(proc'[p], s, i) => Uses(s, i)
      BY <1>0, <1>1 DEF Knows, Uses, SavePC, RemovePC
    <2> QED
      BY <1>a, <1>4, <2>1, IdsKept DEF Uses
  <1>6. IntentStands'
    BY <1>a DEF Inv, IntentStands, Rows
  <1>7. ASSUME ~spoiled' PROVE Held(p)' /\ DeletedAreGone' /\ RoutesBacked' /\ Apart'
    <2>0. SerialInv /\ Held(p)
      BY <1>4, <1>7, Alone DEF SerialInv
    <2>1. RowsHeld(p)'
      BY <1>0, <1>a, <1>1, <2>0 DEF Held, RowsHeld, Live
    <2>2. DeletedAreGone' /\ Apart'
      BY <1>a, <1>b, <2>0 DEF SerialInv, DeletedAreGone, Apart, Wanted
    <2>3. \E s \in Slot : target'[s] # None /\ s[1] = e
      <3>1. PICK s \in DOMAIN x.req.targets : s[1] = e
        BY <1>0, SaveAssumption
      <3>2. s \in Slot
        BY <1>0, SaveAssumption
      <3>3. target[s] # None
        BY <1>0, <2>0 DEF Held, RowsHeld
      <3> QED
        BY <1>a, <3>1, <3>2, <3>3
    <2>4. RoutesBacked'
      <3> SUFFICES ASSUME NEW k \in Key, Enabled(k)'
                   PROVE  \/ \E s \in Slot : target'[s] # None /\ s[1] = route'[k].env
                          \/ route'[k].env \in stranded'
        BY DEF RoutesBacked
      <3>1. \A o \in Console : ~At(o, "disable")
        BY <1>0, <1>4, <1>7, Alone DEF At
      <3>2. CASE k \in DOMAIN asked
        BY <1>3, <2>3, <3>2
      <3>3. CASE k \notin DOMAIN asked
        BY <1>a, <1>3, <2>0, <3>1, <3>3 DEF SerialInv, RoutesBacked
      <3> QED
        BY <3>2, <3>3
    <2> QED
      BY <1>1, <2>1, <2>2, <2>4 DEF Held, PortsHeld, RoutesHeld
  <1> QED
    BY <1>4, <1>5, <1>6, <1>7, Assemble

LEMMA SyncPinsInvariant ==
    ASSUME Inv, NEW p \in Console, NEW k \in Key, SyncPins(p, k)
    PROVE  Inv'
  <1> DEFINE x == proc[p]
             want == x.want[x.env][k]
  <1>0. /\ x.pc = "pins" /\ StateOK(x)
        /\ want \subseteq {x.valid[s] : s \in {t \in DOMAIN x.valid : t[1] = x.env}}
        /\ pins' = [pins EXCEPT ![k] = want] /\ Move(p, [keys |-> x.keys \ {k}])
        /\ UNCHANGED <<target, route, ids, stopped, deleted, stranded, spoiled>>
    BY DEF SyncPins, At, ghosts, Inv, StatesInv
  <1>1. /\ {"pc", "req", "want", "existing", "left", "valid", "env", "keys"} \subseteq DOMAIN proc'[p]
        /\ proc'[p].pc = "pins" /\ proc'[p].req = x.req /\ proc'[p].existing = x.existing
        /\ proc'[p].left = x.left /\ proc'[p].valid = x.valid
    BY <1>0, MoveEffect DEF StateOK, SavePC
  <1>2. StateOK(proc'[p])
    BY <1>0, <1>1 DEF StateOK, SavePC, RemovePC, DropPC
  <1>3. /\ pins' = [j \in Key |-> pins'[j]] /\ pins'[k] = want
        /\ \A j \in Key \ {k} : pins'[j] = pins[j]
    BY <1>0 DEF Inv, TypeInv
  <1>4. Steps(p)
    BY <1>0, <1>2, <1>3, MoveSteps DEF At, Inv, TypeInv
  <1>5. IdsInv'
    <2>1. \A s \in Slot : \A i : Knows(proc'[p], s, i) => Uses(s, i)
      BY <1>0, <1>1 DEF Knows, Uses, SavePC, RemovePC
    <2> QED
      BY <1>0, <1>4, <2>1, IdsKept DEF Uses
  <1>6. IntentStands'
    BY <1>0 DEF Inv, IntentStands, Rows
  <1>7. ASSUME ~spoiled' PROVE Held(p)' /\ DeletedAreGone' /\ RoutesBacked' /\ Apart'
    <2>0. SerialInv /\ Held(p)
      BY <1>4, <1>7, Alone DEF SerialInv
    <2>1. RowsHeld(p)'
      BY <1>0, <1>1, <2>0 DEF Held, RowsHeld, Live
    <2>2. want \cap deleted = {}
      <3>1. \A s \in DOMAIN x.valid : x.valid[s] \notin deleted
        BY <1>0, <2>0, SMTT(40) DEF Held, RowsHeld, Live, SerialInv, DeletedAreGone
      <3> QED
        BY <1>0, <3>1
    <2>3. DeletedAreGone'
      BY <1>0, <1>3, <2>0, <2>2 DEF SerialInv, DeletedAreGone
    <2>4. Apart'
      BY <1>0, <2>0 DEF SerialInv, Apart, Wanted
    <2>5. RoutesBacked'
      BY <1>0, <1>4, <2>0 DEF SerialInv, RoutesBacked, Enabled, At, Steps
    <2> QED
      BY <1>1, <2>1, <2>3, <2>4, <2>5 DEF Held, PortsHeld, RoutesHeld
  <1> QED
    BY <1>4, <1>5, <1>6, <1>7, Assemble

LEMMA OmitInvariant ==
    ASSUME Inv, NEW p \in Console, NEW s \in Slot, Omit(p, s)
    PROVE  Inv'
  <1> DEFINE x == proc[p]
  <1>0. /\ x.pc = "omitted" /\ StateOK(x) /\ s \in x.left /\ s[1] \in Env
        /\ route' = IF ~EnvStays(p, s[1]) THEN Synced(s[1], NoRoutes) ELSE route
        /\ Move(p, [pc |-> "delete", slot |-> s])
        /\ UNCHANGED <<target, pins, ids, stopped, deleted, stranded, spoiled>>
    BY DEF Omit, DisableFirst, At, ghosts, Inv, StatesInv, Slot
  <1>1. /\ {"pc", "req", "want", "existing", "left", "valid", "slot"} \subseteq DOMAIN proc'[p]
        /\ proc'[p].pc = "delete" /\ proc'[p].req = x.req /\ proc'[p].existing = x.existing
        /\ proc'[p].left = x.left /\ proc'[p].slot = s
    BY <1>0, MoveEffect DEF StateOK, SavePC
  <1>2. StateOK(proc'[p])
    BY <1>0, <1>1 DEF StateOK, SavePC, RemovePC, DropPC
  <1>3. /\ route' \in [Key -> RouteRow \cup {None}]
        /\ \A k \in Key : Enabled(k)' => /\ Enabled(k) /\ route'[k].env = route[k].env
                                         /\ ~EnvStays(p, s[1]) => route[k].env # s[1]
    <2>1. CASE EnvStays(p, s[1])
      BY <1>0, <2>1 DEF Enabled, Inv, TypeInv
    <2>2. CASE ~EnvStays(p, s[1])
      BY <1>0, <2>2, SyncedNone DEF Enabled
    <2> QED
      BY <2>1, <2>2
  <1>4. Steps(p)
    BY <1>0, <1>2, <1>3, MoveSteps DEF At, Inv, TypeInv
  <1>5. IdsInv'
    <2>1. \A t \in Slot : \A i : Knows(proc'[p], t, i) => Uses(t, i)
      BY <1>0, <1>1 DEF Knows, Uses, SavePC, RemovePC
    <2> QED
      BY <1>0, <1>4, <2>1, IdsKept DEF Uses
  <1>6. IntentStands'
    BY <1>0 DEF Inv, IntentStands, Rows
  <1>7. ASSUME ~spoiled' PROVE Held(p)' /\ DeletedAreGone' /\ RoutesBacked' /\ Apart'
    <2>0. SerialInv /\ Held(p)
      BY <1>4, <1>7, Alone DEF SerialInv
    <2>1. RowsHeld(p)'
      BY <1>0, <1>1, <2>0 DEF Held, RowsHeld, Live
    <2>2. DeletedAreGone' /\ Apart'
      BY <1>0, <2>0 DEF SerialInv, DeletedAreGone, Apart, Wanted
    <2>3. RoutesBacked'
      <3> SUFFICES ASSUME NEW k \in Key, Enabled(k)'
                   PROVE  \/ \E t \in Slot : target'[t] # None /\ t[1] = route'[k].env
                          \/ route'[k].env \in stranded'
        BY DEF RoutesBacked
      <3>1. \A o \in Console : ~At(o, "disable")
        BY <1>0, <1>4, <1>7, Alone DEF At
      <3>2. Enabled(k) /\ route'[k].env = route[k].env
        BY <1>3
      <3> QED
        BY <1>0, <2>0, <3>1, <3>2 DEF SerialInv, RoutesBacked
    <2>4. RoutesHeld(p)'
      <3>1. (\A t \in DOMAIN x.req.targets : t[1] # s[1]) => ~EnvStays(p, s[1])
        BY DEF EnvStays
      <3>2. (\A t \in DOMAIN x.req.targets : t[1] # s[1]) =>
              \A k \in Key : Enabled(k)' => route'[k].env # s[1]
        BY <1>3, <3>1
      <3> QED
        BY <1>1, <3>2 DEF RoutesHeld
    <2> QED
      BY <1>1, <2>1, <2>2, <2>3, <2>4 DEF Held, PortsHeld
  <1> QED
    BY <1>4, <1>5, <1>6, <1>7, Assemble

LEMMA DeleteOmittedInvariant ==
    ASSUME Inv, NEW p \in Console, DeleteOmitted(p)
    PROVE  Inv'
  <1> DEFINE x == proc[p]
             s == x.slot
  <1>0. /\ x.pc = "delete" /\ StateOK(x)
        /\ target' = [target EXCEPT ![s] = None]
        /\ Move(p, [pc |-> "omitted", left |-> x.left \ {s}])
        /\ UNCHANGED <<route, pins, ids, stopped, deleted, stranded, spoiled>>
    BY DEF DeleteOmitted, At, ghosts, Inv, StatesInv
  <1>a. s \in x.left /\ s \in Slot /\ s \notin DOMAIN x.req.targets /\ DOMAIN x.req.targets \subseteq Slot
    BY <1>0, SaveAssumption DEF StateOK, SavePC, Of
  <1>1. /\ {"pc", "req", "want", "existing", "left", "valid"} \subseteq DOMAIN proc'[p]
        /\ proc'[p].pc = "omitted" /\ proc'[p].req = x.req /\ proc'[p].existing = x.existing
        /\ proc'[p].left = x.left \ {s}
    BY <1>0, MoveEffect DEF StateOK, SavePC
  <1>2. StateOK(proc'[p])
    BY <1>0, <1>1 DEF StateOK, SavePC, RemovePC, DropPC
  <1>3. /\ target' \in [Slot -> TargetRow \cup {None}] /\ target'[s] = None
        /\ \A t \in Slot \ {s} : target'[t] = target[t]
    BY <1>0, <1>a DEF Inv, TypeInv
  <1>4. Steps(p)
    BY <1>0, <1>2, <1>3, MoveSteps DEF At, Inv, TypeInv
  <1>5. IdsInv'
    <2>1. \A t \in Slot : \A i : Knows(proc'[p], t, i) => Uses(t, i)
      BY <1>0, <1>1 DEF Knows, Uses, SavePC, RemovePC
    <2>2. \A t \in Slot : target'[t] # None => Uses(t, target'[t].id)
      BY <1>3 DEF Uses
    <2> QED
      BY <1>0, <1>4, <2>1, <2>2, IdsKept
  <1>6. IntentStands'
    BY <1>0, <1>3 DEF Inv, IntentStands, Rows
  <1>7. ASSUME ~spoiled' PROVE Held(p)' /\ DeletedAreGone' /\ RoutesBacked' /\ Apart'
    <2>0. SerialInv /\ Held(p)
      BY <1>4, <1>7, Alone DEF SerialInv
    <2>1. RowsHeld(p)'
      BY <1>0, <1>a, <1>1, <1>3, <2>0 DEF Held, RowsHeld, Live
    <2>2. DeletedAreGone'
      BY <1>0, <1>3, <2>0 DEF SerialInv, DeletedAreGone
    <2>3. Apart'
      BY <1>3, <2>0 DEF SerialInv, Apart, Wanted
    <2>4. RoutesBacked'
      <3> SUFFICES ASSUME NEW k \in Key, Enabled(k)
                   PROVE  \/ \E t \in Slot : target'[t] # None /\ t[1] = route[k].env
                          \/ route[k].env \in stranded
        BY <1>0 DEF RoutesBacked, Enabled
      <3>1. \A o \in Console : ~At(o, "disable")
        BY <1>0, <1>4, <1>7, Alone DEF At
      <3>2. CASE route[k].env # s[1]
        BY <1>3, <2>0, <3>1, <3>2 DEF SerialInv, RoutesBacked
      <3>3. CASE route[k].env = s[1]
        <4>1. PICK t \in DOMAIN x.req.targets : t[1] = s[1]
          BY <1>0, <2>0, <3>3 DEF Held, RoutesHeld
        <4>2. t \in Slot /\ t # s /\ target[t] # None
          BY <1>0, <1>a, <2>0 DEF Held, RowsHeld
        <4> QED
          BY <1>3, <3>3, <4>1, <4>2
      <3> QED
        BY <3>2, <3>3
    <2> QED
      BY <1>1, <2>1, <2>2, <2>3, <2>4 DEF Held, PortsHeld, RoutesHeld
  <1> QED
    BY <1>4, <1>5, <1>6, <1>7, Assemble

-----------------------------------------------------------------------------
(***************************************************************************)
(* DeleteInstance and Delete.                                               *)
(***************************************************************************)
LEMMA DeletePinsInvariant ==
    ASSUME Inv, NEW p \in Console, DeletePins(p)
    PROVE  Inv'
  <1> DEFINE x == proc[p]
  <1>0. /\ x.pc = "unpin" /\ StateOK(x)
        /\ pins' = [k \in Key |-> pins[k] \ {x.id}] /\ Move(p, [pc |-> "siblings"])
        /\ UNCHANGED <<target, route, ids, stopped, deleted, stranded, spoiled>>
    BY DEF DeletePins, At, ghosts, Inv, StatesInv
  <1>1. /\ {"pc", "slot", "id"} \subseteq DOMAIN proc'[p]
        /\ proc'[p].pc = "siblings" /\ proc'[p].slot = x.slot /\ proc'[p].id = x.id
    BY <1>0, MoveEffect DEF StateOK, RemovePC
  <1>2. StateOK(proc'[p])
    BY <1>0, <1>1 DEF StateOK, SavePC, RemovePC, DropPC
  <1>3. Steps(p)
    BY <1>0, <1>2, MoveSteps DEF At, Inv, TypeInv
  <1>4. IdsInv'
    <2>1. \A s \in Slot : \A i : Knows(proc'[p], s, i) => Uses(s, i)
      BY <1>0, <1>1 DEF Knows, Uses, SavePC, RemovePC
    <2> QED
      BY <1>0, <1>3, <2>1, IdsKept DEF Uses
  <1>5. IntentStands'
    BY <1>0 DEF Inv, IntentStands, Rows
  <1>6. ASSUME ~spoiled' PROVE Held(p)' /\ DeletedAreGone' /\ RoutesBacked' /\ Apart'
    <2>0. SerialInv /\ Held(p)
      BY <1>3, <1>6, Alone DEF SerialInv
    <2>1. RowsHeld(p)'
      BY <1>0, <1>1, <2>0 DEF Held, RowsHeld, Live
    <2>2. RoutesHeld(p)'
      BY <1>0, <1>1 DEF RoutesHeld
    <2>3. DeletedAreGone'
      BY <1>0, <2>0 DEF SerialInv, DeletedAreGone
    <2>4. Apart'
      BY <1>0, <2>0 DEF SerialInv, Apart, Wanted
    <2>5. RoutesBacked'
      <3>1. \A o \in Console : ~At(o, "disable")
        BY <1>0, <1>3, <1>6, Alone DEF At
      <3> QED
        BY <1>0, <2>0, <3>1 DEF SerialInv, RoutesBacked, Enabled
    <2> QED
      BY <1>1, <2>1, <2>2, <2>3, <2>4, <2>5 DEF Held, PortsHeld
  <1> QED
    BY <1>3, <1>4, <1>5, <1>6, Assemble

LEMMA RemoveInstanceInvariant ==
    ASSUME Inv, NEW p \in Console, RemoveInstance(p)
    PROVE  Inv'
  <1> DEFINE x == proc[p]
             s == x.slot
  <1>0. /\ x.pc = "remove" /\ StateOK(x) /\ s \in Slot /\ x.last \in BOOLEAN
        /\ target' = [target EXCEPT ![s] = None] /\ deleted' = deleted \cup {x.id}
        /\ x.last => Move(p, [pc |-> "disable"])
        /\ ~x.last => proc' = [proc EXCEPT ![p] = Idle]
        /\ UNCHANGED <<route, pins, ids, stopped, stranded, spoiled>>
    BY DEF RemoveInstance, At, Inv, StatesInv, StateOK, RemovePC
  <1>1. /\ proc' = [o \in Console |-> proc'[o]]
        /\ \A o \in Console \ {p} : proc'[o] = proc[o]
        /\ x.last => /\ {"pc", "slot", "id", "last"} \subseteq DOMAIN proc'[p]
                     /\ proc'[p].pc = "disable" /\ proc'[p].slot = s /\ proc'[p].id = x.id
                     /\ proc'[p].last = x.last
        /\ ~x.last => proc'[p].pc = "idle"
    <2>1. CASE x.last
      <3>1. {"pc", "slot", "id", "last"} \subseteq DOMAIN x
        BY <1>0 DEF StateOK, RemovePC
      <3>2. Move(p, [pc |-> "disable"])
        BY <1>0, <2>1
      <3> QED
        BY <2>1, <3>1, <3>2 DEF Move, Inv, TypeInv
    <2>2. CASE ~x.last
      BY <1>0, <2>2 DEF Inv, TypeInv, Idle
    <2> QED
      BY <2>1, <2>2
  <1>2. StateOK(proc'[p])
    BY <1>0, <1>1 DEF StateOK, SavePC, RemovePC, DropPC
  <1>3. /\ target' \in [Slot -> TargetRow \cup {None}] /\ target'[s] = None
        /\ \A t \in Slot \ {s} : target'[t] = target[t]
    BY <1>0 DEF Inv, TypeInv
  <1>4. Steps(p)
    BY <1>0, <1>1, <1>2, <1>3 DEF Steps, At, Inv, TypeInv
  <1>5. IdsInv'
    <2>1. \A t \in Slot : \A i : Knows(proc'[p], t, i) => Uses(t, i)
      BY <1>0, <1>1 DEF Knows, Uses, SavePC, RemovePC
    <2>2. \A t \in Slot : target'[t] # None => Uses(t, target'[t].id)
      BY <1>3 DEF Uses
    <2> QED
      BY <1>0, <1>4, <2>1, <2>2, IdsKept
  <1>6. IntentStands'
    BY <1>0, <1>3 DEF Inv, IntentStands, Rows
  <1>7. ASSUME ~spoiled' PROVE Held(p)' /\ DeletedAreGone' /\ RoutesBacked' /\ Apart'
    <2>0. SerialInv /\ Held(p)
      BY <1>4, <1>7, Alone DEF SerialInv
    <2>1. Held(p)'
      BY <1>1 DEF Held, RowsHeld, PortsHeld, RoutesHeld
    <2>2. DeletedAreGone'
      <3>1. Uses(s, x.id)
        BY <1>0 DEF Uses, Knows, RemovePC
      <3>2. x.id \in 1..ids
        BY <1>0, <3>1 DEF Inv, IdsInv
      <3>3. \A t \in Slot \ {s} : target[t] # None => target[t].id # x.id
        BY <1>0, <3>1 DEF Inv, IdsInv, Uses
      <3>4. \A k \in Key : x.id \notin pins[k]
        BY <1>0, <2>0 DEF Held, RoutesHeld
      <3> QED
        BY <1>0, <1>3, <2>0, <3>2, <3>3, <3>4, ZenonT(40) DEF SerialInv, DeletedAreGone
    <2>3. Apart'
      BY <1>3, <2>0 DEF SerialInv, Apart, Wanted
    <2>4. RoutesBacked'
      <3> SUFFICES ASSUME NEW k \in Key, Enabled(k)
                   PROVE  \/ \E t \in Slot : target'[t] # None /\ t[1] = route[k].env
                          \/ proc'[p].pc = "disable" /\ proc'[p].slot[1] = route[k].env
                          \/ route[k].env \in stranded
        BY <1>0 DEF RoutesBacked, Enabled, At
      <3>1. \A o \in Console : ~At(o, "disable")
        BY <1>0, <1>4, <1>7, Alone DEF At
      <3> SUFFICES ASSUME route[k].env \notin stranded
                   PROVE  \/ \E t \in Slot : target'[t] # None /\ t[1] = route[k].env
                          \/ proc'[p].pc = "disable" /\ proc'[p].slot[1] = route[k].env
        OBVIOUS
      <3>2. PICK t \in Slot : target[t] # None /\ t[1] = route[k].env
        BY <2>0, <3>1 DEF SerialInv, RoutesBacked
      <3>3. CASE t # s
        BY <1>3, <3>2, <3>3
      <3>4. CASE t = s /\ x.last
        BY <1>1, <3>2, <3>4
      <3>5. CASE t = s /\ ~x.last
        BY <1>0, <1>3, <2>0, <3>2, <3>5 DEF Held, RowsHeld
      <3> QED
        BY <3>3, <3>4, <3>5
    <2> QED
      BY <2>1, <2>2, <2>3, <2>4
  <1> QED
    BY <1>4, <1>5, <1>6, <1>7, Assemble

LEMMA DisableRoutesInvariant ==
    ASSUME Inv, NEW p \in Console, DisableRoutes(p)
    PROVE  Inv'
  <1> DEFINE x == proc[p]
             e == x.slot[1]
  <1>0. /\ x.pc = "disable" /\ StateOK(x) /\ e \in Env
        /\ route' = Synced(e, NoRoutes) /\ proc' = [proc EXCEPT ![p] = Idle]
        /\ UNCHANGED <<target, pins, ids, stopped, deleted, stranded, spoiled>>
    BY DEF DisableRoutes, At, ghosts, Inv, StatesInv, StateOK, RemovePC, Slot
  <1>1. /\ proc' = [o \in Console |-> proc'[o]] /\ proc'[p].pc = "idle"
        /\ \A o \in Console \ {p} : proc'[o] = proc[o]
    BY <1>0 DEF Inv, TypeInv, Idle
  <1>2. StateOK(proc'[p])
    BY <1>1 DEF StateOK, SavePC, RemovePC, DropPC
  <1>3. /\ route' \in [Key -> RouteRow \cup {None}]
        /\ \A k \in Key : Enabled(k)' => Enabled(k) /\ route'[k].env = route[k].env /\ route[k].env # e
    BY <1>0, SyncedNone DEF Enabled
  <1>4. Steps(p)
    BY <1>0, <1>1, <1>2, <1>3 DEF Steps, At, Inv, TypeInv
  <1>5. IdsInv'
    <2>1. \A t \in Slot : \A i : ~Knows(proc'[p], t, i)
      BY <1>1 DEF Knows, SavePC, RemovePC
    <2> QED
      BY <1>0, <1>4, <2>1, IdsKept DEF Uses
  <1>6. IntentStands'
    BY <1>0 DEF Inv, IntentStands, Rows
  <1>7. ASSUME ~spoiled' PROVE Held(p)' /\ DeletedAreGone' /\ RoutesBacked' /\ Apart'
    <2>0. SerialInv
      BY <1>4, <1>7, Alone DEF SerialInv
    <2>1. Held(p)'
      BY <1>1 DEF Held, RowsHeld, PortsHeld, RoutesHeld
    <2>2. DeletedAreGone' /\ Apart'
      BY <1>0, <2>0 DEF SerialInv, DeletedAreGone, Apart, Wanted
    <2>3. RoutesBacked'
      <3> SUFFICES ASSUME NEW k \in Key, Enabled(k)'
                   PROVE  \/ \E t \in Slot : target'[t] # None /\ t[1] = route'[k].env
                          \/ route'[k].env \in stranded'
        BY DEF RoutesBacked
      <3>1. \A o \in Console \ {p} : ~At(o, "disable")
        BY <1>4, <1>7, Alone DEF At
      <3>2. Enabled(k) /\ route'[k].env = route[k].env /\ route[k].env # e
        BY <1>3
      <3> QED
        BY <1>0, <2>0, <3>1, <3>2 DEF SerialInv, RoutesBacked
    <2> QED
      BY <2>1, <2>2, <2>3
  <1> QED
    BY <1>4, <1>5, <1>6, <1>7, Assemble

LEMMA DeleteRoutesInvariant ==
    ASSUME Inv, NEW p \in Console, DeleteRoutes(p)
    PROVE  Inv'
  <1> DEFINE x == proc[p]
             gone == {k \in Key : route[k] # None /\ AppOf[route[k].env] = x.app}
  <1>0. /\ x.pc = "drop routes" /\ StateOK(x)
        /\ route' = [k \in Key |-> IF k \in gone THEN None ELSE route[k]]
        /\ Move(p, [pc |-> "drop targets"])
        /\ UNCHANGED <<target, pins, ids, stopped, deleted, stranded, spoiled>>
    BY DEF DeleteRoutes, At, ghosts, Inv, StatesInv
  <1>1. /\ {"pc", "app"} \subseteq DOMAIN proc'[p]
        /\ proc'[p].pc = "drop targets" /\ proc'[p].app = x.app
    <2>1. {"pc", "app"} \subseteq DOMAIN x
      BY <1>0 DEF StateOK, DropPC
    <2> QED
      BY <1>0, <2>1 DEF Move, Inv, TypeInv
  <1>2. StateOK(proc'[p])
    BY <1>1 DEF StateOK, SavePC, RemovePC, DropPC
  <1>3. /\ route' \in [Key -> RouteRow \cup {None}]
        /\ \A k \in Key : route'[k] # None => route'[k] = route[k] /\ AppOf[route[k].env] # x.app
    BY <1>0 DEF Inv, TypeInv
  <1>4. Steps(p)
    BY <1>0, <1>2, <1>3, MoveSteps DEF At, Inv, TypeInv
  <1>5. IdsInv'
    <2>1. \A t \in Slot : \A i : ~Knows(proc'[p], t, i)
      BY <1>1 DEF Knows, SavePC, RemovePC
    <2> QED
      BY <1>0, <1>4, <2>1, IdsKept DEF Uses
  <1>6. IntentStands'
    BY <1>0 DEF Inv, IntentStands, Rows
  <1>7. ASSUME ~spoiled' PROVE Held(p)' /\ DeletedAreGone' /\ RoutesBacked' /\ Apart'
    <2>0. SerialInv
      BY <1>4, <1>7, Alone DEF SerialInv
    <2>1. Held(p)'
      BY <1>1, <1>3 DEF Held, RowsHeld, PortsHeld, RoutesHeld
    <2>2. DeletedAreGone'
      BY <1>0, <2>0 DEF SerialInv, DeletedAreGone
    <2>3. Apart'
      BY <1>0, <2>0 DEF SerialInv, Apart, Wanted
    <2>4. RoutesBacked'
      <3>1. \A o \in Console : ~At(o, "disable")
        BY <1>0, <1>4, <1>7, Alone DEF At
      <3> QED
        BY <1>0, <1>3, <2>0, <3>1 DEF SerialInv, RoutesBacked, Enabled
    <2> QED
      BY <2>1, <2>2, <2>3, <2>4
  <1> QED
    BY <1>4, <1>5, <1>6, <1>7, Assemble

LEMMA DeleteTargetsInvariant ==
    ASSUME Inv, NEW p \in Console, DeleteTargets(p)
    PROVE  Inv'
  <1> DEFINE x == proc[p]
  <1>0. /\ x.pc = "drop targets" /\ StateOK(x)
        /\ target' = [s \in Slot |-> IF s \in Of(x.app) THEN None ELSE target[s]]
        /\ Move(p, [pc |-> "drop app"])
        /\ UNCHANGED <<route, pins, ids, stopped, deleted, stranded, spoiled>>
    BY DEF DeleteTargets, At, ghosts, Inv, StatesInv
  <1>1. {"pc", "app"} \subseteq DOMAIN proc'[p] /\ proc'[p].pc = "drop app"
    <2>1. {"pc", "app"} \subseteq DOMAIN x
      BY <1>0 DEF StateOK, DropPC
    <2> QED
      BY <1>0, <2>1 DEF Move, Inv, TypeInv
  <1>2. StateOK(proc'[p])
    BY <1>1 DEF StateOK, SavePC, RemovePC, DropPC
  <1>3. /\ target' \in [Slot -> TargetRow \cup {None}]
        /\ \A s \in Slot : target'[s] # None => target'[s] = target[s]
        /\ \A s \in Slot : AppOf[s[1]] # x.app => target'[s] = target[s]
    BY <1>0 DEF Inv, TypeInv, Of
  <1>4. Steps(p)
    BY <1>0, <1>2, <1>3, MoveSteps DEF At, Inv, TypeInv
  <1>5. IdsInv'
    <2>1. \A t \in Slot : \A i : ~Knows(proc'[p], t, i)
      BY <1>1 DEF Knows, SavePC, RemovePC
    <2>2. \A t \in Slot : target'[t] # None => Uses(t, target'[t].id)
      BY <1>3 DEF Uses
    <2> QED
      BY <1>0, <1>4, <2>1, <2>2, IdsKept
  <1>6. IntentStands'
    BY <1>0, <1>3 DEF Inv, IntentStands, Rows
  <1>7. ASSUME ~spoiled' PROVE Held(p)' /\ DeletedAreGone' /\ RoutesBacked' /\ Apart'
    <2>0. SerialInv /\ Held(p)
      BY <1>4, <1>7, Alone DEF SerialInv
    <2>1. Held(p)'
      BY <1>1 DEF Held, RowsHeld, PortsHeld, RoutesHeld
    <2>2. DeletedAreGone'
      BY <1>0, <1>3, <2>0 DEF SerialInv, DeletedAreGone
    <2>3. Apart'
      BY <1>3, <2>0 DEF SerialInv, Apart, Wanted
    <2>4. RoutesBacked'
      <3> SUFFICES ASSUME NEW k \in Key, Enabled(k)
                   PROVE  \/ \E t \in Slot : target'[t] # None /\ t[1] = route[k].env
                          \/ route[k].env \in stranded
        BY <1>0 DEF RoutesBacked, Enabled
      <3>1. \A o \in Console : ~At(o, "disable")
        BY <1>0, <1>4, <1>7, Alone DEF At
      <3>2. AppOf[route[k].env] # x.app
        BY <1>0, <2>0 DEF Held, RoutesHeld, Enabled
      <3> QED
        BY <1>3, <2>0, <3>1, <3>2 DEF SerialInv, RoutesBacked
    <2> QED
      BY <2>1, <2>2, <2>3, <2>4
  <1> QED
    BY <1>4, <1>5, <1>6, <1>7, Assemble

\* The operator's decommission, or a deploy.
LEMMA DesiredStateInvariant ==
    ASSUME Inv, NEW s \in Slot, NEW state \in {"running", "stopped"}, SetInstanceDesiredState(s, state)
    PROVE  Inv'
  <1>0. /\ target[s] # None /\ target' = [target EXCEPT ![s].desired = state]
        /\ stopped' = IF state = "stopped" THEN stopped \cup {target[s].id} ELSE stopped \ {target[s].id}
        /\ UNCHANGED <<route, pins, proc, ids, deleted, stranded, spoiled>>
    BY DEF SetInstanceDesiredState
  <1>1. /\ target' \in [Slot -> TargetRow \cup {None}]
        /\ target'[s] # None /\ target'[s].desired = state
        /\ target'[s].id = target[s].id /\ target'[s].port = target[s].port
        /\ target'[s].enabled = target[s].enabled /\ target'[s].asked = target[s].asked
        /\ \A t \in Slot \ {s} : target'[t] = target[t]
    <2>1. target[s] \in TargetRow
      BY <1>0 DEF Inv, TypeInv
    <2>2. [target[s] EXCEPT !.desired = state] \in TargetRow
      BY <2>1 DEF TargetRow
    <2>3. /\ target'[s] = [target[s] EXCEPT !.desired = state]
          /\ \A t \in Slot \ {s} : target'[t] = target[t]
          /\ target' = [t \in Slot |-> target'[t]]
      BY <1>0 DEF Inv, TypeInv
    <2>4. target' \in [Slot -> TargetRow \cup {None}]
      BY <2>2, <2>3 DEF Inv, TypeInv
    <2> QED
      BY <2>1, <2>2, <2>3, <2>4, SaveAssumption DEF TargetRow
  <1>2. \A t \in Slot : /\ target'[t] # None <=> target[t] # None
                        /\ target'[t].id = target[t].id /\ target'[t].port = target[t].port
                        /\ target'[t].enabled = target[t].enabled /\ target'[t].asked = target[t].asked
    BY <1>0, <1>1
  <1>3. TypeInv' /\ StatesInv'
    BY <1>0, <1>1 DEF Inv, TypeInv, StatesInv
  <1>4. IdsInv'
    <2>1. \A t \in Slot : \A i : Uses(t, i)' <=> Uses(t, i)
      BY <1>0, <1>2 DEF Uses
    <2> QED
      BY <1>0, <2>1 DEF Inv, IdsInv
  <1>5. IntentStands'
    <2> SUFFICES ASSUME NEW t \in Slot, target'[t] # None
                 PROVE  target'[t].desired = "stopped" <=> target'[t].id \in stopped'
      BY DEF IntentStands, Rows
    <2>1. CASE t = s
      BY <1>0, <1>1, <2>1
    <2>2. CASE t # s
      <3>1. target[t].id # target[s].id
        BY <1>0, <1>2, <2>2 DEF Inv, IdsInv, Uses
      <3> QED
        BY <1>0, <1>1, <2>2, <3>1 DEF Inv, IntentStands, Rows
    <2> QED
      BY <2>1, <2>2
  <1>6. ASSUME ~spoiled' PROVE SerialInv'
    <2>0. SerialInv
      BY <1>0, <1>6 DEF Inv
    <2>1. OneAtATime'
      BY <1>0, <2>0 DEF SerialInv, OneAtATime, At
    <2>2. \A t \in Slot : Wanted(t)' => Wanted(t)
      BY <1>2 DEF Wanted
    <2>3. ASSUME NEW p \in Console PROVE Held(p)'
      <3>1. Held(p)
        BY <2>0 DEF SerialInv
      <3>2. \A t : \A i : Live(t, i) => Live(t, i)'
        BY <1>2 DEF Live
      <3>3. proc[p].pc \in SavePC => DOMAIN proc[p].req.targets \subseteq Slot
        BY SaveAssumption DEF Inv, StatesInv, StateOK
      <3>4. RowsHeld(p)'
        BY <1>0, <1>2, <3>1, <3>2, <3>3 DEF Held, RowsHeld, SavePC
      <3>5. PortsHeld(p)'
        BY <1>0, <1>2, <2>2, <3>1 DEF Held, PortsHeld
      <3>6. RoutesHeld(p)'
        BY <1>0, <3>1 DEF Held, RoutesHeld, Enabled
      <3> QED
        BY <3>4, <3>5, <3>6 DEF Held
    <2>4. DeletedAreGone'
      BY <1>0, <1>2, <2>0 DEF SerialInv, DeletedAreGone
    <2>5. RoutesBacked'
      BY <1>0, <1>2, <2>0 DEF SerialInv, RoutesBacked, Enabled, At
    <2>6. Apart'
      BY <1>2, <2>0, <2>2 DEF SerialInv, Apart
    <2> QED
      BY <2>1, <2>3, <2>4, <2>5, <2>6 DEF SerialInv
  <1> QED
    BY <1>3, <1>4, <1>5, <1>6 DEF Inv

-----------------------------------------------------------------------------
LEMMA InitInv == Init => Inv
  <1> SUFFICES ASSUME Init PROVE Inv
    OBVIOUS
  <1>1. \A p \in Console : proc[p].pc = "idle"
    BY DEF Init, Idle
  <1>2. TypeInv
    BY DEF Init, TypeInv
  <1>3. StatesInv
    BY <1>1 DEF StatesInv, StateOK, SavePC, RemovePC, DropPC
  <1>4. \A s \in Slot : target[s] = None
    BY DEF Init
  <1>5. IdsInv /\ IntentStands
    BY <1>1, <1>4 DEF IdsInv, Uses, Knows, SavePC, RemovePC, IntentStands, Rows
  <1>6. SerialInv
    <2>1. OneAtATime /\ \A p \in Console : Held(p)
      BY <1>1 DEF OneAtATime, At, Held, RowsHeld, PortsHeld, RoutesHeld
    <2>2. DeletedAreGone
      BY DEF Init, DeletedAreGone
    <2>3. RoutesBacked /\ Apart
      BY <1>4 DEF Init, RoutesBacked, Apart, Enabled, Wanted
    <2> QED
      BY <2>1, <2>2, <2>3 DEF SerialInv
  <1> QED
    BY <1>2, <1>3, <1>5, <1>6 DEF Inv

LEMMA Inductive == Inv /\ [Next]_vars => Inv'
  <1> SUFFICES ASSUME Inv, [Next]_vars PROVE Inv'
    OBVIOUS
  <1>1. CASE UNCHANGED vars
    <2>1. UNCHANGED <<target, route, pins, proc, ids, stopped, deleted, stranded, spoiled>>
      BY <1>1 DEF vars, ghosts
    <2>2. TypeInv' /\ StatesInv' /\ IdsInv' /\ IntentStands'
      BY <2>1 DEF Inv, TypeInv, StatesInv, IdsInv, Uses, IntentStands, Rows
    <2>3. ASSUME ~spoiled' PROVE SerialInv'
      <3>1. SerialInv
        BY <2>1, <2>3 DEF Inv
      <3>2. OneAtATime' /\ DeletedAreGone' /\ RoutesBacked' /\ Apart'
        BY <2>1, <3>1 DEF SerialInv, OneAtATime, DeletedAreGone, RoutesBacked, Apart, At, Enabled, Wanted
      <3>3. ASSUME NEW p \in Console PROVE Held(p)'
        <4>1. RowsHeld(p)'
          BY <2>1, <3>1 DEF SerialInv, Held, RowsHeld, Live
        <4>2. PortsHeld(p)'
          BY <2>1, <3>1 DEF SerialInv, Held, PortsHeld, Wanted
        <4>3. RoutesHeld(p)'
          BY <2>1, <3>1 DEF SerialInv, Held, RoutesHeld, Enabled
        <4> QED
          BY <4>1, <4>2, <4>3 DEF Held
      <3> QED
        BY <3>2, <3>3 DEF SerialInv
    <2> QED
      BY <2>2, <2>3 DEF Inv
  <1>2. ASSUME NEW p \in Console,
               \/ \E q \in Save : StartSave(p, q)
               \/ \E s \in Slot : DeleteInstance(p, s)
               \/ \E app \in App : Delete(p, app)
               \/ Check(p) \/ Validated(p) \/ TargetsWritten(p) \/ PinsWritten(p) \/ RoutesWritten(p) \/ Saved(p)
               \/ \E s \in Slot : Upsert(p, s) \/ Omit(p, s)
        PROVE  Inv'
    BY <1>2, StartSaveInvariant, DeleteInstanceInvariant, DeleteInvariant, CheckInvariant, ValidatedInvariant,
       TargetsWrittenInvariant, PinsWrittenInvariant, RoutesWrittenInvariant, SavedInvariant,
       UpsertInvariant, OmitInvariant
  <1>3. ASSUME NEW p \in Console,
               \/ \E e \in Env : SyncRoutes(p, e)
               \/ \E k \in Key : SyncPins(p, k)
               \/ DeleteOmitted(p)
               \/ DeletePins(p) \/ ListSiblings(p) \/ RemoveInstance(p) \/ DisableRoutes(p)
               \/ DeleteRoutes(p) \/ DeleteTargets(p) \/ DeleteApp(p)
               \/ Fails(p)
        PROVE  Inv'
    BY <1>3, SyncRoutesInvariant, SyncPinsInvariant, DeleteOmittedInvariant, DeletePinsInvariant,
       ListSiblingsInvariant, RemoveInstanceInvariant, DisableRoutesInvariant, DeleteRoutesInvariant,
       DeleteTargetsInvariant, DeleteAppInvariant, FailsInvariant
  <1> QED
    BY <1>1, <1>2, <1>3, DesiredStateInvariant DEF Next

LEMMA Invariance == Spec => []Inv
  BY InitInv, Inductive, PTL DEF Spec

\* Whatever saves overlap it, a decommission stands until the row is deleted:
\* no write of syncTargets takes an instance's desired state back.
THEOREM IntentsStand == Spec => []IntentStands
  <1>1. Inv => IntentStands
    BY DEF Inv
  <1> QED
    BY <1>1, Invariance, PTL

\* Of saves that do not overlap, no two enabled instances share a port, also
\* while a save is half-way through its rows or was cut there (validateTarget).
THEOREM PortsAreUnique == Spec => []PortsUnique
  <1>1. Inv => PortsUnique
    BY DEF Inv, SerialInv, Apart, Wanted, PortsUnique, Rows
  <1> QED
    BY <1>1, Invariance, PTL

\* Of saves and deletions that do not overlap, an enabled route has an instance in
\* its environment, at every statement of a save and wherever it is cut; but after
\* DeleteInstance has removed the last one, until it disables the routes or, if it
\* is cut just there, until the environment has an instance again.
THEOREM RoutesHaveInstances == Spec => []RoutesNeedInstances
  <1>1. Inv => RoutesNeedInstances
    BY DEF Inv, SerialInv, RoutesBacked, Enabled, RoutesNeedInstances, Rows
  <1> QED
    BY <1>1, Invariance, PTL

\* Of requests that do not overlap, no route keeps a pin to an instance that
\* DeleteInstance has removed.
THEOREM DeletedAreUnpinned == Spec => []DeletedIsUnpinned
  <1>1. Inv => DeletedIsUnpinned
    BY DEF Inv, SerialInv, DeletedAreGone, DeletedIsUnpinned
  <1> QED
    BY <1>1, Invariance, PTL

-----------------------------------------------------------------------------
(***************************************************************************)
(* The routes of other environments, also when requests overlap.            *)
(***************************************************************************)
Untouched ==
    \A k \in Key : route[k] # None /\ route'[k] # route[k] =>
        \E p \in Console : proc'[p] # proc[p] /\ Covers(proc[p], route[k].env)

LEMMA SyncRoutesCovered ==
    ASSUME Inv, NEW p \in Console, NEW e \in Env, SyncRoutes(p, e)
    PROVE  Untouched
  <1> DEFINE x == proc[p]
             asked == x.req.routes[e]
  <1>0. /\ x.pc = "routes" /\ "req" \in DOMAIN x /\ e \in DOMAIN x.req.routes /\ x.req \in Save
    BY DEF SyncRoutes, At, Inv, StatesInv, StateOK, SavePC
  <1>a. /\ route' = Synced(e, asked) /\ Unique(Synced(e, asked), e, asked)
        /\ Move(p, [pc |-> "pins", left |-> x.left \ {e}, env |-> e, keys |-> DOMAIN asked])
    BY <1>0 DEF SyncRoutes, Asked
  <1>1. proc'[p] # proc[p]
    BY <1>0, <1>a, MoveEffect
  <1>2. Covers(x, e)
    BY <1>0 DEF Covers
  <1>3. \A k \in DOMAIN asked : asked[k].site \in Site /\ asked[k].enabled \in BOOLEAN
    BY <1>0, SaveAssumption
  <1> HIDE DEF x, asked
  <1>4. ASSUME NEW k \in Key, route[k] # None, route'[k] # route[k] PROVE route[k].env = e
    <2>1. CASE k \in DOMAIN asked
      BY <1>a, <1>4, <2>1 DEF Unique
    <2>2. CASE k \notin DOMAIN asked
      BY <1>a, <1>3, <1>4, <2>2, SyncedRoutes
    <2> QED
      BY <2>1, <2>2
  <1> QED
    BY <1>1, <1>2, <1>4 DEF Untouched, x

LEMMA OmitCovered ==
    ASSUME Inv, NEW p \in Console, NEW s \in Slot, Omit(p, s)
    PROVE  Untouched
  <1> DEFINE x == proc[p]
  <1>0. /\ x.pc = "omitted" /\ StateOK(x) /\ s \in x.left /\ s[1] \in Env
        /\ route' = IF ~EnvStays(p, s[1]) THEN Synced(s[1], NoRoutes) ELSE route
        /\ Move(p, [pc |-> "delete", slot |-> s])
    BY DEF Omit, DisableFirst, At, Inv, StatesInv, Slot
  <1>1. proc'[p] # proc[p]
    BY <1>0, MoveEffect
  <1>2. "req" \in DOMAIN x /\ AppOf[s[1]] = x.req.app
    BY <1>0 DEF StateOK, SavePC, Of
  <1>3. ~EnvStays(p, s[1]) => Covers(x, s[1])
    BY <1>2 DEF Covers, EnvStays
  <1>4. ASSUME NEW k \in Key, route[k] # None, route'[k] # route[k]
        PROVE  route[k].env = s[1] /\ ~EnvStays(p, s[1])
    BY <1>0, <1>4, SyncedNone
  <1> QED
    BY <1>1, <1>3, <1>4 DEF Untouched

LEMMA DisableRoutesCovered ==
    ASSUME Inv, NEW p \in Console, DisableRoutes(p)
    PROVE  Untouched
  <1> DEFINE x == proc[p]
             e == x.slot[1]
  <1>0. /\ x.pc = "disable" /\ StateOK(x) /\ e \in Env
        /\ route' = Synced(e, NoRoutes) /\ proc' = [proc EXCEPT ![p] = Idle]
    BY DEF DisableRoutes, At, Inv, StatesInv, StateOK, RemovePC, Slot
  <1>1. proc'[p] # proc[p]
    BY <1>0 DEF Inv, TypeInv, Idle
  <1>2. Covers(x, e)
    BY <1>0 DEF StateOK, Covers
  <1>3. \A k \in Key : route[k] # None /\ route'[k] # route[k] => route[k].env = e
    BY <1>0, SyncedNone
  <1> QED
    BY <1>1, <1>2, <1>3 DEF Untouched

LEMMA DeleteRoutesCovered ==
    ASSUME Inv, NEW p \in Console, DeleteRoutes(p)
    PROVE  Untouched
  <1> DEFINE x == proc[p]
  <1>0. x.pc = "drop routes" /\ StateOK(x) /\ Move(p, [pc |-> "drop targets"])
    BY DEF DeleteRoutes, At, Inv, StatesInv
  <1>1. proc'[p] # proc[p]
    <2>1. proc'[p].pc = "drop targets"
      BY <1>0 DEF Move, Inv, TypeInv
    <2> QED
      BY <1>0, <2>1
  <1>2. "app" \in DOMAIN x
    BY <1>0 DEF StateOK, DropPC
  <1>3. \A k \in Key : route[k] # None /\ route'[k] # route[k] => AppOf[route[k].env] = x.app
    BY DEF DeleteRoutes
  <1>4. \A k \in Key : route[k] # None /\ route'[k] # route[k] => Covers(x, route[k].env)
    BY <1>2, <1>3 DEF Covers
  <1> QED
    BY <1>1, <1>4 DEF Untouched

\* Whatever requests overlap, only a request that names a route's environment,
\* leaves it out or empties it changes a stored route (syncTargets,
\* DeleteInstance, Delete).
THEOREM OtherRoutesStay == Spec => OtherRoutesUntouched
  <1>1. ASSUME Inv, [Next]_vars PROVE [Untouched]_vars
    <2>1. ASSUME UNCHANGED route PROVE Untouched
      BY <2>1 DEF Untouched
    <2>2. ASSUME NEW p \in Console,
                 \/ \E q \in Save : StartSave(p, q)
                 \/ \E s \in Slot : DeleteInstance(p, s) \/ Upsert(p, s)
                 \/ \E app \in App : Delete(p, app)
                 \/ Check(p) \/ Validated(p) \/ TargetsWritten(p) \/ PinsWritten(p) \/ RoutesWritten(p) \/ Saved(p)
          PROVE  UNCHANGED route
      BY <2>2 DEF StartSave, DeleteInstance, Delete, Check, Validated, TargetsWritten, PinsWritten,
         RoutesWritten, Saved, Upsert
    <2>3. ASSUME NEW p \in Console,
                 \/ \E k \in Key : SyncPins(p, k)
                 \/ DeleteOmitted(p) \/ DeletePins(p) \/ ListSiblings(p) \/ RemoveInstance(p)
                 \/ DeleteTargets(p) \/ DeleteApp(p) \/ Fails(p)
          PROVE  UNCHANGED route
      BY <2>3 DEF SyncPins, DeleteOmitted, DeletePins, ListSiblings, RemoveInstance, DeleteTargets,
         DeleteApp, Fails
    <2>4. ASSUME NEW s \in Slot, NEW state \in {"running", "stopped"}, SetInstanceDesiredState(s, state)
          PROVE  UNCHANGED route
      BY <2>4 DEF SetInstanceDesiredState
    <2>5. ASSUME UNCHANGED vars PROVE UNCHANGED route
      BY <2>5 DEF vars
    <2> QED
      BY <1>1, <2>1, <2>2, <2>3, <2>4, <2>5, SyncRoutesCovered, OmitCovered, DisableRoutesCovered,
         DeleteRoutesCovered DEF Next
  <1>2. Inv /\ [Next]_vars => [\A k \in Key : route[k] # None /\ route'[k] # route[k] =>
            \E p \in Console : proc'[p] # proc[p] /\ Covers(proc[p], route[k].env)]_vars
    BY <1>1 DEF Untouched
  <1> QED
    BY <1>2, Invariance, PTL DEF Spec, OtherRoutesUntouched
=============================================================================
