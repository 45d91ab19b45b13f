--------------------------- MODULE WsTunnelsProofs ---------------------------
(***************************************************************************)
(* The registry's accounting is exact for any number of requests, routes     *)
(* and addresses, its limits hold, and a decommission that found no tunnel   *)
(* cuts none. The counters and the slots are changed by one action each, so  *)
(* most steps leave the holders alone (SameHolders); a reservation and a     *)
(* release change every count by one (Reserved, Released).                   *)
(***************************************************************************)
EXTENDS WsTunnels, FiniteSetTheorems, TLAPS

SlotState == {"none", "matched", "allowed", "reserved", "attached", "released"}
Stage     == {"none", "wait", "quiet", "gave up", "down"}

Types ==
    /\ key \in [Conn -> Key \cup {None}]
    /\ slot \in [Proc -> [Conn -> SlotState]]
    /\ byRoute \in [Route -> Int] /\ byKey \in [Key -> Int] /\ byIP \in [Client -> Int]
    /\ tokens \in Nat /\ ticks \in Nat /\ passed \in Nat
    /\ teardown \in [stage: Stage, polled: SUBSET Route, active: Int, held: SUBSET Conn]

\* A request with a slot, or on the way to one, has matched a route.
MatchedHasKey == \A c \in Conn : slot["gateway"][c] # "none" => key[c] \in Key

\* The bucket: what it holds and what it gave never exceed what went in.
Bucket == tokens <= Burst /\ passed * Cost + tokens <= Burst + ticks * Rate

Limits ==
    LET held == Holding("gateway")
    IN  /\ MaxTotal # 0 => Cardinality(held) <= MaxTotal
        /\ MaxPerRoute # 0 => \A r \in Route : byRoute[r] <= MaxPerRoute
        /\ MaxPerIP # 0 => \A i \in Client : byIP[i] <= MaxPerIP

\* A round that has counted nothing has seen no holder.
RoundSawNothing ==
    /\ teardown.active \in Nat
    /\ teardown.stage \in {"wait", "quiet"} /\ teardown.active = 0 => teardown.held = {}
    /\ teardown.stage = "quiet" => teardown.active = 0

Inv == Types /\ MatchedHasKey /\ SlotsAccounted /\ Limits /\ RoundSawNothing /\ Bucket
-----------------------------------------------------------------------------
LEMMA HoldersFinite ==
    ASSUME NEW S, S \subseteq Conn
    PROVE  IsFiniteSet(S) /\ Cardinality(S) \in Nat
  BY TunnelsAssumption, FS_Subset, FS_CardinalityType

LEMMA KeyParts ==
    ASSUME NEW k \in Key
    PROVE  k[1] \in Route /\ k[2] \in Instance
  BY DEF Key

\* What setting one slot does.
LEMMA SetSlot ==
    ASSUME Types, NEW p \in Proc, NEW c \in Conn, NEW v \in SlotState,
           slot' = [slot EXCEPT ![p][c] = v]
    PROVE  /\ slot' \in [Proc -> [Conn -> SlotState]]
           /\ slot'[p][c] = v
           /\ \A q \in Proc, d \in Conn : q # p \/ d # c => slot'[q][d] = slot[q][d]
  BY DEF Types

\* The gateway's holders, and what they hold, are as before.
SameHolders ==
    /\ Holding("gateway")' = Holding("gateway")
    /\ \A c \in Holding("gateway") : key'[c] = key[c]
    /\ UNCHANGED <<byRoute, byKey, byIP>>

LEMMA SameHoldersAccounted ==
    ASSUME SlotsAccounted, Limits, SameHolders
    PROVE  SlotsAccounted' /\ Limits'
  <1>1. /\ \A r : {c \in Holding("gateway") : key'[c][1] = r} = {c \in Holding("gateway") : key[c][1] = r}
        /\ \A k : {c \in Holding("gateway") : key'[c] = k} = {c \in Holding("gateway") : key[c] = k}
    BY DEF SameHolders
  <1>2. SlotsAccounted'
    BY <1>1 DEF SlotsAccounted, SameHolders
  <1>3. Limits'
    BY DEF Limits, SameHolders
  <1> QED
    BY <1>2, <1>3

\* Setting a slot of the node, or one of the gateway that is held neither before
\* nor after, or both.
LEMMA SetSlotKeepsHolders ==
    ASSUME Types, NEW p \in Proc, NEW c \in Conn, NEW v \in SlotState,
           slot' = [slot EXCEPT ![p][c] = v],
           \/ p = "node"
           \/ slot["gateway"][c] \notin {"reserved", "attached"} /\ v \notin {"reserved", "attached"}
           \/ slot["gateway"][c] \in {"reserved", "attached"} /\ v \in {"reserved", "attached"}
    PROVE  Holding("gateway")' = Holding("gateway")
  <1>1. \A d \in Conn : slot'["gateway"][d] \in {"reserved", "attached"}
                          <=> slot["gateway"][d] \in {"reserved", "attached"}
    BY SetSlot DEF Proc
  <1> QED
    BY <1>1 DEF Holding

\* The sets that are counted, before and after a request joins or leaves them.
LEMMA OneMore ==
    ASSUME NEW A, NEW B, A \subseteq Conn, NEW c \in Conn, c \notin A, B = A \cup {c}
    PROVE  Cardinality(B) = Cardinality(A) + 1
  BY HoldersFinite, FS_AddElement

LEMMA OneLess ==
    ASSUME NEW A, NEW B, A \subseteq Conn, NEW c \in A, B = A \ {c}
    PROVE  Cardinality(B) = Cardinality(A) - 1
  BY HoldersFinite, FS_RemoveElement
-----------------------------------------------------------------------------
LEMMA ReservedAccounted ==
    ASSUME Types, MatchedHasKey, SlotsAccounted, Limits, key' = key, NEW c \in Conn,
           c \notin Holding("gateway"), key[c] \in Key,
           Holding("gateway")' = Holding("gateway") \cup {c},
           WithinLimits(c),
           byRoute' = [byRoute EXCEPT ![key[c][1]] = @ + 1],
           byKey' = [byKey EXCEPT ![key[c]] = @ + 1],
           byIP' = [byIP EXCEPT ![IP[c]] = @ + 1]
    PROVE  SlotsAccounted' /\ Limits'
  <1> DEFINE H == Holding("gateway")
             G == Holding("gateway")'
  <1>1. H \subseteq Conn /\ G = H \cup {c} /\ c \notin H /\ G \subseteq Conn
    BY DEF Holding
  <1>2. key[c][1] \in Route /\ IP[c] \in Client
    BY KeyParts DEF Client
  <1>3. /\ \A r \in Route : byRoute[r] = Cardinality({d \in H : key[d][1] = r})
        /\ \A k \in Key : byKey[k] = Cardinality({d \in H : key[d] = k})
        /\ \A i \in Client : byIP[i] = Cardinality({d \in H : IP[d] = i})
    BY DEF SlotsAccounted
  <1>4. Cardinality(G) = Cardinality(H) + 1 /\ Cardinality(H) \in Nat
    BY <1>1, OneMore, HoldersFinite
  <1> HIDE DEF H, G
  <1>5. ASSUME NEW r \in Route PROVE byRoute'[r] = Cardinality({d \in G : key[d][1] = r})
    <2>1. CASE key[c][1] = r
      <3>1. {d \in G : key[d][1] = r} = {d \in H : key[d][1] = r} \cup {c}
        BY <1>1, <2>1
      <3>2. Cardinality({d \in G : key[d][1] = r}) = Cardinality({d \in H : key[d][1] = r}) + 1
        BY <1>1, <3>1, OneMore
      <3> QED
        BY <1>2, <1>3, <2>1, <3>2 DEF Types
    <2>2. CASE key[c][1] # r
      <3>1. {d \in G : key[d][1] = r} = {d \in H : key[d][1] = r}
        BY <1>1, <2>2
      <3> QED
        BY <1>2, <1>3, <2>2, <3>1 DEF Types
    <2> QED
      BY <2>1, <2>2
  <1>6. ASSUME NEW k \in Key PROVE byKey'[k] = Cardinality({d \in G : key[d] = k})
    <2>1. CASE key[c] = k
      <3>1. {d \in G : key[d] = k} = {d \in H : key[d] = k} \cup {c}
        BY <1>1, <2>1
      <3>2. Cardinality({d \in G : key[d] = k}) = Cardinality({d \in H : key[d] = k}) + 1
        BY <1>1, <3>1, OneMore
      <3> QED
        BY <1>2, <1>3, <2>1, <3>2 DEF Types
    <2>2. CASE key[c] # k
      <3>1. {d \in G : key[d] = k} = {d \in H : key[d] = k}
        BY <1>1, <2>2
      <3> QED
        BY <1>2, <1>3, <2>2, <3>1 DEF Types
    <2> QED
      BY <2>1, <2>2
  <1>7. ASSUME NEW i \in Client PROVE byIP'[i] = Cardinality({d \in G : IP[d] = i})
    <2>1. CASE IP[c] = i
      <3>1. {d \in G : IP[d] = i} = {d \in H : IP[d] = i} \cup {c}
        BY <1>1, <2>1
      <3>2. Cardinality({d \in G : IP[d] = i}) = Cardinality({d \in H : IP[d] = i}) + 1
        BY <1>1, <3>1, OneMore
      <3> QED
        BY <1>2, <1>3, <2>1, <3>2 DEF Types
    <2>2. CASE IP[c] # i
      <3>1. {d \in G : IP[d] = i} = {d \in H : IP[d] = i}
        BY <1>1, <2>2
      <3> QED
        BY <1>2, <1>3, <2>2, <3>1 DEF Types
    <2> QED
      BY <2>1, <2>2
  <1>8. SlotsAccounted'
    BY <1>5, <1>6, <1>7 DEF SlotsAccounted, G
  <1>9. Limits'
    <2>1. /\ MaxTotal # 0 => Cardinality(H) < MaxTotal
          /\ MaxPerRoute # 0 => byRoute[key[c][1]] < MaxPerRoute
          /\ MaxPerIP # 0 => byIP[IP[c]] < MaxPerIP
      BY DEF WithinLimits, Below, H
    <2>2. /\ MaxTotal \in Nat /\ MaxPerRoute \in Nat /\ MaxPerIP \in Nat
      BY TunnelsAssumption
    <2>3. MaxTotal # 0 => Cardinality(G) <= MaxTotal
      BY <1>4, <2>1, <2>2
    <2>4. ASSUME MaxPerRoute # 0, NEW r \in Route PROVE byRoute'[r] <= MaxPerRoute
      BY <1>2, <2>1, <2>2, <2>4 DEF Types, Limits
    <2>5. ASSUME MaxPerIP # 0, NEW i \in Client PROVE byIP'[i] <= MaxPerIP
      BY <1>2, <2>1, <2>2, <2>5 DEF Types, Limits
    <2> QED
      BY <2>3, <2>4, <2>5 DEF Limits, G
  <1> QED
    BY <1>8, <1>9

LEMMA ReleasedAccounted ==
    ASSUME Types, SlotsAccounted, Limits, key' = key, NEW c \in Conn,
           c \in Holding("gateway"), key[c] \in Key,
           Holding("gateway")' = Holding("gateway") \ {c},
           byRoute' = [byRoute EXCEPT ![key[c][1]] = @ - 1],
           byKey' = [byKey EXCEPT ![key[c]] = @ - 1],
           byIP' = [byIP EXCEPT ![IP[c]] = @ - 1]
    PROVE  SlotsAccounted' /\ Limits'
  <1> DEFINE H == Holding("gateway")
             G == Holding("gateway")'
  <1>1. H \subseteq Conn /\ G = H \ {c} /\ c \in H
    BY DEF Holding
  <1>2. key[c][1] \in Route /\ IP[c] \in Client
    BY KeyParts DEF Client
  <1>3. /\ \A r \in Route : byRoute[r] = Cardinality({d \in H : key[d][1] = r})
        /\ \A k \in Key : byKey[k] = Cardinality({d \in H : key[d] = k})
        /\ \A i \in Client : byIP[i] = Cardinality({d \in H : IP[d] = i})
    BY DEF SlotsAccounted
  <1>4. Cardinality(G) = Cardinality(H) - 1 /\ Cardinality(H) \in Nat
    BY <1>1, OneLess, HoldersFinite
  <1> HIDE DEF H, G
  <1>5. ASSUME NEW r \in Route PROVE byRoute'[r] = Cardinality({d \in G : key[d][1] = r})
    <2>1. CASE key[c][1] = r
      <3>1. {d \in G : key[d][1] = r} = {d \in H : key[d][1] = r} \ {c}
        BY <1>1, <2>1
      <3>2. Cardinality({d \in G : key[d][1] = r}) = Cardinality({d \in H : key[d][1] = r}) - 1
        BY <1>1, <2>1, <3>1, OneLess
      <3> QED
        BY <1>2, <1>3, <2>1, <3>2 DEF Types
    <2>2. CASE key[c][1] # r
      <3>1. {d \in G : key[d][1] = r} = {d \in H : key[d][1] = r}
        BY <1>1, <2>2
      <3> QED
        BY <1>2, <1>3, <2>2, <3>1 DEF Types
    <2> QED
      BY <2>1, <2>2
  <1>6. ASSUME NEW k \in Key PROVE byKey'[k] = Cardinality({d \in G : key[d] = k})
    <2>1. CASE key[c] = k
      <3>1. {d \in G : key[d] = k} = {d \in H : key[d] = k} \ {c}
        BY <1>1, <2>1
      <3>2. Cardinality({d \in G : key[d] = k}) = Cardinality({d \in H : key[d] = k}) - 1
        BY <1>1, <2>1, <3>1, OneLess
      <3> QED
        BY <1>2, <1>3, <2>1, <3>2 DEF Types
    <2>2. CASE key[c] # k
      <3>1. {d \in G : key[d] = k} = {d \in H : key[d] = k}
        BY <1>1, <2>2
      <3> QED
        BY <1>2, <1>3, <2>2, <3>1 DEF Types
    <2> QED
      BY <2>1, <2>2
  <1>7. ASSUME NEW i \in Client PROVE byIP'[i] = Cardinality({d \in G : IP[d] = i})
    <2>1. CASE IP[c] = i
      <3>1. {d \in G : IP[d] = i} = {d \in H : IP[d] = i} \ {c}
        BY <1>1, <2>1
      <3>2. Cardinality({d \in G : IP[d] = i}) = Cardinality({d \in H : IP[d] = i}) - 1
        BY <1>1, <2>1, <3>1, OneLess
      <3> QED
        BY <1>2, <1>3, <2>1, <3>2 DEF Types
    <2>2. CASE IP[c] # i
      <3>1. {d \in G : IP[d] = i} = {d \in H : IP[d] = i}
        BY <1>1, <2>2
      <3> QED
        BY <1>2, <1>3, <2>2, <3>1 DEF Types
    <2> QED
      BY <2>1, <2>2
  <1>8. SlotsAccounted'
    BY <1>5, <1>6, <1>7 DEF SlotsAccounted, G
  <1>9. Limits'
    <2>1. MaxTotal \in Nat /\ MaxPerRoute \in Nat /\ MaxPerIP \in Nat
      BY TunnelsAssumption
    <2>2. MaxTotal # 0 => Cardinality(G) <= MaxTotal
      BY <1>4, <2>1 DEF Limits, H
    <2>3. ASSUME MaxPerRoute # 0, NEW r \in Route PROVE byRoute'[r] <= MaxPerRoute
      BY <1>2, <2>1, <2>3 DEF Types, Limits
    <2>4. ASSUME MaxPerIP # 0, NEW i \in Client PROVE byIP'[i] <= MaxPerIP
      BY <1>2, <2>1, <2>4 DEF Types, Limits
    <2> QED
      BY <2>2, <2>3, <2>4 DEF Limits, G
  <1> QED
    BY <1>8, <1>9

\* The registry of a gateway that exited is gone, its slots too.
LEMMA NoHolders ==
    ASSUME Holding("gateway")' = {}, byRoute' = [r \in Route |-> 0],
           byKey' = [k \in Key |-> 0], byIP' = [i \in Client |-> 0]
    PROVE  SlotsAccounted' /\ Limits'
  <1>1. Cardinality({}) = 0
    BY FS_EmptySet
  <1>2. SlotsAccounted'
    <2>1. /\ \A r \in Route : {c \in {} : key'[c][1] = r} = {}
          /\ \A k \in Key : {c \in {} : key'[c] = k} = {}
          /\ \A i \in Client : {c \in {} : IP[c] = i} = {}
      OBVIOUS
    <2> QED
      BY <1>1, <2>1 DEF SlotsAccounted
  <1>3. MaxTotal \in Nat /\ MaxPerRoute \in Nat /\ MaxPerIP \in Nat
    BY TunnelsAssumption
  <1>4. Limits'
    BY <1>1, <1>3 DEF Limits
  <1> QED
    BY <1>2, <1>4
-----------------------------------------------------------------------------
LEMMA TypesStart == Init => Types /\ MatchedHasKey
  <1> SUFFICES ASSUME Init PROVE Types /\ MatchedHasKey
    OBVIOUS
  <1>1. key \in [Conn -> Key \cup {None}] /\ slot \in [Proc -> [Conn -> SlotState]]
    BY DEF Init, SlotState
  <1>2. tokens \in Nat /\ ticks \in Nat /\ passed \in Nat
    BY TunnelsAssumption DEF Init
  <1>3. teardown \in [stage: Stage, polled: SUBSET Route, active: Int, held: SUBSET Conn]
    <2>1. teardown = [stage |-> "none", polled |-> {}, active |-> 0, held |-> {}]
      BY DEF Init, Round
    <2> QED
      BY <2>1 DEF Stage
  <1>4. /\ byRoute \in [Route -> Int] /\ byKey \in [Key -> Int] /\ byIP \in [Client -> Int]
    BY DEF Init
  <1>5. MatchedHasKey
    BY DEF Init, MatchedHasKey, Proc
  <1> QED
    BY <1>1, <1>2, <1>3, <1>4, <1>5 DEF Types

LEMMA TypesStep ==
    ASSUME Types, MatchedHasKey, Next
    PROVE  Types' /\ MatchedHasKey'
  <1>1. "gateway" \in Proc /\ "node" \in Proc
    BY DEF Proc
  <1>2. ASSUME UNCHANGED <<key, slot>> PROVE MatchedHasKey'
    BY <1>2 DEF MatchedHasKey
  \* A slot is set, of a request that has matched unless it is the node's.
  <1>3. ASSUME NEW p \in Proc, NEW c \in Conn, NEW v \in SlotState,
               slot' = [slot EXCEPT ![p][c] = v], key' = key, p = "node" \/ slot["gateway"][c] # "none"
        PROVE  slot' \in [Proc -> [Conn -> SlotState]] /\ MatchedHasKey'
    <2>1. \A d \in Conn : slot'["gateway"][d] # "none" => slot["gateway"][d] # "none"
      BY <1>1, <1>3, SetSlot
    <2> QED
      BY <1>3, <2>1, SetSlot DEF MatchedHasKey
  <1>4. ASSUME NEW c \in Conn, NEW k \in Key, Match(c, k) PROVE Types' /\ MatchedHasKey'
    <2>1. slot' \in [Proc -> [Conn -> SlotState]] /\
          \A d \in Conn : d # c => slot'["gateway"][d] = slot["gateway"][d]
      <3>1. "matched" \in SlotState /\ slot' = [slot EXCEPT !["gateway"][c] = "matched"]
        BY <1>4 DEF Match, SlotState
      <3> QED
        BY <1>1, <3>1 DEF Types
    <2>2. key' \in [Conn -> Key \cup {None}] /\ key'[c] = k /\ \A d \in Conn : d # c => key'[d] = key[d]
      BY <1>4 DEF Match, Types
    <2> QED
      BY <1>4, <2>1, <2>2 DEF Match, Types, MatchedHasKey
  <1>5. ASSUME NEW c \in Conn, Rejected(c) PROVE Types' /\ MatchedHasKey'
    BY <1>1, <1>3, <1>5 DEF Rejected, Types, SlotState
  <1>6. ASSUME NEW c \in Conn, Allow(c) PROVE Types' /\ MatchedHasKey'
    <2>1. slot' \in [Proc -> [Conn -> SlotState]] /\ MatchedHasKey'
      BY <1>1, <1>3, <1>6 DEF Allow, SlotState
    <2>2. tokens' \in Nat /\ passed' \in Nat
      BY <1>6, TunnelsAssumption DEF Allow, Types
    <2> QED
      BY <1>6, <2>1, <2>2 DEF Allow, Types
  <1>7. ASSUME NEW c \in Conn, Admit(c) PROVE Types' /\ MatchedHasKey'
    <2>1. slot' \in [Proc -> [Conn -> SlotState]] /\ MatchedHasKey'
      BY <1>1, <1>3, <1>7 DEF Admit, SlotState
    <2>2. /\ byRoute' \in [Route -> Int] /\ byKey' \in [Key -> Int] /\ byIP' \in [Client -> Int]
      <3>1. key[c] \in Key /\ key[c][1] \in Route /\ IP[c] \in Client
        BY <1>7, KeyParts DEF Admit, MatchedHasKey, Client
      <3> QED
        BY <1>7, <3>1 DEF Admit, Types
    <2> QED
      BY <1>7, <2>1, <2>2 DEF Admit, Types
  <1>8. ASSUME NEW c \in Conn, Relay(c) PROVE Types' /\ MatchedHasKey'
    <2>1. slot' \in [Proc -> [Conn -> SlotState]] /\ MatchedHasKey'
      BY <1>1, <1>2, <1>3, <1>8 DEF Relay, SlotState, Types
    <2> QED
      BY <1>8, <2>1 DEF Relay, Types
  <1>9. ASSUME NEW c \in Conn, NodeAttach(c) PROVE Types' /\ MatchedHasKey'
    BY <1>1, <1>3, <1>9 DEF NodeAttach, Types, SlotState
  <1>10. ASSUME NEW c \in Conn, GatewayAttach(c) PROVE Types' /\ MatchedHasKey'
    BY <1>1, <1>3, <1>10 DEF GatewayAttach, Types, SlotState
  <1>11. ASSUME NEW c \in Conn, HandshakeFails(c) \/ TunnelEnds(c) PROVE Types' /\ MatchedHasKey'
    BY <1>2, <1>11 DEF HandshakeFails, TunnelEnds, Types
  <1>12. ASSUME NEW p \in Proc, NEW c \in Conn, Release(p, c) PROVE Types' /\ MatchedHasKey'
    <2>1. slot[p][c] # "none"
      BY <1>12 DEF Release, Holding
    <2>2. slot' \in [Proc -> [Conn -> SlotState]] /\ MatchedHasKey'
      BY <1>3, <1>12, <2>1 DEF Release, SlotState, Proc
    <2>3. /\ byRoute' \in [Route -> Int] /\ byKey' \in [Key -> Int] /\ byIP' \in [Client -> Int]
      <3>1. CASE p = "node"
        BY <1>12, <3>1 DEF Release, Types
      <3>2. CASE p = "gateway"
        <4>1. key[c] \in Key /\ key[c][1] \in Route /\ IP[c] \in Client
          BY <2>1, <3>2, KeyParts DEF MatchedHasKey, Client
        <4> QED
          BY <1>12, <3>2, <4>1 DEF Release, Types
      <3> QED
        BY <3>1, <3>2 DEF Proc
    <2> QED
      BY <1>12, <2>2, <2>3 DEF Release, Types
  <1>13. CASE Tick
    <2>1. tokens' \in Nat /\ ticks' \in Nat
      BY <1>13, TunnelsAssumption DEF Tick, Refill, Types
    <2> QED
      BY <1>2, <1>13, <2>1 DEF Tick, Types
  <1>14. ASSUME NEW p \in Proc, BeginDrain(p) \/ ListenersClosed(p) \/ Drained(p) \/ CloseAll(p)
         PROVE  Types' /\ MatchedHasKey'
    BY <1>2, <1>14 DEF BeginDrain, ListenersClosed, Drained, CloseAll, Types
  <1>15. ASSUME NEW p \in Proc, Exit(p) PROVE Types' /\ MatchedHasKey'
    <2> DEFINE g == [c \in Conn |-> IF slot[p][c] = "none" THEN "none" ELSE "released"]
    <2>1. g \in [Conn -> SlotState] /\ \A c \in Conn : g[c] # "none" => slot[p][c] # "none"
      BY DEF SlotState
    <2>2. slot' = [slot EXCEPT ![p] = g]
      BY <1>15 DEF Exit
    <2> HIDE DEF g
    <2>3. slot' \in [Proc -> [Conn -> SlotState]] /\
          \A c \in Conn : slot'["gateway"][c] # "none" => slot["gateway"][c] # "none"
      BY <1>1, <2>1, <2>2 DEF Types
    <2>4. MatchedHasKey'
      BY <1>15, <2>3 DEF Exit, MatchedHasKey
    <2>5. /\ byRoute' \in [Route -> Int] /\ byKey' \in [Key -> Int] /\ byIP' \in [Client -> Int]
      BY <1>15 DEF Exit, Types
    <2> QED
      BY <1>15, <2>3, <2>4, <2>5 DEF Exit, Types
  <1>16. Round \in [stage: Stage, polled: SUBSET Route, active: Int, held: SUBSET Conn]
    BY DEF Round, Stage
  <1>17. CASE StartDrainStep \/ PollEnds \/ PollFails \/ ComposeDown
    <2>1. teardown' \in [stage: Stage, polled: SUBSET Route, active: Int, held: SUBSET Conn]
      BY <1>16, <1>17 DEF StartDrainStep, PollEnds, PollFails, ComposeDown, Types, Stage
    <2> QED
      BY <1>2, <1>17, <2>1, ZenonT(40) DEF StartDrainStep, PollEnds, PollFails, ComposeDown, Types
  <1>18. ASSUME NEW r \in Route, Poll(r) PROVE Types' /\ MatchedHasKey'
    <2> DEFINE n == ActiveWebSocketConnections(r)
               h == {c \in Holding("gateway") : key[c] = <<r, Leaving>>}
    <2>1. n \in Int /\ h \subseteq Conn
      BY TunnelsAssumption DEF ActiveWebSocketConnections, Types, Key, Holding
    <2>2. teardown' = [teardown EXCEPT !.polled = teardown.polled \cup {r},
                                       !.active = teardown.active + n,
                                       !.held = teardown.held \cup h]
      BY <1>18 DEF Poll
    <2> HIDE DEF n, h
    <2>3. teardown' \in [stage: Stage, polled: SUBSET Route, active: Int, held: SUBSET Conn]
      <3>1. /\ teardown \in [stage: Stage, polled: SUBSET Route, active: Int, held: SUBSET Conn]
            /\ teardown.polled \cup {r} \subseteq Route
            /\ teardown.active + n \in Int
            /\ teardown.held \cup h \subseteq Conn
        BY <2>1 DEF Types
      <3>2. teardown' = [stage |-> teardown.stage, polled |-> teardown.polled \cup {r},
                         active |-> teardown.active + n, held |-> teardown.held \cup h]
        BY <2>2, <3>1
      <3> QED
        BY <3>1, <3>2
    <2> QED
      BY <1>2, <1>18, <2>3 DEF Poll, Types
  <1> QED
    BY <1>4, <1>5, <1>6, <1>7, <1>8, <1>9, <1>10, <1>11, <1>12, <1>13, <1>14, <1>15, <1>17, <1>18
       DEF Next, Shutdown

\* Only an admission, a release and the end of the gateway change the holders.
LEMMA AccountingStep ==
    ASSUME Inv, Next
    PROVE  SlotsAccounted' /\ Limits'
  <1>1. Types /\ MatchedHasKey /\ SlotsAccounted /\ Limits /\ "gateway" \in Proc /\ "node" \in Proc
    BY DEF Inv, Proc
  <1>2. ASSUME SameHolders PROVE SlotsAccounted' /\ Limits'
    BY <1>1, <1>2, SameHoldersAccounted
  <1>3. ASSUME UNCHANGED <<slot, key, byRoute, byKey, byIP>> PROVE SameHolders
    BY <1>3 DEF SameHolders, Holding
  \* A slot is set that is held neither before nor after, or both.
  <1>4. ASSUME NEW p \in Proc, NEW c \in Conn, NEW v \in SlotState,
               slot' = [slot EXCEPT ![p][c] = v],
               \/ p = "node"
               \/ slot["gateway"][c] \notin {"reserved", "attached"} /\ v \notin {"reserved", "attached"}
               \/ slot["gateway"][c] \in {"reserved", "attached"} /\ v \in {"reserved", "attached"},
               \A d \in Holding("gateway") : key'[d] = key[d],
               UNCHANGED <<byRoute, byKey, byIP>>
        PROVE  SlotsAccounted' /\ Limits'
    <2>1. Holding("gateway")' = Holding("gateway")
      BY <1>1, <1>4, SetSlotKeepsHolders
    <2> QED
      BY <1>2, <1>4, <2>1 DEF SameHolders
  <1>5. ASSUME NEW c \in Conn, NEW k \in Key, Match(c, k) PROVE SlotsAccounted' /\ Limits'
    <2>1. \A d \in Holding("gateway") : d # c
      BY <1>5 DEF Match, Holding
    <2>2. \A d \in Holding("gateway") : key'[d] = key[d]
      BY <1>1, <1>5, <2>1 DEF Match, Types, Holding
    <2>3. "matched" \in SlotState
      BY DEF SlotState
    <2> QED
      BY <1>1, <1>4, <1>5, <2>2, <2>3 DEF Match
  <1>6. ASSUME NEW c \in Conn, Rejected(c) \/ Allow(c) PROVE SlotsAccounted' /\ Limits'
    <2>1. "released" \in SlotState /\ "allowed" \in SlotState
      BY DEF SlotState
    <2> QED
      BY <1>1, <1>4, <1>6, <2>1 DEF Rejected, Allow
  <1>7. ASSUME NEW c \in Conn, Admit(c) PROVE SlotsAccounted' /\ Limits'
    <2>1. "released" \in SlotState /\ "reserved" \in SlotState
      BY DEF SlotState
    <2>2. CASE Draining("gateway") \/ ~WithinLimits(c)
      BY <1>1, <1>4, <1>7, <2>1, <2>2 DEF Admit
    <2>3. CASE ~(Draining("gateway") \/ ~WithinLimits(c))
      <3>1. slot' = [slot EXCEPT !["gateway"][c] = "reserved"]
        BY <1>7, <2>3 DEF Admit
      <3>2. /\ slot'["gateway"][c] = "reserved"
            /\ \A d \in Conn : d # c => slot'["gateway"][d] = slot["gateway"][d]
        BY <1>1, <3>1 DEF Types
      <3>3. Holding("gateway")' = Holding("gateway") \cup {c} /\ c \notin Holding("gateway")
        BY <1>7, <3>2 DEF Holding, Admit
      <3>4. key[c] \in Key
        BY <1>1, <1>7 DEF MatchedHasKey, Admit
      <3> QED
        BY <1>1, <1>7, <2>3, <3>3, <3>4, ReservedAccounted DEF Admit
    <2> QED
      BY <2>2, <2>3
  <1>8. ASSUME NEW c \in Conn, Relay(c) PROVE SlotsAccounted' /\ Limits'
    <2>1. "reserved" \in SlotState
      BY DEF SlotState
    <2> QED
      BY <1>1, <1>2, <1>3, <1>4, <1>8, <2>1 DEF Relay
  <1>9. ASSUME NEW c \in Conn, NodeAttach(c) \/ GatewayAttach(c) PROVE SlotsAccounted' /\ Limits'
    <2>1. "attached" \in SlotState
      BY DEF SlotState
    <2> QED
      BY <1>1, <1>4, <1>9, <2>1 DEF NodeAttach, GatewayAttach
  <1>10. ASSUME NEW p \in Proc, NEW c \in Conn, Release(p, c) PROVE SlotsAccounted' /\ Limits'
    <2>1. "released" \in SlotState
      BY DEF SlotState
    <2>2. CASE p = "node"
      BY <1>1, <1>4, <1>10, <2>1, <2>2 DEF Release
    <2>3. CASE p = "gateway"
      <3>1. slot' = [slot EXCEPT !["gateway"][c] = "released"] /\ c \in Holding("gateway")
        BY <1>10, <2>3 DEF Release
      <3>2. /\ slot'["gateway"][c] = "released"
            /\ \A d \in Conn : d # c => slot'["gateway"][d] = slot["gateway"][d]
        BY <1>1, <3>1 DEF Types
      <3>3. Holding("gateway")' = Holding("gateway") \ {c}
        BY <3>1, <3>2 DEF Holding
      <3>4. key[c] \in Key
        BY <1>1, <3>1 DEF MatchedHasKey, Holding
      <3> QED
        BY <1>1, <1>10, <2>3, <3>1, <3>3, <3>4, ReleasedAccounted DEF Release
    <2> QED
      BY <2>2, <2>3 DEF Proc
  <1>11. ASSUME NEW p \in Proc, Exit(p) PROVE SlotsAccounted' /\ Limits'
    <2> DEFINE g == [c \in Conn |-> IF slot[p][c] = "none" THEN "none" ELSE "released"]
    <2>1. slot' = [slot EXCEPT ![p] = g] /\ \A c \in Conn : g[c] \in {"none", "released"}
      BY <1>11 DEF Exit
    <2> HIDE DEF g
    <2>2. CASE p = "node"
      <3>1. slot'["gateway"] = slot["gateway"]
        BY <1>1, <2>1, <2>2 DEF Types
      <3> QED
        BY <1>2, <1>11, <2>2, <3>1 DEF SameHolders, Holding, Exit
    <2>3. CASE p = "gateway"
      <3>1. slot'["gateway"] = g
        BY <1>1, <2>1, <2>3 DEF Types
      <3>2. Holding("gateway")' = {}
        BY <2>1, <3>1 DEF Holding
      <3> QED
        BY <1>11, <2>3, <3>2, NoHolders DEF Exit
    <2> QED
      BY <2>2, <2>3 DEF Proc
  <1>12. CASE \/ \E c \in Conn : HandshakeFails(c) \/ TunnelEnds(c)
              \/ Tick
              \/ \E p \in Proc : BeginDrain(p) \/ ListenersClosed(p) \/ Drained(p) \/ CloseAll(p)
              \/ StartDrainStep \/ PollEnds \/ PollFails \/ ComposeDown
              \/ \E r \in Route : Poll(r)
    BY <1>2, <1>3, <1>12, ZenonT(40)
       DEF HandshakeFails, TunnelEnds, Tick, BeginDrain, ListenersClosed, Drained, CloseAll,
           StartDrainStep, PollEnds, PollFails, ComposeDown, Poll
  <1> QED
    BY <1>5, <1>6, <1>7, <1>8, <1>9, <1>10, <1>11, <1>12 DEF Next, Shutdown

LEMMA OneTimesMore ==
    ASSUME NEW a \in Nat, NEW b \in Nat
    PROVE  (a + 1) * b = a * b + b /\ a * b \in Nat
  OBVIOUS

LEMMA BucketStep ==
    ASSUME Types, Bucket, Next
    PROVE  Bucket'
  <1>1. /\ tokens \in Nat /\ ticks \in Nat /\ passed \in Nat
        /\ Burst \in Nat /\ Rate \in Nat /\ Cost \in Nat
    BY TunnelsAssumption DEF Types
  <1> DEFINE P == passed * Cost
             Q == ticks * Rate
  <1>2. /\ P \in Nat /\ Q \in Nat
        /\ (passed + 1) * Cost = P + Cost /\ (ticks + 1) * Rate = Q + Rate
    BY <1>1, OneTimesMore
  <1>3. tokens <= Burst /\ P + tokens <= Burst + Q
    BY DEF Bucket
  <1> HIDE DEF P, Q
  <1>4. ASSUME NEW c \in Conn, Allow(c) PROVE Bucket'
    <2>1. CASE tokens < Cost
      BY <1>4, <2>1 DEF Allow, Bucket
    <2>2. CASE ~(tokens < Cost)
      <3>1. tokens' = tokens - Cost /\ passed' = passed + 1 /\ ticks' = ticks
        BY <1>4, <2>2 DEF Allow
      <3>2. passed' * Cost = P + Cost /\ ticks' * Rate = Q
        BY <1>2, <3>1 DEF Q
      <3> QED
        BY <1>1, <1>2, <1>3, <2>2, <3>1, <3>2 DEF Bucket
    <2> QED
      BY <2>1, <2>2
  <1>5. CASE Tick
    <2>1. passed' * Cost = P /\ ticks' * Rate = Q + Rate
      BY <1>2, <1>5 DEF Tick, P
    <2>2. tokens' \in Nat /\ tokens' <= Burst /\ tokens' <= tokens + Rate
      BY <1>1, <1>5 DEF Tick, Refill
    <2> QED
      BY <1>1, <1>2, <1>3, <2>1, <2>2 DEF Bucket
  <1>6. CASE UNCHANGED <<tokens, ticks, passed>>
    BY <1>6 DEF Bucket
  <1> QED
    BY <1>4, <1>5, <1>6, ZenonT(40)
       DEF Next, Shutdown, Match, Rejected, Admit, Relay, NodeAttach, GatewayAttach, HandshakeFails,
           TunnelEnds, Release, BeginDrain, ListenersClosed, Drained, CloseAll, Exit,
           StartDrainStep, PollEnds, PollFails, ComposeDown, Poll

\* A poll that adds nothing to the count adds no holder: the count is exact.
LEMMA RoundStep ==
    ASSUME Inv, Next
    PROVE  RoundSawNothing'
  <1>1. Types /\ SlotsAccounted /\ RoundSawNothing /\ teardown.active \in Nat
    BY DEF Inv, RoundSawNothing
  <1>2. ASSUME NEW r \in Route, Poll(r) PROVE RoundSawNothing'
    <2> DEFINE n == ActiveWebSocketConnections(r)
               h == {c \in Holding("gateway") : key[c] = <<r, Leaving>>}
    <2>1. h \subseteq Conn /\ <<r, Leaving>> \in Key
      BY TunnelsAssumption DEF Holding, Key
    <2>2. n = Cardinality(h)
      BY <1>1, <2>1 DEF ActiveWebSocketConnections, SlotsAccounted
    <2>3. n \in Nat /\ (n = 0 => h = {})
      BY <2>1, <2>2, HoldersFinite, FS_EmptySet
    <2>4. teardown' = [teardown EXCEPT !.polled = teardown.polled \cup {r},
                                       !.active = teardown.active + n,
                                       !.held = teardown.held \cup h]
      BY <1>2 DEF Poll
    <2> HIDE DEF n, h
    <2>5. /\ teardown'.stage = teardown.stage /\ teardown'.active = teardown.active + n
          /\ teardown'.held = teardown.held \cup h /\ teardown.stage = "wait"
      BY <1>1, <1>2, <2>4 DEF Types, Poll
    <2> QED
      BY <1>1, <2>3, <2>5 DEF RoundSawNothing
  <1>3. CASE StartDrainStep
    BY <1>3 DEF StartDrainStep, Round, RoundSawNothing
  <1>4. CASE PollEnds
    <2>2. CASE teardown' = Round
      BY <2>2 DEF Round, RoundSawNothing
    <2>3. CASE teardown' = [teardown EXCEPT !.stage = "quiet"] /\ teardown.active = 0
      <3>1. teardown'.active = 0 /\ teardown'.held = teardown.held
        BY <1>1, <2>3 DEF Types
      <3> QED
        <4>1. teardown.held = {}
          BY <1>1, <1>4, <2>3 DEF PollEnds, RoundSawNothing
        <4> QED
          BY <3>1, <4>1 DEF RoundSawNothing
    <2>4. CASE teardown' = [teardown EXCEPT !.stage = "gave up"]
      <3>1. teardown'.active = teardown.active /\ teardown'.stage = "gave up"
        BY <1>1, <2>4 DEF Types
      <3> QED
        BY <1>1, <3>1 DEF RoundSawNothing
    <2> QED
      BY <1>4, <2>2, <2>3, <2>4 DEF PollEnds
  <1>5. CASE PollFails
    BY <1>1, <1>5 DEF PollFails, RoundSawNothing, Types
  <1>6. CASE ComposeDown
    BY <1>6 DEF ComposeDown, Round, RoundSawNothing
  <1>7. CASE UNCHANGED teardown
    BY <1>1, <1>7 DEF RoundSawNothing
  <1> QED
    BY <1>2, <1>3, <1>4, <1>5, <1>6, <1>7
       DEF Next, Shutdown, Match, Rejected, Allow, Admit, Relay, NodeAttach, GatewayAttach, HandshakeFails,
           TunnelEnds, Release, Tick, BeginDrain, ListenersClosed, Drained, CloseAll, Exit
-----------------------------------------------------------------------------
LEMMA Starts == Init => Inv
  <1> SUFFICES ASSUME Init PROVE Inv
    OBVIOUS
  <1>1. Types /\ MatchedHasKey
    BY TypesStart
  <1>2. Holding("gateway") = {}
    BY DEF Init, Holding, Proc
  <1>3. Cardinality({}) = 0
    BY FS_EmptySet
  <1>4. SlotsAccounted
    <2>1. /\ \A r \in Route : {c \in {} : key[c][1] = r} = {}
          /\ \A k \in Key : {c \in {} : key[c] = k} = {}
          /\ \A i \in Client : {c \in {} : IP[c] = i} = {}
      OBVIOUS
    <2> QED
      BY <1>2, <1>3, <2>1 DEF SlotsAccounted, Init
  <1>5. MaxTotal \in Nat /\ MaxPerRoute \in Nat /\ MaxPerIP \in Nat /\ Burst \in Nat /\ Rate \in Nat /\ Cost \in Nat
    BY TunnelsAssumption
  <1>6. Limits
    BY <1>2, <1>3, <1>5, SMTT(40) DEF Limits, Init
  <1>7. RoundSawNothing
    <2>1. teardown = [stage |-> "none", polled |-> {}, active |-> 0, held |-> {}]
      BY DEF Init, Round
    <2> QED
      BY <2>1 DEF RoundSawNothing
  <1>8. Bucket
    BY <1>5 DEF Init, Bucket
  <1> QED
    BY <1>1, <1>4, <1>6, <1>7, <1>8 DEF Inv

LEMMA Steps == Inv /\ [Next]_vars => Inv'
  <1> SUFFICES ASSUME Inv, [Next]_vars PROVE Inv'
    OBVIOUS
  <1>1. CASE Next
    BY <1>1, TypesStep, AccountingStep, BucketStep, RoundStep DEF Inv
  <1>2. CASE UNCHANGED vars
    <2> USE <1>2 DEF vars, Inv
    <2>1. Types' /\ MatchedHasKey'
      BY DEF Types, MatchedHasKey
    <2>2. SlotsAccounted' /\ Limits'
      BY DEF SlotsAccounted, Limits, Holding
    <2>3. RoundSawNothing' /\ Bucket'
      BY DEF RoundSawNothing, Bucket
    <2> QED
      BY <2>1, <2>2, <2>3
  <1> QED
    BY <1>1, <1>2

LEMMA Invariant == Spec => []Inv
  BY Starts, Steps, PTL DEF Spec

\* The registry's counters are the slots held, for every number of requests,
\* routes and addresses (Admit and Release, under the registry's lock).
THEOREM SlotsAreAccounted == Spec => []SlotsAccounted
  <1>1. Inv => SlotsAccounted
    BY DEF Inv
  <1> QED
    BY <1>1, Invariant, PTL

\* The total, per-route and per-address limits hold, and the rate limiter's bucket
\* lets no more handshakes pass than it has held, for every setting of them.
THEOREM LimitsAlwaysHold == Spec => []LimitsHold
  <1>1. Inv => LimitsHold
    <2> SUFFICES ASSUME Inv PROVE LimitsHold
      OBVIOUS
    <2>1. Types /\ SlotsAccounted /\ Limits /\ Bucket
      BY DEF Inv
    <2>2. /\ tokens \in Nat /\ ticks \in Nat /\ passed \in Nat
          /\ Burst \in Nat /\ Rate \in Nat /\ Cost \in Nat
      BY <2>1, TunnelsAssumption DEF Types
    <2>3. passed * Cost \in Nat /\ ticks * Rate \in Nat
      BY <2>2, OneTimesMore
    <2>4. tokens \in 0..Burst /\ passed * Cost <= Burst + ticks * Rate
      BY <2>1, <2>2, <2>3 DEF Bucket
    <2>5. LET held == Holding("gateway")
          IN  /\ MaxTotal # 0 => Cardinality(held) <= MaxTotal
              /\ MaxPerRoute # 0 => \A r \in Route : Cardinality({c \in held : key[c][1] = r}) <= MaxPerRoute
              /\ MaxPerIP # 0 => \A i \in Client : Cardinality({c \in held : IP[c] = i}) <= MaxPerIP
      BY <2>1 DEF SlotsAccounted, Limits
    <2> QED
      BY <2>4, <2>5 DEF LimitsHold
  <1> QED
    BY <1>1, Invariant, PTL

\* A decommission whose poll of the gateway counted no tunnel has seen none that
\* is still held, whatever was admitted or released between the polls of its routes.
THEOREM DrainSeesTunnels == Spec => []DrainWaitsForTunnels
  <1>1. Inv => DrainWaitsForTunnels
    BY DEF Inv, RoundSawNothing, DrainWaitsForTunnels
  <1> QED
    BY <1>1, Invariant, PTL
=============================================================================
