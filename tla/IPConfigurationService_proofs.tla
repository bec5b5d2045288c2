------------------- MODULE IPConfigurationService_proofs -------------------
(***************************************************************************)
(* Proofs about IPConfigurationService, for every set of objects, requests *)
(* and configured services, whoever is allowed to ask, and every number of *)
(* restarts of the agent.                                                  *)
(***************************************************************************)
EXTENDS IPConfigurationService, SequenceTheorems, TLAPS

Block == {"reconnect", "start", "valid", "clear"}
Busy == {"add", "remove", "again"}
Waiting == {"waits", "clears"}

\* The configurations an object is created with, with or without ClearState.
Config ==
    [ipv6 : BOOLEAN, dict : {config_dict_create(r.options).dict : r \in Requests} \cup {<<>>},
     clear : BOOLEAN]

ObjState ==
    [life : {"none", "live", "gone"}, pd : BOOLEAN, config : Config, server : BOOLEAN,
     need_reconnect : BOOLEAN, wrapper : BOOLEAN, listening : BOOLEAN]
Thread(pcs) == [pc : {"idle"} \cup pcs, ok : BOOLEAN]
Threads == [client : Thread(Busy \cup Waiting \cup {"removes"}), queue : Thread(Busy)]

AgentOK(a) ==
    /\ a = [up |-> a.up, present |-> a.present, list |-> a.list]
    /\ a.up \in BOOLEAN /\ a.present \in BOOLEAN /\ Owners(a) \subseteq Obj

Types ==
    /\ obj \in [Obj -> ObjState] /\ th \in [Obj -> Threads] /\ todo \in [Obj -> Seq(Block)]
    /\ AgentOK(agent)
    /\ unseen \subseteq Obj /\ exited \subseteq Obj /\ lost \subseteq Obj
    /\ told \in [Obj -> {"nothing", "failed", "prefix", "valid", "restarting", "gone"}]

-----------------------------------------------------------------------------
(* The inductive invariant.                                                *)

\* The queue holds a block of the client exactly while the client waits for
\* it, and one at most; the others are of the store.
In(q, b) == \E i \in DOMAIN q : q[i] = b
Blocks(q, c) ==
    /\ \A i, j \in DOMAIN q : q[i] # "reconnect" /\ q[j] # "reconnect" => i = j
    /\ c \in Waiting <=> \E i \in DOMAIN q : q[i] # "reconnect"
    /\ \A i \in DOMAIN q : q[i] \in IF c = "waits" THEN {"reconnect", "start", "valid"}
                                    ELSE {"reconnect", "clear"}

\* An object that is not there has no thread, no block and nothing to hear.
Absent(o) ==
    obj[o].life # "live" =>
        /\ th[o].client.pc = "idle" /\ th[o].queue.pc = "idle" /\ todo[o] = <<>>
        /\ o \notin unseen /\ told[o] # "gone"

\* The queue re-creates the service of an object that was started, on behalf
\* of the block at its head; the client only of one that was not.
Threaded(o) ==
    /\ Blocks(todo[o], th[o].client.pc)
    /\ th[o].queue.pc # "idle" =>
         /\ obj[o].server /\ obj[o].wrapper
         /\ todo[o] # <<>> /\ Head(todo[o]) \in {"reconnect", "start"}
    /\ th[o].client.pc \in Busy => ~obj[o].server
    /\ obj[o].life = "live" => (obj[o].wrapper <=> th[o].client.pc # "removes")

\* An object that was started, or is about to be, has its service, or lost
\* it, or something will create it again.
Started(o) == obj[o].server \/ In(todo[o], "start")
Followed(o) ==
    obj[o].life = "live" /\ obj[o].wrapper /\ Started(o) =>
        \/ o \in Owners(agent) \cup lost
        \/ ~agent.up \/ o \in unseen \/ In(todo[o], "reconnect")
        \/ th[o].queue.pc # "idle" \/ (obj[o].need_reconnect /\ ~obj[o].server)

\* A service is one of an object that was started and will remove it, or
\* whose process the agent will see end.
Owned(o) ==
    /\ o \in Owners(agent) => o \in Allowed
    /\ o \in Owners(agent) => IF obj[o].life = "live" THEN Started(o) ELSE o \in exited
    /\ o \in exited => obj[o].life = "gone"

\* Nothing will create a service behind a handler that was told it is gone.
Gone(o) ==
    told[o] = "gone" =>
        /\ o \notin Owners(agent) /\ o \notin unseen
        /\ ~In(todo[o], "reconnect") /\ ~In(todo[o], "start")
        /\ th[o].queue.pc = "idle" /\ th[o].client.pc \notin Busy

ObjectOK(o) == Absent(o) /\ Threaded(o) /\ Followed(o) /\ Owned(o) /\ Gone(o)

OneOfAKind == \A s, u \in agent.list : Kind(s.key) = Kind(u.key) => s = u

ServicesInv ==
    /\ Types /\ OneOfAKind
    /\ ~agent.up => agent.list = {}
    /\ \A o \in Obj : ObjectOK(o)

-----------------------------------------------------------------------------
(* The queue of an object.                                                 *)

LEMMA EmptyQueue ==
    ASSUME NEW c, c \notin Waiting
    PROVE  <<>> \in Seq(Block) /\ Blocks(<<>>, c) /\ \A b : ~In(<<>>, b)
  BY EmptySeq DEF Blocks, In

\* Without a block of the client it does not matter what the client does.
LEMMA SameBlocks ==
    ASSUME NEW q, NEW c, NEW d, Blocks(q, c), c \notin Waiting, d \notin Waiting
    PROVE  Blocks(q, d)
  BY DEF Blocks, Waiting

\* Putting a block there.
LEMMA Appended ==
    ASSUME NEW q \in Seq(Block), NEW b \in Block
    PROVE  /\ Append(q, b) \in Seq(Block)
           /\ \A x : In(Append(q, b), x) <=> In(q, x) \/ x = b
           /\ q # <<>> => Append(q, b) # <<>> /\ Head(Append(q, b)) = Head(q)
<1> DEFINE r == Append(q, b)
<1>1. /\ r \in Seq(Block) /\ Len(r) = Len(q) + 1 /\ r[Len(r)] = b
      /\ \A i \in 1 .. Len(q) : r[i] = q[i]
  BY AppendProperties
<1>2. DOMAIN q = 1 .. Len(q) /\ DOMAIN r = 1 .. Len(r) /\ Len(q) \in Nat
  BY <1>1, LenProperties
<1> HIDE DEF r
<1>3. DOMAIN r = DOMAIN q \cup {Len(q) + 1} /\ r[Len(q) + 1] = b /\ \A i \in DOMAIN q : r[i] = q[i]
  BY <1>1, <1>2
<1>4. \A x : In(r, x) <=> In(q, x) \/ x = b
  BY <1>3 DEF In
<1>5. ASSUME q # <<>> PROVE r # <<>> /\ Head(r) = Head(q)
  <2>1. Head(q) = q[1] /\ Len(q) # 0
    BY <1>5, EmptySeq
  <2>2. r # <<>> /\ Head(r) = r[1]
    BY <1>1, <1>2, EmptySeq
  <2> QED BY <1>1, <1>2, <2>1, <2>2
<1> QED BY <1>1, <1>4, <1>5 DEF r

LEMMA AppendedBlocks ==
    ASSUME NEW q \in Seq(Block), NEW c, Blocks(q, c)
    PROVE  /\ Blocks(Append(q, "reconnect"), c)
           /\ c \notin Waiting =>
                /\ Blocks(Append(q, "start"), "waits") /\ Blocks(Append(q, "valid"), "waits")
                /\ Blocks(Append(q, "clear"), "clears")
<1>1. ASSUME NEW b \in Block
      PROVE  /\ DOMAIN Append(q, b) = DOMAIN q \cup {Len(q) + 1} /\ Append(q, b)[Len(q) + 1] = b
             /\ \A i \in DOMAIN q : Append(q, b)[i] = q[i]
  <2> DEFINE r == Append(q, b)
  <2>1. /\ r \in Seq(Block) /\ Len(r) = Len(q) + 1 /\ r[Len(r)] = b
        /\ \A i \in 1 .. Len(q) : r[i] = q[i]
    BY AppendProperties
  <2>2. DOMAIN q = 1 .. Len(q) /\ DOMAIN r = 1 .. Len(r) /\ Len(q) \in Nat
    BY <2>1, LenProperties
  <2> HIDE DEF r
  <2> QED BY <2>1, <2>2 DEF r
<1>2. Blocks(Append(q, "reconnect"), c)
  <2> DEFINE r == Append(q, "reconnect")
  <2>1. /\ DOMAIN r = DOMAIN q \cup {Len(q) + 1} /\ r[Len(q) + 1] = "reconnect"
        /\ \A i \in DOMAIN q : r[i] = q[i]
    BY <1>1 DEF Block
  <2> HIDE DEF r
  <2> QED BY <2>1 DEF Blocks, r
<1>3. ASSUME c \notin Waiting, NEW b \in {"start", "valid", "clear"},
             NEW d \in Waiting, b = "clear" <=> d = "clears"
      PROVE  Blocks(Append(q, b), d)
  <2> DEFINE r == Append(q, b)
  <2>1. /\ DOMAIN r = DOMAIN q \cup {Len(q) + 1} /\ r[Len(q) + 1] = b
        /\ \A i \in DOMAIN q : r[i] = q[i]
    BY <1>1 DEF Block
  <2>2. \A i \in DOMAIN q : q[i] = "reconnect"
    BY <1>3 DEF Blocks
  <2> HIDE DEF r
  <2>3. Blocks(r, d)
    BY <1>3, <2>1, <2>2 DEF Blocks, Waiting
  <2> QED BY <2>3 DEF r
<1> QED BY <1>2, <1>3 DEF Waiting

\* Taking the one at its head: of the client's only that one was there.
LEMMA Taken ==
    ASSUME NEW q \in Seq(Block), q # <<>>
    PROVE  /\ Head(q) \in Block /\ Tail(q) \in Seq(Block)
           /\ \A x : In(q, x) <=> x = Head(q) \/ In(Tail(q), x)
<1> DEFINE r == Tail(q)
<1>1. /\ Head(q) \in Block /\ r \in Seq(Block) /\ Len(r) = Len(q) - 1 /\ Head(q) = q[1]
      /\ \A i \in 1 .. Len(r) : r[i] = q[i + 1]
  BY HeadTailProperties
<1>2. DOMAIN q = 1 .. Len(q) /\ DOMAIN r = 1 .. Len(r) /\ Len(q) \in Nat /\ Len(q) # 0
  BY <1>1, LenProperties, EmptySeq
<1> HIDE DEF r
<1>3. ASSUME NEW x, In(q, x) PROVE x = Head(q) \/ In(r, x)
  <2>1. PICK i \in 1 .. Len(q) : q[i] = x
    BY <1>2, <1>3 DEF In
  <2>2. CASE i = 1
    BY <1>1, <2>1, <2>2
  <2>3. CASE i # 1
    <3>1. i - 1 \in 1 .. Len(r) /\ (i - 1) + 1 = i
      BY <1>1, <1>2, <2>1, <2>3
    <3> QED BY <1>1, <1>2, <2>1, <3>1 DEF In
  <2> QED BY <2>2, <2>3
<1>4. ASSUME NEW x, x = Head(q) \/ In(r, x) PROVE In(q, x)
  <2>1. CASE x = Head(q)
    BY <1>1, <1>2, <2>1 DEF In
  <2>2. CASE In(r, x)
    <3>1. PICK i \in 1 .. Len(r) : r[i] = x
      BY <1>2, <2>2 DEF In
    <3>2. i + 1 \in 1 .. Len(q) /\ q[i + 1] = x
      BY <1>1, <1>2, <3>1
    <3> QED BY <1>2, <3>2 DEF In
  <2> QED BY <1>4, <2>1, <2>2
<1> QED BY <1>1, <1>3, <1>4 DEF r

LEMMA TakenBlocks ==
    ASSUME NEW q \in Seq(Block), NEW c, Blocks(q, c), q # <<>>
    PROVE  /\ Head(q) = "reconnect" => Blocks(Tail(q), c)
           /\ Head(q) # "reconnect" =>
                /\ c \in Waiting /\ (c = "clears" <=> Head(q) = "clear")
                /\ \A x : In(Tail(q), x) => x = "reconnect"
                /\ \A d : d \notin Waiting => Blocks(Tail(q), d)
<1> DEFINE r == Tail(q)
<1>1. /\ Head(q) \in Block /\ r \in Seq(Block) /\ Len(r) = Len(q) - 1 /\ Head(q) = q[1]
      /\ \A i \in 1 .. Len(r) : r[i] = q[i + 1]
  BY HeadTailProperties
<1>2. DOMAIN q = 1 .. Len(q) /\ DOMAIN r = 1 .. Len(r) /\ Len(q) \in Nat /\ Len(q) # 0
  BY <1>1, LenProperties, EmptySeq
<1> HIDE DEF r
<1>3. \A i \in 1 .. Len(r) : i + 1 \in 1 .. Len(q) /\ r[i] = q[i + 1] /\ i + 1 # 1
  BY <1>1, <1>2
<1>4. ASSUME Head(q) = "reconnect" PROVE Blocks(r, c)
  <2>1. \A i, j \in DOMAIN r : r[i] # "reconnect" /\ r[j] # "reconnect" => i = j
    <3> SUFFICES ASSUME NEW i \in DOMAIN r, NEW j \in DOMAIN r, r[i] # "reconnect", r[j] # "reconnect"
                 PROVE  i = j
      OBVIOUS
    <3>1. i + 1 = j + 1
      BY <1>2, <1>3 DEF Blocks
    <3> QED BY <1>2, <3>1
  <2>2. (\E i \in DOMAIN q : q[i] # "reconnect") <=> \E i \in DOMAIN r : r[i] # "reconnect"
    <3>1. ASSUME NEW i \in DOMAIN q, q[i] # "reconnect" PROVE \E j \in DOMAIN r : r[j] # "reconnect"
      <4>1. i # 1
        BY <1>1, <1>4, <3>1
      <4>2. i - 1 \in 1 .. Len(r) /\ (i - 1) + 1 = i
        BY <1>1, <1>2, <3>1, <4>1
      <4> QED BY <1>1, <1>2, <3>1, <4>2
    <3>2. ASSUME NEW i \in DOMAIN r, r[i] # "reconnect" PROVE \E j \in DOMAIN q : q[j] # "reconnect"
      BY <1>2, <1>3, <3>2
    <3> QED BY <3>1, <3>2
  <2>3. \A i \in DOMAIN r : \E j \in DOMAIN q : r[i] = q[j]
    BY <1>2, <1>3
  <2> QED BY <2>1, <2>2, <2>3 DEF Blocks
<1>5. ASSUME Head(q) # "reconnect"
      PROVE  /\ c \in Waiting /\ (c = "clears" <=> Head(q) = "clear")
             /\ \A x : In(r, x) => x = "reconnect"
             /\ \A d : d \notin Waiting => Blocks(r, d)
  <2>1. c \in Waiting /\ (c = "clears" <=> Head(q) = "clear")
    BY <1>1, <1>2, <1>5 DEF Blocks, Waiting
  <2>2. \A i \in DOMAIN r : r[i] = "reconnect"
    BY <1>1, <1>2, <1>3, <1>5 DEF Blocks
  <2> QED BY <2>1, <2>2 DEF Blocks, In
<1> QED BY <1>4, <1>5 DEF r

-----------------------------------------------------------------------------
(* Steps.                                                                  *)

\* What a step must leave alone of the objects it is not about.
Same(p) ==
    /\ obj'[p] = obj[p] /\ th'[p] = th[p] /\ todo'[p] = todo[p] /\ told'[p] = told[p]
    /\ (p \in unseen' <=> p \in unseen) /\ (p \in exited' <=> p \in exited)
    /\ p \in Owners(agent') => p \in Owners(agent)
    /\ p \in Owners(agent) \cup lost => p \in Owners(agent') \cup lost'
    /\ agent'.up = agent.up

LEMMA Untouched ==
    ASSUME NEW p \in Obj, ObjectOK(p), Same(p)
    PROVE  ObjectOK(p)'
<1>1. Absent(p)' /\ Threaded(p)' /\ Gone(p)'
  BY DEF ObjectOK, Same, Absent, Threaded, Gone
<1>2. Followed(p)'
  BY DEF ObjectOK, Same, Followed, Started
<1>3. Owned(p)'
  BY DEF ObjectOK, Same, Owned, Started
<1> QED BY <1>1, <1>2, <1>3 DEF ObjectOK

LEMMA OneObject ==
    ASSUME ServicesInv, NEW o \in Obj, Types', OneOfAKind', ~agent'.up => agent'.list = {},
           ObjectOK(o)', \A p \in Obj \ {o} : Same(p)
    PROVE  ServicesInv'
<1>1. \A p \in Obj \ {o} : ObjectOK(p)'
  BY Untouched DEF ServicesInv
<1> QED BY <1>1 DEF ServicesInv

\* What one thread does next.
LEMMA ClientGoes ==
    ASSUME Types, NEW o \in Obj, NEW pc \in {"idle", "removes"} \cup Busy \cup Waiting, NEW ok \in BOOLEAN,
           th' = Go(o, "client", pc, ok)
    PROVE  /\ th' \in [Obj -> Threads] /\ th'[o].client.pc = pc /\ th'[o].queue = th[o].queue
           /\ \A p \in Obj \ {o} : th'[p] = th[p]
<1>1. th[o] \in Threads
  BY DEF Types
<1>2. th' = [th EXCEPT ![o] = [th[o] EXCEPT !["client"] = [pc |-> pc, ok |-> ok]]]
  BY DEF Go
<1>3. PICK t : t = [th[o] EXCEPT !["client"] = [pc |-> pc, ok |-> ok]]
  OBVIOUS
<1>4. t \in Threads /\ t.client = [pc |-> pc, ok |-> ok] /\ t.queue = th[o].queue
  BY <1>1, <1>3 DEF Threads, Thread
<1>5. th' = [th EXCEPT ![o] = t] /\ th \in [Obj -> Threads]
  BY <1>2, <1>3 DEF Types
<1> QED BY <1>4, <1>5

LEMMA QueueGoes ==
    ASSUME Types, NEW o \in Obj, NEW pc \in {"idle"} \cup Busy, NEW ok \in BOOLEAN,
           th' = Go(o, "queue", pc, ok)
    PROVE  /\ th' \in [Obj -> Threads] /\ th'[o].queue.pc = pc /\ th'[o].client = th[o].client
           /\ \A p \in Obj \ {o} : th'[p] = th[p]
<1>1. th[o] \in Threads
  BY DEF Types
<1>2. th' = [th EXCEPT ![o] = [th[o] EXCEPT !["queue"] = [pc |-> pc, ok |-> ok]]]
  BY DEF Go
<1>3. PICK t : t = [th[o] EXCEPT !["queue"] = [pc |-> pc, ok |-> ok]]
  OBVIOUS
<1>4. t \in Threads /\ t.queue = [pc |-> pc, ok |-> ok] /\ t.client = th[o].client
  BY <1>1, <1>3 DEF Threads, Thread
<1>5. th' = [th EXCEPT ![o] = t] /\ th \in [Obj -> Threads]
  BY <1>2, <1>3 DEF Types
<1> QED BY <1>4, <1>5

\* The store tells an object that the agent came back.
LEMMA DisconnectStep ==
    ASSUME ServicesInv, NEW o \in Obj, StoreDisconnects(o)
    PROVE  ServicesInv'
<1> DEFINE q == Append(todo[o], "reconnect")
<1>0. /\ o \in unseen /\ unseen' = unseen \ {o} /\ todo' = [todo EXCEPT ![o] = q]
      /\ UNCHANGED <<obj, th, agent, exited, lost, told>>
  BY DEF StoreDisconnects
<1>1. Types /\ OneOfAKind /\ ObjectOK(o) /\ todo[o] \in Seq(Block)
  BY DEF ServicesInv, Types
<1>2. /\ q \in Seq(Block) /\ Blocks(q, th[o].client.pc)
      /\ \A x : In(q, x) <=> In(todo[o], x) \/ x = "reconnect"
      /\ todo[o] # <<>> => q # <<>> /\ Head(q) = Head(todo[o])
  BY <1>1, Appended, AppendedBlocks DEF Block, ObjectOK, Threaded
<1> HIDE DEF q
<1>3. /\ todo' \in [Obj -> Seq(Block)] /\ todo'[o] = q /\ \A p \in Obj \ {o} : todo'[p] = todo[p]
  BY <1>0, <1>1, <1>2 DEF Types
<1>4. Types' /\ OneOfAKind' /\ (~agent'.up => agent'.list = {})
  BY <1>0, <1>1, <1>3 DEF Types, OneOfAKind, ServicesInv, AgentOK
<1>5. obj[o].life = "live" /\ told[o] # "gone"
  BY <1>0, <1>1 DEF ObjectOK, Absent, Gone
<1>6. ObjectOK(o)'
  BY <1>0, <1>1, <1>2, <1>3, <1>5 DEF ObjectOK, Absent, Threaded, Followed, Started, Owned, Gone
<1>7. \A p \in Obj \ {o} : Same(p)
  BY <1>0, <1>3 DEF Same
<1> QED BY <1>4, <1>6, <1>7, OneObject

\* An object is created.
LEMMA CreateStep ==
    ASSUME ServicesInv, NEW o \in Obj, NEW r \in Requests,
           IPConfigurationServiceCreate(o, r.options) \/ DHCPv6PDServiceCreate(o, r.options)
    PROVE  ServicesInv'
<1>0. PICK pd \in BOOLEAN :
        /\ obj[o].life = "none"
        /\ obj' = [obj EXCEPT ![o] = [NoObject EXCEPT !.life = "live", !.pd = pd, !.wrapper = TRUE,
                                                     !.config = config_dict_create(r.options)]]
  BY DEF IPConfigurationServiceCreate, DHCPv6PDServiceCreate, IPConfigurationServiceCreateInternal
<1>1. /\ Types /\ OneOfAKind /\ ObjectOK(o) /\ UNCHANGED <<todo, agent, unseen, exited, lost, told>>
      /\ th' = Go(o, "client", "add", TRUE) \/ th' = th
  BY DEF ServicesInv, IPConfigurationServiceCreate, DHCPv6PDServiceCreate
<1>2. config_dict_create(r.options) \in Config
  BY DEF config_dict_create, Config, IsIPv6, Has
<1>3. PICK c \in Config : c = config_dict_create(r.options)
  BY <1>2
<1>4. /\ obj' \in [Obj -> ObjState] /\ \A p \in Obj \ {o} : obj'[p] = obj[p]
      /\ obj'[o].life = "live" /\ obj'[o].wrapper /\ ~obj'[o].server
  BY <1>0, <1>1, <1>3 DEF Types, NoObject, ObjState
<1>5. /\ th' \in [Obj -> Threads] /\ th'[o].client.pc \in {"idle", "add"} /\ th'[o].queue = th[o].queue
      /\ \A p \in Obj \ {o} : th'[p] = th[p]
  <2>1. CASE th' = th
    BY <1>0, <1>1, <2>1 DEF Types, ObjectOK, Absent
  <2>2. CASE th' = Go(o, "client", "add", TRUE)
    <3>1. th' \in [Obj -> Threads] /\ th'[o].client.pc = "add" /\ th'[o].queue = th[o].queue
          /\ \A p \in Obj \ {o} : th'[p] = th[p]
      BY <1>1, <2>2, ClientGoes DEF Busy
    <3> QED BY <3>1
  <2> QED BY <1>1, <2>1, <2>2
<1>6. Types' /\ OneOfAKind' /\ (~agent'.up => agent'.list = {})
  BY <1>1, <1>4, <1>5 DEF Types, OneOfAKind, ServicesInv, AgentOK
<1>7. /\ th[o].queue.pc = "idle" /\ todo[o] = <<>> /\ o \notin unseen /\ told[o] # "gone"
      /\ (o \in Owners(agent) => o \in exited)
  BY <1>0, <1>1 DEF ObjectOK, Absent, Owned
<1>8. o \notin exited /\ Blocks(todo[o], th'[o].client.pc) /\ ~In(todo[o], "start")
  BY <1>0, <1>1, <1>5, <1>7, EmptyQueue DEF ObjectOK, Owned, Waiting
<1>9. ObjectOK(o)'
  BY <1>1, <1>4, <1>5, <1>7, <1>8 DEF ObjectOK, Absent, Threaded, Followed, Started, Owned, Gone, Busy
<1>10. \A p \in Obj \ {o} : Same(p)
  BY <1>1, <1>4, <1>5 DEF Same
<1> QED BY <1>6, <1>9, <1>10, OneObject

\* DHCPv6PDServiceResume
LEMMA ResumeStep ==
    ASSUME ServicesInv, NEW o \in Obj, DHCPv6PDServiceResume(o)
    PROVE  ServicesInv'
<1>0. /\ obj[o].life = "live" /\ ~obj[o].server /\ th[o].client.pc = "idle"
      /\ obj' = [obj EXCEPT ![o].listening = TRUE] /\ told' = [told EXCEPT ![o] = "nothing"]
      /\ th' = Go(o, "client", "add", TRUE) /\ UNCHANGED <<todo, agent, unseen, exited, lost>>
  BY DEF DHCPv6PDServiceResume, At
<1>1. Types /\ OneOfAKind /\ ObjectOK(o) /\ obj[o] \in ObjState
  BY DEF ServicesInv, Types
<1>2. PICK x : x = [obj[o] EXCEPT !.listening = TRUE]
  OBVIOUS
<1>3. /\ x \in ObjState /\ x.life = obj[o].life /\ x.server = obj[o].server
      /\ x.wrapper = obj[o].wrapper /\ x.need_reconnect = obj[o].need_reconnect
  BY <1>1, <1>2 DEF ObjState
<1>4. obj' = [obj EXCEPT ![o] = x] /\ obj \in [Obj -> ObjState]
  BY <1>0, <1>1, <1>2 DEF Types
<1>5. obj' \in [Obj -> ObjState] /\ obj'[o] = x /\ \A p \in Obj \ {o} : obj'[p] = obj[p]
  BY <1>3, <1>4
<1>6. /\ th' \in [Obj -> Threads] /\ th'[o].client.pc = "add" /\ th'[o].queue = th[o].queue
      /\ \A p \in Obj \ {o} : th'[p] = th[p]
  BY <1>0, <1>1, ClientGoes DEF Busy
<1>7. told'[o] = "nothing" /\ \A p \in Obj \ {o} : told'[p] = told[p]
  BY <1>0, <1>1 DEF Types
<1>8. Types' /\ OneOfAKind' /\ (~agent'.up => agent'.list = {})
  BY <1>0, <1>1, <1>5, <1>6 DEF Types, OneOfAKind, ServicesInv, AgentOK
<1>9. Blocks(todo[o], "add")
  BY <1>0, <1>1, SameBlocks DEF ObjectOK, Threaded, Waiting
<1>10. ObjectOK(o)'
  BY <1>0, <1>1, <1>3, <1>5, <1>6, <1>7, <1>9
     DEF ObjectOK, Absent, Threaded, Followed, Started, Owned, Gone, Busy
<1>11. \A p \in Obj \ {o} : Same(p)
  BY <1>0, <1>5, <1>6, <1>7 DEF Same
<1> QED BY <1>8, <1>10, <1>11, OneObject

\* A key of the store has changed, and the release of the last reference.
LEMMA AsksStep ==
    ASSUME ServicesInv, NEW o \in Obj, DHCPv6PDServiceStoreChange(o) \/ Deallocate(o)
    PROVE  ServicesInv'
<1>0. /\ obj[o].life = "live" /\ th[o].client.pc = "idle"
      /\ UNCHANGED <<obj, agent, unseen, exited, lost>>
  BY DEF DHCPv6PDServiceStoreChange, Deallocate, At
<1>1. Types /\ OneOfAKind /\ ObjectOK(o) /\ todo[o] \in Seq(Block)
  BY DEF ServicesInv, Types
<1>2. CASE told' = [told EXCEPT ![o] = "prefix"] /\ UNCHANGED <<th, todo>>
  <2>1. told'[o] = "prefix" /\ \A p \in Obj \ {o} : told'[p] = told[p]
    BY <1>1, <1>2 DEF Types
  <2>2. Types' /\ OneOfAKind' /\ (~agent'.up => agent'.list = {})
    BY <1>0, <1>1, <1>2 DEF Types, OneOfAKind, ServicesInv, AgentOK
  <2>3. ObjectOK(o)'
    BY <1>0, <1>1, <1>2, <2>1 DEF ObjectOK, Absent, Threaded, Followed, Started, Owned, Gone
  <2>4. \A p \in Obj \ {o} : Same(p)
    BY <1>0, <1>2, <2>1 DEF Same
  <2> QED BY <2>2, <2>3, <2>4, OneObject
<1>3. ASSUME NEW b \in {"valid", "clear"}, NEW pc \in Waiting, b = "clear" <=> pc = "clears",
             todo' = [todo EXCEPT ![o] = Append(@, b)], th' = Go(o, "client", pc, TRUE), told' = told
      PROVE  ServicesInv'
  <2> DEFINE q == Append(todo[o], b)
  <2>1. /\ q \in Seq(Block)
        /\ \A x : In(q, x) <=> In(todo[o], x) \/ x = b
        /\ todo[o] # <<>> => q # <<>> /\ Head(q) = Head(todo[o])
    BY <1>1, <1>3, Appended DEF Block
  <2>2. Blocks(q, pc)
    BY <1>0, <1>1, <1>3, AppendedBlocks DEF ObjectOK, Threaded, Waiting
  <2>3. todo' = [todo EXCEPT ![o] = q]
    BY <1>3
  <2> HIDE DEF q
  <2>4. todo' \in [Obj -> Seq(Block)] /\ todo'[o] = q /\ \A p \in Obj \ {o} : todo'[p] = todo[p]
    BY <1>1, <2>1, <2>3 DEF Types
  <2>5. /\ th' \in [Obj -> Threads] /\ th'[o].client.pc = pc /\ th'[o].queue = th[o].queue
        /\ \A p \in Obj \ {o} : th'[p] = th[p]
    BY <1>1, <1>3, ClientGoes
  <2>6. Types' /\ OneOfAKind' /\ (~agent'.up => agent'.list = {})
    BY <1>0, <1>1, <1>3, <2>4, <2>5 DEF Types, OneOfAKind, ServicesInv, AgentOK
  <2>7. ObjectOK(o)'
    BY <1>0, <1>1, <1>3, <2>1, <2>2, <2>4, <2>5
       DEF ObjectOK, Absent, Threaded, Followed, Started, Owned, Gone, Busy, Waiting
  <2>8. \A p \in Obj \ {o} : Same(p)
    BY <1>0, <1>3, <2>4, <2>5 DEF Same
  <2> QED BY <2>6, <2>7, <2>8, OneObject
<1>4. CASE Deallocate(o)
  BY <1>3, <1>4 DEF Deallocate, Waiting
<1>5. CASE DHCPv6PDServiceStoreChange(o)
  BY <1>2, <1>3, <1>5 DEF DHCPv6PDServiceStoreChange, Waiting
<1> QED BY <1>4, <1>5

\* The queue has done the block at its head.
LEMMA HeadDone ==
    ASSUME Types, NEW o \in Obj, ObjectOK(o), todo[o] # <<>>, Done(o)
    PROVE  /\ todo' \in [Obj -> Seq(Block)] /\ todo'[o] = Tail(todo[o])
           /\ \A p \in Obj \ {o} : todo'[p] = todo[p]
           /\ \A x : In(todo[o], x) <=> x = Head(todo[o]) \/ In(todo'[o], x)
           /\ Head(todo[o]) = "reconnect" => Blocks(todo'[o], th[o].client.pc)
           /\ Head(todo[o]) # "reconnect" =>
                /\ th[o].client.pc \in Waiting /\ (th[o].client.pc = "clears" <=> Head(todo[o]) = "clear")
                /\ \A x : In(todo'[o], x) => x = "reconnect"
                /\ \A d : d \notin Waiting => Blocks(todo'[o], d)
<1>1. todo \in [Obj -> Seq(Block)] /\ todo[o] \in Seq(Block) /\ Blocks(todo[o], th[o].client.pc)
  BY DEF Types, ObjectOK, Threaded
<1>2. PICK q : q = Tail(todo[o])
  OBVIOUS
<1>3. q \in Seq(Block) /\ \A x : In(todo[o], x) <=> x = Head(todo[o]) \/ In(q, x)
  BY <1>1, <1>2, Taken
<1>4. todo' = [todo EXCEPT ![o] = q]
  BY <1>2 DEF Done
<1>5. todo' \in [Obj -> Seq(Block)] /\ todo'[o] = q /\ \A p \in Obj \ {o} : todo'[p] = todo[p]
  BY <1>1, <1>3, <1>4
<1>6. /\ Head(todo[o]) = "reconnect" => Blocks(q, th[o].client.pc)
      /\ Head(todo[o]) # "reconnect" =>
           /\ th[o].client.pc \in Waiting /\ (th[o].client.pc = "clears" <=> Head(todo[o]) = "clear")
           /\ \A x : In(q, x) => x = "reconnect"
           /\ \A d : d \notin Waiting => Blocks(q, d)
  BY <1>1, <1>2, TakenBlocks
<1> QED BY <1>2, <1>3, <1>5, <1>6

\* The object re-creates its service, or leaves that to its start.
LEMMA ReconnectStep ==
    ASSUME ServicesInv, NEW o \in Obj, IPConfigurationServiceStoreReconnect(o)
    PROVE  ServicesInv'
<1>0. /\ th[o].queue.pc = "idle" /\ todo[o] # <<>> /\ Head(todo[o]) = "reconnect"
      /\ UNCHANGED <<agent, unseen, exited, lost, told>>
  BY DEF IPConfigurationServiceStoreReconnect, Runs, At
<1>1. Types /\ OneOfAKind /\ ObjectOK(o) /\ obj[o] \in ObjState /\ obj \in [Obj -> ObjState]
  BY DEF ServicesInv, Types
<1>2. In(todo[o], "reconnect")
  <2>1. todo[o] \in Seq(Block)
    BY <1>1 DEF Types
  <2> QED BY <1>0, <2>1, Taken
<1>3. obj[o].life = "live" /\ told[o] # "gone"
  BY <1>0, <1>1, <1>2 DEF ObjectOK, Absent, Gone
<1>4. CASE ~obj[o].wrapper /\ Done(o) /\ UNCHANGED <<obj, th>>
  <2>1. /\ todo' \in [Obj -> Seq(Block)] /\ \A p \in Obj \ {o} : todo'[p] = todo[p]
        /\ \A x : In(todo[o], x) <=> x = "reconnect" \/ In(todo'[o], x)
        /\ Blocks(todo'[o], th[o].client.pc)
    BY <1>0, <1>1, <1>4, HeadDone
  <2>2. Types' /\ OneOfAKind' /\ (~agent'.up => agent'.list = {})
    BY <1>0, <1>1, <1>4, <2>1 DEF Types, OneOfAKind, ServicesInv, AgentOK
  <2>3. ObjectOK(o)'
    BY <1>0, <1>1, <1>3, <1>4, <2>1 DEF ObjectOK, Absent, Threaded, Followed, Started, Owned, Gone
  <2>4. \A p \in Obj \ {o} : Same(p)
    BY <1>0, <1>4, <2>1 DEF Same
  <2> QED BY <2>2, <2>3, <2>4, OneObject
<1>5. CASE /\ obj[o].wrapper /\ ~obj[o].server
           /\ obj' = [obj EXCEPT ![o].need_reconnect = TRUE] /\ Done(o) /\ UNCHANGED th
  <2>1. /\ todo' \in [Obj -> Seq(Block)] /\ \A p \in Obj \ {o} : todo'[p] = todo[p]
        /\ \A x : In(todo[o], x) <=> x = "reconnect" \/ In(todo'[o], x)
        /\ Blocks(todo'[o], th[o].client.pc)
    BY <1>0, <1>1, <1>5, HeadDone
  <2>2. PICK x : x = [obj[o] EXCEPT !.need_reconnect = TRUE]
    OBVIOUS
  <2>3. /\ x \in ObjState /\ x.life = obj[o].life /\ x.server = obj[o].server
        /\ x.wrapper = obj[o].wrapper /\ x.need_reconnect
    BY <1>1, <2>2 DEF ObjState
  <2>4. obj' = [obj EXCEPT ![o] = x]
    BY <1>5, <2>2
  <2>5. obj' \in [Obj -> ObjState] /\ obj'[o] = x /\ \A p \in Obj \ {o} : obj'[p] = obj[p]
    BY <1>1, <2>3, <2>4
  <2>6. Types' /\ OneOfAKind' /\ (~agent'.up => agent'.list = {})
    BY <1>0, <1>1, <1>5, <2>1, <2>5 DEF Types, OneOfAKind, ServicesInv, AgentOK
  <2>7. ObjectOK(o)'
    BY <1>0, <1>1, <1>3, <1>5, <2>1, <2>3, <2>5
       DEF ObjectOK, Absent, Threaded, Followed, Started, Owned, Gone
  <2>8. \A p \in Obj \ {o} : Same(p)
    BY <1>0, <1>5, <2>1, <2>5 DEF Same
  <2> QED BY <2>6, <2>7, <2>8, OneObject
<1>6. CASE /\ obj[o].wrapper /\ obj[o].server
           /\ obj' = [obj EXCEPT ![o].config = remove_clear_state(@)]
           /\ th' = Go(o, "queue", "add", TRUE) /\ UNCHANGED todo
  <2>1. PICK c : c = remove_clear_state(obj[o].config)
    OBVIOUS
  <2>2. PICK x : x = [obj[o] EXCEPT !.config = c]
    OBVIOUS
  <2>3. c \in Config
    BY <1>1, <2>1 DEF remove_clear_state, ObjState, Config
  <2>4. /\ x \in ObjState /\ x.life = obj[o].life /\ x.server = obj[o].server
        /\ x.wrapper = obj[o].wrapper /\ x.need_reconnect = obj[o].need_reconnect
    BY <1>1, <2>2, <2>3 DEF ObjState
  <2>5. obj' = [obj EXCEPT ![o] = x]
    BY <1>6, <2>1, <2>2
  <2>6. obj' \in [Obj -> ObjState] /\ obj'[o] = x /\ \A p \in Obj \ {o} : obj'[p] = obj[p]
    BY <1>1, <2>4, <2>5
  <2>7. /\ th' \in [Obj -> Threads] /\ th'[o].queue.pc = "add" /\ th'[o].client = th[o].client
        /\ \A p \in Obj \ {o} : th'[p] = th[p]
    BY <1>1, <1>6, QueueGoes DEF Busy
  <2>8. Types' /\ OneOfAKind' /\ (~agent'.up => agent'.list = {})
    BY <1>0, <1>1, <1>6, <2>6, <2>7 DEF Types, OneOfAKind, ServicesInv, AgentOK
  <2>9. ObjectOK(o)'
    BY <1>0, <1>1, <1>3, <1>6, <2>4, <2>6, <2>7
       DEF ObjectOK, Absent, Threaded, Followed, Started, Owned, Gone
  <2>10. \A p \in Obj \ {o} : Same(p)
    BY <1>0, <1>6, <2>6, <2>7 DEF Same
  <2> QED BY <2>8, <2>9, <2>10, OneObject
<1> QED BY <1>4, <1>5, <1>6 DEF IPConfigurationServiceStoreReconnect

\* The object is started, for the client that waits.
LEMMA StartStep ==
    ASSUME ServicesInv, NEW o \in Obj, IPConfigurationServiceStart(o)
    PROVE  ServicesInv'
<1>0. /\ th[o].queue.pc = "idle" /\ todo[o] # <<>> /\ Head(todo[o]) = "start"
      /\ UNCHANGED <<agent, unseen, exited, lost, told>> /\ obj' = [obj EXCEPT ![o].server = TRUE]
  BY DEF IPConfigurationServiceStart, Runs, At
<1>1. /\ Types /\ OneOfAKind /\ ObjectOK(o) /\ obj[o] \in ObjState /\ obj \in [Obj -> ObjState]
      /\ todo[o] \in Seq(Block)
  BY DEF ServicesInv, Types
<1>2. PICK x : x = [obj[o] EXCEPT !.server = TRUE]
  OBVIOUS
<1>3. /\ x \in ObjState /\ x.life = obj[o].life /\ x.server
      /\ x.wrapper = obj[o].wrapper /\ x.need_reconnect = obj[o].need_reconnect
  BY <1>1, <1>2 DEF ObjState
<1>4. obj' = [obj EXCEPT ![o] = x]
  BY <1>0, <1>2
<1>5. obj' \in [Obj -> ObjState] /\ obj'[o] = x /\ \A p \in Obj \ {o} : obj'[p] = obj[p]
  BY <1>1, <1>3, <1>4
<1>6. In(todo[o], "start") /\ th[o].client.pc = "waits"
  BY <1>0, <1>1, Taken, TakenBlocks DEF ObjectOK, Threaded, Waiting
<1>7. obj[o].life = "live" /\ obj[o].wrapper /\ told[o] # "gone"
  BY <1>0, <1>1, <1>6 DEF ObjectOK, Absent, Gone, Threaded
<1>8. CASE obj[o].need_reconnect /\ th' = Go(o, "queue", "add", TRUE) /\ UNCHANGED todo
  <2>1. /\ th' \in [Obj -> Threads] /\ th'[o].queue.pc = "add" /\ th'[o].client = th[o].client
        /\ \A p \in Obj \ {o} : th'[p] = th[p]
    BY <1>1, <1>8, QueueGoes DEF Busy
  <2>2. Types' /\ OneOfAKind' /\ (~agent'.up => agent'.list = {})
    BY <1>0, <1>1, <1>5, <1>8, <2>1 DEF Types, OneOfAKind, ServicesInv, AgentOK
  <2>3. ObjectOK(o)'
    BY <1>0, <1>1, <1>3, <1>5, <1>6, <1>7, <1>8, <2>1
       DEF ObjectOK, Absent, Threaded, Followed, Started, Owned, Gone, Busy
  <2>4. \A p \in Obj \ {o} : Same(p)
    BY <1>0, <1>5, <1>8, <2>1 DEF Same
  <2> QED BY <2>2, <2>3, <2>4, OneObject
<1>9. CASE ~obj[o].need_reconnect /\ th' = Go(o, "client", "idle", TRUE) /\ Done(o)
  <2>1. /\ th' \in [Obj -> Threads] /\ th'[o].client.pc = "idle" /\ th'[o].queue = th[o].queue
        /\ \A p \in Obj \ {o} : th'[p] = th[p]
    BY <1>1, <1>9, ClientGoes
  <2>2. /\ todo' \in [Obj -> Seq(Block)] /\ \A p \in Obj \ {o} : todo'[p] = todo[p]
        /\ \A x1 : In(todo[o], x1) <=> x1 = "start" \/ In(todo'[o], x1)
        /\ \A x1 : In(todo'[o], x1) => x1 = "reconnect"
        /\ \A d : d \notin Waiting => Blocks(todo'[o], d)
    BY <1>0, <1>1, <1>9, HeadDone
  <2>3. Types' /\ OneOfAKind' /\ (~agent'.up => agent'.list = {})
    BY <1>0, <1>1, <1>5, <2>1, <2>2 DEF Types, OneOfAKind, ServicesInv, AgentOK
  <2>4. ObjectOK(o)'
    BY <1>0, <1>1, <1>3, <1>5, <1>6, <1>7, <1>9, <2>1, <2>2
       DEF ObjectOK, Absent, Threaded, Followed, Started, Owned, Gone, Busy, Waiting
  <2>5. \A p \in Obj \ {o} : Same(p)
    BY <1>0, <1>5, <2>1, <2>2 DEF Same
  <2> QED BY <2>3, <2>4, <2>5, OneObject
<1> QED BY <1>8, <1>9 DEF IPConfigurationServiceStart

\* The handler asks whether its service is there, behind what the queue has.
LEMMA ValidStep ==
    ASSUME ServicesInv, NEW o \in Obj, IPConfigurationServiceIsValid(o)
    PROVE  ServicesInv'
<1>0. /\ th[o].queue.pc = "idle" /\ todo[o] # <<>> /\ Head(todo[o]) = "valid" /\ Done(o)
      /\ told' = [told EXCEPT ![o] = Answer(o)] /\ th' = Go(o, "client", "idle", TRUE)
      /\ UNCHANGED <<obj, agent, unseen, exited, lost>>
  BY DEF IPConfigurationServiceIsValid, Runs, At
<1>1. Types /\ OneOfAKind /\ ObjectOK(o) /\ todo[o] \in Seq(Block)
  BY DEF ServicesInv, Types
<1>2. /\ todo' \in [Obj -> Seq(Block)] /\ \A p \in Obj \ {o} : todo'[p] = todo[p]
      /\ \A x : In(todo[o], x) <=> x = "valid" \/ In(todo'[o], x)
      /\ \A x : In(todo'[o], x) => x = "reconnect"
      /\ \A d : d \notin Waiting => Blocks(todo'[o], d)
      /\ th[o].client.pc \in Waiting /\ todo'[o] = Tail(todo[o])
  BY <1>0, <1>1, HeadDone
<1>3. obj[o].life = "live" /\ obj[o].wrapper
  <2>1. th[o].client.pc = "waits"
    BY <1>0, <1>1, TakenBlocks DEF ObjectOK, Threaded, Waiting
  <2> QED BY <2>1, <1>1 DEF ObjectOK, Absent, Threaded
<1>4. /\ th' \in [Obj -> Threads] /\ th'[o].client.pc = "idle" /\ th'[o].queue = th[o].queue
      /\ \A p \in Obj \ {o} : th'[p] = th[p]
  BY <1>0, <1>1, ClientGoes
<1>5. /\ told' \in [Obj -> {"nothing", "failed", "prefix", "valid", "restarting", "gone"}]
      /\ told'[o] = Answer(o) /\ \A p \in Obj \ {o} : told'[p] = told[p]
  BY <1>0, <1>1 DEF Types, Answer
<1>6. Answer(o) = "gone" => o \notin Owners(agent) /\ o \notin unseen /\ ~In(todo'[o], "reconnect")
  <2>1. Answer(o) = "gone" => S_find_service_with_id(agent, o) = {} /\ ~Restarting(o)
    BY DEF Answer, Restarting
  <2>2. S_find_service_with_id(agent, o) = {} => o \notin Owners(agent)
    BY DEF S_find_service_with_id, Owners
  <2>3. In(todo'[o], "reconnect") => "reconnect" \in Range(Tail(todo[o]))
    BY <1>2 DEF In, Range
  <2> QED BY <2>1, <2>2, <2>3 DEF Restarting
<1>7. Types' /\ OneOfAKind' /\ (~agent'.up => agent'.list = {})
  BY <1>0, <1>1, <1>2, <1>4, <1>5 DEF Types, OneOfAKind, ServicesInv, AgentOK
<1>8. ObjectOK(o)'
  <2>1. Absent(o)' /\ Threaded(o)' /\ Followed(o)' /\ Owned(o)'
    BY <1>0, <1>1, <1>2, <1>3, <1>4
       DEF ObjectOK, Absent, Threaded, Followed, Started, Owned, Busy, Waiting
  <2>2. Gone(o)'
    BY <1>0, <1>2, <1>4, <1>5, <1>6 DEF Gone, Busy
  <2> QED BY <2>1, <2>2 DEF ObjectOK
<1>9. \A p \in Obj \ {o} : Same(p)
  BY <1>0, <1>2, <1>4, <1>5 DEF Same
<1> QED BY <1>7, <1>8, <1>9, OneObject

\* The queue forgets the object.
LEMMA ClearStep ==
    ASSUME ServicesInv, NEW o \in Obj, ObjectWrapperClearObject(o)
    PROVE  ServicesInv'
<1>0. /\ th[o].queue.pc = "idle" /\ todo[o] # <<>> /\ Head(todo[o]) = "clear" /\ Done(o)
      /\ th' = Go(o, "client", "removes", TRUE) /\ obj' = [obj EXCEPT ![o].wrapper = FALSE]
      /\ UNCHANGED <<agent, unseen, exited, lost, told>>
  BY DEF ObjectWrapperClearObject, Runs, At
<1>1. /\ Types /\ OneOfAKind /\ ObjectOK(o) /\ todo[o] \in Seq(Block)
      /\ obj[o] \in ObjState /\ obj \in [Obj -> ObjState]
  BY DEF ServicesInv, Types
<1>2. /\ todo' \in [Obj -> Seq(Block)] /\ \A p \in Obj \ {o} : todo'[p] = todo[p]
      /\ \A x : In(todo[o], x) <=> x = "clear" \/ In(todo'[o], x)
      /\ \A d : d \notin Waiting => Blocks(todo'[o], d)
      /\ th[o].client.pc \in Waiting
  BY <1>0, <1>1, HeadDone
<1>3. /\ th' \in [Obj -> Threads] /\ th'[o].client.pc = "removes" /\ th'[o].queue = th[o].queue
      /\ \A p \in Obj \ {o} : th'[p] = th[p]
  BY <1>0, <1>1, ClientGoes
<1>4. PICK x : x = [obj[o] EXCEPT !.wrapper = FALSE]
  OBVIOUS
<1>5. /\ x \in ObjState /\ x.life = obj[o].life /\ x.server = obj[o].server
      /\ ~x.wrapper /\ x.need_reconnect = obj[o].need_reconnect
  BY <1>1, <1>4 DEF ObjState
<1>6. obj' = [obj EXCEPT ![o] = x]
  BY <1>0, <1>4
<1>7. obj' \in [Obj -> ObjState] /\ obj'[o] = x /\ \A p \in Obj \ {o} : obj'[p] = obj[p]
  BY <1>1, <1>5, <1>6
<1>8. Types' /\ OneOfAKind' /\ (~agent'.up => agent'.list = {})
  BY <1>0, <1>1, <1>2, <1>3, <1>7 DEF Types, OneOfAKind, ServicesInv, AgentOK
<1>9. obj[o].life = "live"
  BY <1>1, <1>2 DEF ObjectOK, Absent, Waiting
<1>10. ObjectOK(o)'
  BY <1>0, <1>1, <1>2, <1>3, <1>5, <1>7, <1>9
     DEF ObjectOK, Absent, Threaded, Followed, Started, Owned, Gone, Busy, Waiting
<1>11. \A p \in Obj \ {o} : Same(p)
  BY <1>0, <1>2, <1>3, <1>7 DEF Same
<1> QED BY <1>8, <1>10, <1>11, OneObject

\* The agent with some services fewer.
LEMMA FewerServices ==
    ASSUME NEW a, AgentOK(a), NEW F
    PROVE  LET b == [a EXCEPT !.list = @ \ F]
           IN  /\ AgentOK(b) /\ b.up = a.up /\ b.list = a.list \ F /\ Owners(b) \subseteq Owners(a)
               /\ \A o : o \in Owners(a) \ Owners(b) => \E s \in F : s.id = o
<1>1. PICK l : l = a.list \ F
  OBVIOUS
<1>2. PICK b : b = [a EXCEPT !.list = l]
  OBVIOUS
<1>3. b = [up |-> a.up, present |-> a.present, list |-> l]
  BY <1>2 DEF AgentOK
<1>4. b.up = a.up /\ b.present = a.present /\ b.list = l
  BY <1>3
<1>5. Owners(b) \subseteq Owners(a) /\ \A o : o \in Owners(a) \ Owners(b) => \E s \in F : s.id = o
  BY <1>1, <1>4 DEF Owners
<1>6. AgentOK(b)
  BY <1>3, <1>4, <1>5 DEF AgentOK
<1>7. b = [a EXCEPT !.list = @ \ F]
  BY <1>1, <1>2
<1> QED BY <1>1, <1>4, <1>5, <1>6, <1>7

\* The last thing a client does: the agent removes the service of an object
\* that was started, and there is none of one that was not.
LEMMA RemoveStep ==
    ASSUME ServicesInv, NEW o \in Obj, RemoveService(o)
    PROVE  ServicesInv'
<1>0. /\ th[o].client.pc = "removes" /\ th' = Go(o, "client", "idle", TRUE)
      /\ obj' = [obj EXCEPT ![o] = [NoObject EXCEPT !.life = "gone", !.config = obj[o].config]]
      /\ unseen' = unseen \ {o} /\ told' = [told EXCEPT ![o] = DHCPv6PDServiceInvalidate(o)]
      /\ todo' = [todo EXCEPT ![o] = IF th[o].queue.pc = "idle" THEN <<>> ELSE todo[o]]
      /\ agent' = IF agent.up /\ obj[o].server THEN remove_service_with_id(agent, o) ELSE agent
      /\ UNCHANGED <<exited, lost>>
  BY DEF RemoveService, At
<1>1. /\ Types /\ OneOfAKind /\ ObjectOK(o) /\ obj[o] \in ObjState /\ obj \in [Obj -> ObjState]
      /\ AgentOK(agent) /\ (~agent.up => agent.list = {})
  BY DEF ServicesInv, Types
<1>2. obj[o].life = "live" /\ th[o].queue.pc = "idle" /\ ~In(todo[o], "start")
  BY <1>0, <1>1 DEF ObjectOK, Absent, Threaded, Blocks, In, Waiting
<1>3. PICK c \in Config : c = obj[o].config
  BY <1>1 DEF ObjState
<1>4. /\ obj' \in [Obj -> ObjState] /\ \A p \in Obj \ {o} : obj'[p] = obj[p]
      /\ obj'[o].life = "gone" /\ ~obj'[o].server
  BY <1>0, <1>1, <1>3 DEF NoObject, ObjState
<1>5. /\ th' \in [Obj -> Threads] /\ th'[o].client.pc = "idle" /\ th'[o].queue = th[o].queue
      /\ \A p \in Obj \ {o} : th'[p] = th[p]
  BY <1>0, <1>1, ClientGoes
<1>6. todo' \in [Obj -> Seq(Block)] /\ todo'[o] = <<>> /\ \A p \in Obj \ {o} : todo'[p] = todo[p]
  BY <1>0, <1>1, <1>2, EmptyQueue DEF Types, Waiting
<1>7. /\ told' \in [Obj -> {"nothing", "failed", "prefix", "valid", "restarting", "gone"}]
      /\ told'[o] # "gone" /\ \A p \in Obj \ {o} : told'[p] = told[p]
  <2>1. PICK x \in {"nothing", "failed"} : told' = [told EXCEPT ![o] = x]
    BY <1>0 DEF DHCPv6PDServiceInvalidate
  <2> QED BY <1>1, <2>1 DEF Types
<1>8. /\ AgentOK(agent') /\ agent'.up = agent.up /\ agent'.list \subseteq agent.list
      /\ Owners(agent') = Owners(agent) \ {o}
  <2>1. CASE ~agent.up \/ ~obj[o].server \/ o \notin Allowed
    <3>1. agent' = agent
      BY <1>0, <2>1 DEF remove_service_with_id
    <3>2. o \notin Owners(agent)
      BY <1>1, <1>2, <2>1 DEF ObjectOK, Owned, Started, Owners
    <3> QED BY <1>1, <3>1, <3>2
  <2>2. CASE agent.up /\ obj[o].server /\ o \in Allowed
    <3> DEFINE F == S_find_service_with_id(agent, o)
    <3>1. agent' = [agent EXCEPT !.list = @ \ F]
      BY <1>0, <2>2 DEF remove_service_with_id
    <3>2. F = {s \in agent.list : s.id = o}
      BY DEF S_find_service_with_id
    <3> HIDE DEF F
    <3>3. /\ AgentOK(agent') /\ agent'.up = agent.up /\ agent'.list = agent.list \ F
          /\ Owners(agent') \subseteq Owners(agent)
      BY <1>1, <3>1, FewerServices
    <3>4. Owners(agent') = Owners(agent) \ {o}
      BY <3>2, <3>3 DEF Owners
    <3> QED BY <3>3, <3>4
  <2> QED BY <2>1, <2>2
<1>9. Types' /\ OneOfAKind' /\ (~agent'.up => agent'.list = {})
  BY <1>0, <1>1, <1>4, <1>5, <1>6, <1>7, <1>8 DEF Types, OneOfAKind
<1>10. Blocks(todo'[o], "idle") /\ ~In(todo'[o], "reconnect")
  <2>1. "idle" \notin Waiting
    BY DEF Waiting
  <2>2. Blocks(<<>>, "idle") /\ ~In(<<>>, "reconnect")
    BY <2>1, EmptyQueue
  <2> QED BY <1>6, <2>2
<1>11. ObjectOK(o)'
  BY <1>0, <1>1, <1>2, <1>4, <1>5, <1>6, <1>7, <1>8, <1>10
     DEF ObjectOK, Absent, Threaded, Followed, Started, Owned, Gone, Busy
<1>12. \A p \in Obj \ {o} : Same(p)
  BY <1>0, <1>4, <1>5, <1>6, <1>7, <1>8 DEF Same
<1> QED BY <1>9, <1>11, <1>12, OneObject

\* A process ends in the middle of whatever it does.
LEMMA ExitStep ==
    ASSUME ServicesInv, NEW o \in Obj, ProcessExits(o)
    PROVE  ServicesInv'
<1>0. /\ obj[o].life = "live" /\ obj' = [obj EXCEPT ![o] = [NoObject EXCEPT !.life = "gone"]]
      /\ th' = [th EXCEPT ![o] = [client |-> Idle, queue |-> Idle]]
      /\ todo' = [todo EXCEPT ![o] = <<>>] /\ unseen' = unseen \ {o}
      /\ told' = [told EXCEPT ![o] = "nothing"]
      /\ exited' = exited \cup ({o} \cap Owners(agent)) /\ UNCHANGED <<agent, lost>>
  BY DEF ProcessExits
<1>1. Types /\ OneOfAKind /\ ObjectOK(o) /\ obj \in [Obj -> ObjState]
  BY DEF ServicesInv, Types
<1>2. /\ obj' \in [Obj -> ObjState] /\ \A p \in Obj \ {o} : obj'[p] = obj[p]
      /\ obj'[o].life = "gone"
  <2>1. PICK x : x = [NoObject EXCEPT !.life = "gone"]
    OBVIOUS
  <2>2. x \in ObjState /\ x.life = "gone"
    BY <2>1 DEF NoObject, NoConfig, ObjState, Config
  <2> QED BY <1>0, <1>1, <2>1, <2>2
<1>3. /\ th' \in [Obj -> Threads] /\ th'[o].client.pc = "idle" /\ th'[o].queue.pc = "idle"
      /\ \A p \in Obj \ {o} : th'[p] = th[p]
  <2>1. PICK t : t = [client |-> Idle, queue |-> Idle]
    OBVIOUS
  <2>2. t \in Threads /\ t.client.pc = "idle" /\ t.queue.pc = "idle"
    BY <2>1 DEF Threads, Thread, Idle
  <2> QED BY <1>0, <1>1, <2>1, <2>2 DEF Types
<1>4. todo' \in [Obj -> Seq(Block)] /\ todo'[o] = <<>> /\ \A p \in Obj \ {o} : todo'[p] = todo[p]
  BY <1>0, <1>1, EmptyQueue DEF Types, Waiting
<1>5. told'[o] = "nothing" /\ \A p \in Obj \ {o} : told'[p] = told[p]
  BY <1>0, <1>1 DEF Types
<1>6. Types' /\ OneOfAKind' /\ (~agent'.up => agent'.list = {})
  BY <1>0, <1>1, <1>2, <1>3, <1>4, <1>5 DEF Types, OneOfAKind, ServicesInv, AgentOK
<1>7. Blocks(todo'[o], "idle") /\ ~In(todo'[o], "reconnect")
  <2>1. "idle" \notin Waiting
    BY DEF Waiting
  <2>2. Blocks(<<>>, "idle") /\ ~In(<<>>, "reconnect")
    BY <2>1, EmptyQueue
  <2> QED BY <1>4, <2>2
<1>8. ObjectOK(o)'
  BY <1>0, <1>1, <1>2, <1>3, <1>4, <1>5, <1>7
     DEF ObjectOK, Absent, Threaded, Followed, Started, Owned, Gone, Busy
<1>9. \A p \in Obj \ {o} : Same(p)
  BY <1>0, <1>2, <1>3, <1>4, <1>5 DEF Same
<1> QED BY <1>6, <1>8, <1>9, OneObject

\* The agent sees that a process has ended.
LEMMA ProcessExitStep ==
    ASSUME ServicesInv, ServiceHandleProcessExit
    PROVE  ServicesInv'
<1>0. PICK o \in exited :
        /\ agent' = [agent EXCEPT !.list = @ \ S_find_service_with_id(agent, o)]
        /\ exited' = exited \ {o} /\ UNCHANGED <<obj, th, todo, unseen, lost, told>>
  BY DEF ServiceHandleProcessExit
<1>1. /\ Types /\ OneOfAKind /\ o \in Obj /\ ObjectOK(o) /\ AgentOK(agent)
      /\ (~agent.up => agent.list = {})
  BY DEF ServicesInv, Types
<1> DEFINE F == S_find_service_with_id(agent, o)
<1>2. agent' = [agent EXCEPT !.list = @ \ F] /\ F = {s \in agent.list : s.id = o}
  BY <1>0 DEF S_find_service_with_id
<1> HIDE DEF F
<1>3. /\ AgentOK(agent') /\ agent'.up = agent.up /\ agent'.list = agent.list \ F
  BY <1>1, <1>2, FewerServices
<1>4. Owners(agent') = Owners(agent) \ {o}
  BY <1>2, <1>3 DEF Owners
<1>5. Types' /\ OneOfAKind' /\ (~agent'.up => agent'.list = {})
  BY <1>0, <1>1, <1>3 DEF Types, OneOfAKind
<1>6. obj[o].life = "gone"
  BY <1>0, <1>1 DEF ObjectOK, Owned
<1>7. ObjectOK(o)'
  BY <1>0, <1>1, <1>4, <1>6 DEF ObjectOK, Absent, Threaded, Followed, Started, Owned, Gone
<1>8. \A p \in Obj \ {o} : Same(p)
  BY <1>0, <1>3, <1>4 DEF Same
<1> QED BY <1>1, <1>5, <1>7, <1>8, OneObject

\* The interface comes and goes, the agent dies and comes back.
LEMMA AgentStep ==
    ASSUME ServicesInv, InterfaceDetach \/ InterfaceAttach \/ AgentDies \/ AgentStarts
    PROVE  ServicesInv'
<1>0. Types /\ OneOfAKind /\ AgentOK(agent) /\ (~agent.up => agent.list = {})
      /\ \A o \in Obj : ObjectOK(o)
  BY DEF ServicesInv, Types
<1>1. UNCHANGED <<obj, th, todo>>
  BY DEF InterfaceDetach, InterfaceAttach, AgentDies, AgentStarts
<1>2. ASSUME NEW up \in BOOLEAN, NEW present \in BOOLEAN, NEW l, l = {} \/ l = agent.list,
             agent' = [up |-> up, present |-> present, list |-> l]
      PROVE  /\ AgentOK(agent') /\ agent'.up = up /\ agent'.list = l /\ OneOfAKind'
             /\ Owners(agent') = IF l = {} THEN {} ELSE Owners(agent)
  <2>1. agent'.up = up /\ agent'.present = present /\ agent'.list = l
    BY <1>2
  <2>2. Owners(agent') = IF l = {} THEN {} ELSE Owners(agent)
    BY <1>2, <2>1 DEF Owners
  <2>3. AgentOK(agent')
    BY <1>0, <1>2, <2>1, <2>2 DEF AgentOK
  <2>4. OneOfAKind'
    BY <1>0, <1>2, <2>1 DEF OneOfAKind
  <2> QED BY <2>1, <2>2, <2>3, <2>4
<1>3. CASE InterfaceAttach
  <2>1. agent' = [up |-> agent.up, present |-> TRUE, list |-> agent.list]
    BY <1>0, <1>3 DEF InterfaceAttach, AgentOK
  <2>2. /\ AgentOK(agent') /\ agent'.up = agent.up /\ agent'.list = agent.list /\ OneOfAKind'
    BY <1>0, <1>2, <2>1 DEF AgentOK
  <2>3. Owners(agent') = Owners(agent)
    BY <2>2 DEF Owners
  <2>4. UNCHANGED <<unseen, exited, lost, told>>
    BY <1>3 DEF InterfaceAttach
  <2>5. \A p \in Obj : Same(p)
    BY <1>1, <2>2, <2>3, <2>4 DEF Same
  <2>6. Types'
    BY <1>0, <1>1, <2>2, <2>4 DEF Types
  <2> QED BY <1>0, <2>2, <2>5, <2>6, Untouched DEF ServicesInv
<1>4. CASE InterfaceDetach
  <2>1. agent' = [up |-> agent.up, present |-> FALSE, list |-> {}]
    BY <1>0, <1>4 DEF InterfaceDetach, AgentOK
  <2>2. /\ AgentOK(agent') /\ agent'.up = agent.up /\ agent'.list = {} /\ OneOfAKind'
        /\ Owners(agent') = {}
    BY <1>0, <1>2, <2>1 DEF AgentOK
  <2>3. lost' = lost \cup Owners(agent) /\ exited' = {} /\ UNCHANGED <<unseen, told>>
    BY <1>4 DEF InterfaceDetach
  <2>4. Types'
    BY <1>0, <1>1, <2>2, <2>3 DEF Types, AgentOK
  <2>5. ASSUME NEW o \in Obj PROVE ObjectOK(o)'
    BY <1>0, <1>1, <2>2, <2>3 DEF ObjectOK, Absent, Threaded, Followed, Started, Owned, Gone
  <2> QED BY <2>2, <2>4, <2>5 DEF ServicesInv
<1>5. CASE AgentDies
  <2>1. agent' = [up |-> FALSE, present |-> agent.present, list |-> {}]
    BY <1>0, <1>5 DEF AgentDies, AgentOK
  <2>2. /\ AgentOK(agent') /\ ~agent'.up /\ agent'.list = {} /\ OneOfAKind'
        /\ Owners(agent') = {}
    BY <1>0, <1>2, <2>1 DEF AgentOK
  <2>3. exited' = {} /\ UNCHANGED <<unseen, lost, told>>
    BY <1>5 DEF AgentDies
  <2>4. Types'
    BY <1>0, <1>1, <2>2, <2>3 DEF Types
  <2>5. ASSUME NEW o \in Obj PROVE ObjectOK(o)'
    BY <1>0, <1>1, <2>2, <2>3 DEF ObjectOK, Absent, Threaded, Followed, Started, Owned, Gone
  <2> QED BY <2>2, <2>4, <2>5 DEF ServicesInv
<1>6. CASE AgentStarts
  <2>1. agent' = [up |-> TRUE, present |-> agent.present, list |-> agent.list] /\ agent.list = {} /\ ~agent.up
    BY <1>0, <1>6 DEF AgentStarts, AgentOK
  <2>2. /\ AgentOK(agent') /\ agent'.up /\ agent'.list = {} /\ OneOfAKind'
        /\ Owners(agent') = {}
    BY <1>0, <1>2, <2>1 DEF AgentOK
  <2>3. /\ unseen' = unseen \cup { o \in Obj : obj[o].life = "live" } /\ UNCHANGED <<exited, lost>>
        /\ told' = [o \in Obj |-> IF told[o] = "gone" THEN "restarting" ELSE told[o]]
    BY <1>6 DEF AgentStarts
  <2>4. Types'
    BY <1>0, <1>1, <2>2, <2>3 DEF Types
  <2>5. ASSUME NEW o \in Obj PROVE ObjectOK(o)'
    <3>1. told'[o] # "gone"
      BY <2>3
    <3> QED BY <1>0, <1>1, <2>1, <2>2, <2>3, <3>1
            DEF ObjectOK, Absent, Threaded, Followed, Started, Owned, Gone, Owners
  <2> QED BY <2>2, <2>4, <2>5 DEF ServicesInv
<1> QED BY <1>3, <1>4, <1>5, <1>6

-----------------------------------------------------------------------------
(* The calls to the agent.                                                 *)

\* A service is added if there is none of its kind.
LEMMA Added ==
    ASSUME AgentOK(agent), OneOfAKind, NEW o \in Obj
    PROVE  LET r == add_service(agent, o)
           IN  /\ r.status \in {"success", "duplicate", "failed"}
               /\ r.status = "success" =>
                    /\ o \in Allowed /\ AgentOK(r.agent) /\ r.agent.up = agent.up
                    /\ Owners(r.agent) = Owners(agent) \cup {o}
                    /\ \A s, u \in r.agent.list : Kind(s.key) = Kind(u.key) => s = u
<1>1. PICK k : k = ipconfig_method_info_from_plist(obj[o].config).key
  OBVIOUS
<1>2. PICK l : l = agent.list \cup {[id |-> o, key |-> k]}
  OBVIOUS
<1>3. PICK b : b = [up |-> agent.up, present |-> agent.present, list |-> l]
  OBVIOUS
<1>4. b.up = agent.up /\ b.present = agent.present /\ b.list = l
  BY <1>3
<1>5. Owners(b) = Owners(agent) \cup {o}
  <2>1. PICK s : s = [id |-> o, key |-> k]
    OBVIOUS
  <2>2. s.id = o /\ b.list = agent.list \cup {s}
    BY <1>2, <1>4, <2>1
  <2> QED BY <2>2 DEF Owners
<1>6. AgentOK(b)
  BY <1>3, <1>4, <1>5 DEF AgentOK
<1>7. ASSUME ServicesOfKind(agent, k) = {}
      PROVE  \A s, u \in b.list : Kind(s.key) = Kind(u.key) => s = u
  <2>1. \A s \in agent.list : Kind(s.key) # Kind(k)
    BY <1>7 DEF ServicesOfKind
  <2> QED BY <1>2, <1>4, <2>1 DEF OneOfAKind
<1>8. b = [agent EXCEPT !.list = @ \cup {[id |-> o, key |-> k]}]
  BY <1>2, <1>3 DEF AgentOK
<1>9. \/ add_service(agent, o) = [status |-> "failed", agent |-> agent]
      \/ add_service(agent, o) = [status |-> "duplicate", agent |-> agent]
      \/ /\ add_service(agent, o) = [status |-> "success", agent |-> b]
         /\ o \in Allowed /\ ServicesOfKind(agent, k) = {}
  BY <1>1, <1>8 DEF add_service, AddOrSetService
<1> QED BY <1>4, <1>5, <1>6, <1>7, <1>9

\* The client goes on: its block is on the queue, to start the object or to
\* release it.
LEMMA CreatedByClient ==
    ASSUME ServicesInv, NEW o \in Obj, th[o].client.pc \in {"add", "again"}, NEW ok \in BOOLEAN,
           Created(o, "client", ok)
    PROVE  /\ obj' \in [Obj -> ObjState] /\ th' \in [Obj -> Threads] /\ todo' \in [Obj -> Seq(Block)]
           /\ UNCHANGED told
           /\ \A p \in Obj \ {o} : obj'[p] = obj[p] /\ th'[p] = th[p] /\ todo'[p] = todo[p]
           /\ obj'[o].life = "live" /\ ~obj'[o].server /\ obj'[o].wrapper
           /\ told'[o] # "gone" /\ th'[o].queue.pc = "idle" /\ th'[o].client.pc \in {"waits", "clears", "idle"}
           /\ Blocks(todo'[o], th'[o].client.pc) /\ (In(todo'[o], "start") <=> ok)
<1>1. /\ Types /\ ObjectOK(o) /\ todo \in [Obj -> Seq(Block)] /\ obj \in [Obj -> ObjState]
      /\ obj[o] \in ObjState /\ todo[o] \in Seq(Block)
  BY DEF ServicesInv, Types
<1>2. /\ obj[o].life = "live" /\ ~obj[o].server /\ obj[o].wrapper /\ told[o] # "gone"
      /\ th[o].queue.pc = "idle"
  BY <1>1 DEF ObjectOK, Absent, Threaded, Gone, Busy
<1>3. th[o].client.pc \notin Waiting /\ Blocks(todo[o], th[o].client.pc) /\ ~In(todo[o], "start")
  BY <1>1 DEF ObjectOK, Threaded, Blocks, In, Waiting
<1>4. ASSUME NEW b \in {"start", "clear"}, NEW pc \in Waiting, b = "clear" <=> pc = "clears",
             todo' = [todo EXCEPT ![o] = Append(@, b)], th' = Go(o, "client", pc, TRUE)
      PROVE  /\ th' \in [Obj -> Threads] /\ todo' \in [Obj -> Seq(Block)]
             /\ \A p \in Obj \ {o} : th'[p] = th[p] /\ todo'[p] = todo[p]
             /\ th'[o].queue = th[o].queue /\ th'[o].client.pc = pc
             /\ Blocks(todo'[o], pc) /\ (In(todo'[o], "start") <=> b = "start")
  <2> DEFINE q == Append(todo[o], b)
  <2>1. q \in Seq(Block) /\ \A x : In(q, x) <=> In(todo[o], x) \/ x = b
    BY <1>1, <1>4, Appended DEF Block
  <2>2. Blocks(q, pc)
    BY <1>1, <1>3, <1>4, AppendedBlocks DEF Waiting
  <2>3. todo' = [todo EXCEPT ![o] = q]
    BY <1>4
  <2> HIDE DEF q
  <2>4. todo' \in [Obj -> Seq(Block)] /\ todo'[o] = q /\ \A p \in Obj \ {o} : todo'[p] = todo[p]
    BY <1>1, <2>1, <2>3
  <2>5. /\ th' \in [Obj -> Threads] /\ th'[o].client.pc = pc /\ th'[o].queue = th[o].queue
        /\ \A p \in Obj \ {o} : th'[p] = th[p]
    BY <1>1, <1>4, ClientGoes
  <2> QED BY <1>3, <2>1, <2>2, <2>4, <2>5
<1>5. CASE /\ ok /\ todo' = [todo EXCEPT ![o] = Append(@, "start")]
           /\ th' = Go(o, "client", "waits", TRUE) /\ UNCHANGED <<obj, told>>
  <2>1. "waits" \in Waiting /\ "start" \in {"start", "clear"} /\ ("start" = "clear" <=> "waits" = "clears")
    BY DEF Waiting
  <2>2. /\ th' \in [Obj -> Threads] /\ todo' \in [Obj -> Seq(Block)]
        /\ \A p \in Obj \ {o} : th'[p] = th[p] /\ todo'[p] = todo[p]
        /\ th'[o].queue = th[o].queue /\ th'[o].client.pc = "waits"
        /\ Blocks(todo'[o], "waits") /\ In(todo'[o], "start")
    BY <1>4, <1>5, <2>1
  <2> QED BY <1>1, <1>2, <1>5, <2>2 DEF Types
<1>6. CASE /\ ~ok /\ todo' = [todo EXCEPT ![o] = Append(@, "clear")]
           /\ th' = Go(o, "client", "clears", TRUE) /\ UNCHANGED <<obj, told>>
  <2>1. "clears" \in Waiting /\ "clear" \in {"start", "clear"}
    BY DEF Waiting
  <2>2. /\ th' \in [Obj -> Threads] /\ todo' \in [Obj -> Seq(Block)]
        /\ \A p \in Obj \ {o} : th'[p] = th[p] /\ todo'[p] = todo[p]
        /\ th'[o].queue = th[o].queue /\ th'[o].client.pc = "clears"
        /\ Blocks(todo'[o], "clears") /\ ~In(todo'[o], "start")
    BY <1>4, <1>6, <2>1
  <2> QED BY <1>1, <1>2, <1>6, <2>2 DEF Types
<1> QED BY <1>5, <1>6 DEF Created

\* The queue goes on, whatever came of it, and so does a client that waited
\* for its start.
LEMMA CreatedByQueue ==
    ASSUME ServicesInv, NEW o \in Obj, th[o].queue.pc \in Busy, NEW ok, Created(o, "queue", ok)
    PROVE  /\ th' \in [Obj -> Threads] /\ todo' \in [Obj -> Seq(Block)] /\ UNCHANGED <<obj, told>>
           /\ \A p \in Obj \ {o} : th'[p] = th[p] /\ todo'[p] = todo[p]
           /\ th'[o].queue.pc = "idle" /\ th'[o].client.pc \in {"idle", th[o].client.pc}
           /\ Blocks(todo'[o], th'[o].client.pc)
<1>1. /\ todo' = [todo EXCEPT ![o] = Tail(@)] /\ UNCHANGED <<obj, told>>
      /\ th' = [th EXCEPT ![o] = [client |-> IF Head(todo[o]) = "start" THEN Idle ELSE @.client, queue |-> Idle]]
  BY DEF Created
<1>2. Types /\ ObjectOK(o) /\ todo[o] # <<>> /\ Head(todo[o]) \in {"reconnect", "start"}
  BY DEF ServicesInv, ObjectOK, Threaded, Busy
<1>3. Done(o)
  BY <1>1 DEF Done
<1>4. PICK t : t = [client |-> IF Head(todo[o]) = "start" THEN Idle ELSE th[o].client, queue |-> Idle]
  OBVIOUS
<1>5. /\ t \in Threads /\ t.queue.pc = "idle"
      /\ t.client.pc = IF Head(todo[o]) = "start" THEN "idle" ELSE th[o].client.pc
  BY <1>2, <1>4 DEF Types, Threads, Thread, Idle
<1>6. th' = [th EXCEPT ![o] = t] /\ th \in [Obj -> Threads]
  BY <1>1, <1>2, <1>4 DEF Types
<1>7. th' \in [Obj -> Threads] /\ th'[o] = t /\ \A p \in Obj \ {o} : th'[p] = th[p]
  BY <1>5, <1>6
<1>8. /\ todo' \in [Obj -> Seq(Block)] /\ \A p \in Obj \ {o} : todo'[p] = todo[p]
      /\ Head(todo[o]) = "reconnect" => Blocks(todo'[o], th[o].client.pc)
      /\ Head(todo[o]) # "reconnect" => \A d : d \notin Waiting => Blocks(todo'[o], d)
  BY <1>2, <1>3, HeadDone
<1>9. "idle" \notin Waiting
  BY DEF Waiting
<1> QED BY <1>1, <1>2, <1>5, <1>7, <1>8, <1>9

\* The first or second attempt to have the agent create the service.
LEMMA AddStep ==
    ASSUME ServicesInv, NEW o \in Obj, NEW t \in {"client", "queue"}, AddService(o, t)
    PROVE  ServicesInv'
<1> DEFINE r == add_service(agent, o)
<1>0. /\ Types /\ OneOfAKind /\ ObjectOK(o) /\ AgentOK(agent) /\ (~agent.up => agent.list = {})
      /\ UNCHANGED <<unseen, exited>> /\ th[o] \in Threads /\ lost \subseteq Obj
      /\ unseen \subseteq Obj /\ exited \subseteq Obj
  BY DEF ServicesInv, Types, AddService
<1>1. /\ r.status \in {"success", "duplicate", "failed"}
      /\ r.status = "success" =>
           /\ o \in Allowed /\ AgentOK(r.agent) /\ r.agent.up = agent.up
           /\ Owners(r.agent) = Owners(agent) \cup {o}
           /\ \A s, u \in r.agent.list : Kind(s.key) = Kind(u.key) => s = u
  BY <1>0, Added
<1>2. (IF t = "client" THEN th[o].client.pc ELSE th[o].queue.pc) \in {"add", "again"}
  BY DEF AddService
<1>3. PICK ok \in BOOLEAN :
        \/ /\ agent.up /\ r.status = "success" /\ agent' = r.agent /\ lost' = lost \ {o}
           /\ Created(o, t, TRUE) /\ ok
        \/ /\ agent.up /\ r.status = "duplicate" /\ th' = Go(o, t, "remove", FALSE)
           /\ UNCHANGED <<agent, lost, obj, todo, told>>
        \/ /\ agent.up /\ lost' = lost \cup {o} /\ Created(o, t, FALSE) /\ ~ok /\ UNCHANGED agent
        \/ ~agent.up /\ Created(o, t, ok) /\ UNCHANGED <<agent, lost>>
  <2>1. th[o][t].ok \in BOOLEAN
    BY <1>0 DEF Threads, Thread
  <2> QED BY <2>1 DEF AddService, At
<1> HIDE DEF r
<1>4. CASE th' = Go(o, t, "remove", FALSE) /\ UNCHANGED <<agent, lost, obj, todo, told>>
  <2>1. /\ th' \in [Obj -> Threads] /\ \A p \in Obj \ {o} : th'[p] = th[p]
        /\ IF t = "client" THEN th'[o].client.pc = "remove" /\ th'[o].queue = th[o].queue
           ELSE th'[o].queue.pc = "remove" /\ th'[o].client = th[o].client
    BY <1>0, <1>4, ClientGoes, QueueGoes DEF Busy
  <2>2. Types' /\ OneOfAKind' /\ (~agent'.up => agent'.list = {})
    BY <1>0, <1>4, <2>1 DEF Types, OneOfAKind, AgentOK
  <2>3. Blocks(todo[o], th'[o].client.pc)
    <3>1. CASE t = "client"
      <4>1. th[o].client.pc \notin Waiting /\ "remove" \notin Waiting /\ Blocks(todo[o], th[o].client.pc)
        BY <1>0, <1>2, <3>1 DEF Waiting, ObjectOK, Threaded
      <4> QED BY <2>1, <3>1, <4>1, SameBlocks
    <3>2. CASE t = "queue"
      BY <1>0, <2>1, <3>2 DEF ObjectOK, Threaded
    <3> QED BY <3>1, <3>2
  <2>4. ObjectOK(o)'
    <3>1. Absent(o)' /\ Threaded(o)' /\ Gone(o)'
      BY <1>0, <1>2, <1>4, <2>1, <2>3 DEF ObjectOK, Absent, Threaded, Gone, Busy
    <3>2. Followed(o)' /\ Owned(o)'
      BY <1>0, <1>2, <1>4, <2>1 DEF ObjectOK, Followed, Started, Owned
    <3> QED BY <3>1, <3>2 DEF ObjectOK
  <2>5. \A p \in Obj \ {o} : Same(p)
    BY <1>0, <1>4, <2>1 DEF Same
  <2> QED BY <2>2, <2>4, <2>5, OneObject
<1>5. CASE /\ Created(o, t, ok)
           /\ \/ agent.up /\ r.status = "success" /\ agent' = r.agent /\ lost' = lost \ {o} /\ ok
              \/ agent.up /\ lost' = lost \cup {o} /\ ~ok /\ UNCHANGED agent
              \/ ~agent.up /\ UNCHANGED <<agent, lost>>
  <2>1. /\ AgentOK(agent') /\ agent'.up = agent.up /\ OneOfAKind' /\ (~agent'.up => agent'.list = {})
        /\ \A p \in Obj \ {o} : p \in Owners(agent') <=> p \in Owners(agent)
        /\ \A p \in Obj \ {o} : p \in lost' <=> p \in lost
        /\ lost' \subseteq Obj
    BY <1>0, <1>1, <1>5 DEF OneOfAKind
  <2>2. /\ o \in Owners(agent') => o \in Owners(agent) \/ (o \in Allowed /\ ok)
        /\ \/ ok /\ o \in Owners(agent')
           \/ ~ok /\ o \in lost'
           \/ ~agent'.up /\ o \notin Owners(agent')
    BY <1>0, <1>1, <1>5 DEF Owners
  <2>3. CASE t = "client"
    <3>1. /\ obj' \in [Obj -> ObjState] /\ th' \in [Obj -> Threads] /\ todo' \in [Obj -> Seq(Block)]
          /\ told' \in [Obj -> {"nothing", "failed", "prefix", "valid", "restarting", "gone"}]
          /\ \A p \in Obj \ {o} : obj'[p] = obj[p] /\ th'[p] = th[p] /\ todo'[p] = todo[p] /\ told'[p] = told[p]
          /\ obj'[o].life = "live" /\ ~obj'[o].server /\ obj'[o].wrapper
          /\ told'[o] # "gone" /\ th'[o].queue.pc = "idle" /\ th'[o].client.pc \in {"waits", "clears", "idle"}
          /\ Blocks(todo'[o], th'[o].client.pc) /\ (In(todo'[o], "start") <=> ok)
      <4>1. told \in [Obj -> {"nothing", "failed", "prefix", "valid", "restarting", "gone"}] /\ told[o] # "gone"
        BY <1>0, <1>2, <2>3 DEF Types, ObjectOK, Gone, Busy
      <4> QED BY <1>2, <1>5, <2>3, <4>1, CreatedByClient
    <3>2. Types'
      BY <1>0, <2>1, <3>1 DEF Types
    <3>3. o \notin Owners(agent) /\ o \notin exited
      BY <1>0, <1>2, <2>3 DEF ObjectOK, Absent, Threaded, Owned, Started, Blocks, In, Busy, Waiting
    <3>4. ObjectOK(o)'
      BY <1>0, <2>1, <2>2, <3>1, <3>3
         DEF ObjectOK, Absent, Threaded, Followed, Started, Owned, Gone, Busy
    <3>5. \A p \in Obj \ {o} : Same(p)
      BY <1>0, <2>1, <3>1 DEF Same
    <3> QED BY <2>1, <3>2, <3>4, <3>5, OneObject
  <2>4. CASE t = "queue"
    <3>1. /\ th' \in [Obj -> Threads] /\ todo' \in [Obj -> Seq(Block)] /\ UNCHANGED <<obj, told>>
          /\ \A p \in Obj \ {o} : th'[p] = th[p] /\ todo'[p] = todo[p]
          /\ th'[o].queue.pc = "idle" /\ th'[o].client.pc \in {"idle", th[o].client.pc}
          /\ Blocks(todo'[o], th'[o].client.pc)
      BY <1>2, <1>5, <2>4, CreatedByQueue DEF Busy
    <3>2. Types'
      BY <1>0, <2>1, <3>1 DEF Types
    <3>3. /\ obj[o].life = "live" /\ obj[o].server /\ obj[o].wrapper /\ told[o] # "gone"
          /\ th[o].client.pc \notin {"removes"} \cup Busy
      BY <1>0, <1>2, <2>4 DEF ObjectOK, Absent, Threaded, Gone, Busy
    <3>4. ObjectOK(o)'
      BY <1>0, <2>1, <2>2, <3>1, <3>3
         DEF ObjectOK, Absent, Threaded, Followed, Started, Owned, Gone, Busy
    <3>5. \A p \in Obj \ {o} : Same(p)
      BY <1>0, <2>1, <3>1 DEF Same
    <3> QED BY <2>1, <3>2, <3>4, <3>5, OneObject
  <2> QED BY <2>3, <2>4
<1> QED BY <1>3, <1>4, <1>5

\* The service of the same kind is removed first, whoever's it is.
LEMMA RemoveDuplicateStep ==
    ASSUME ServicesInv, NEW o \in Obj, NEW t \in {"client", "queue"}, RemoveDuplicate(o, t)
    PROVE  ServicesInv'
<1>0. /\ Types /\ OneOfAKind /\ ObjectOK(o) /\ AgentOK(agent) /\ (~agent.up => agent.list = {})
      /\ UNCHANGED <<obj, todo, unseen, exited, told>> /\ th[o] \in Threads /\ lost \subseteq Obj
      /\ (IF t = "client" THEN th[o].client.pc ELSE th[o].queue.pc) = "remove"
  BY DEF ServicesInv, Types, RemoveDuplicate, At
<1>1. PICK F : F = IF o \in Allowed THEN ServicesWithMethod(agent, ipconfig_method_info_from_plist(obj[o].config).key)
                   ELSE {}
  OBVIOUS
<1>2. PICK ok \in BOOLEAN :
        /\ th' = Go(o, t, "again", ok)
        /\ \/ /\ agent' = [agent EXCEPT !.list = @ \ F]
              /\ lost' = lost \cup (Owners(agent) \ Owners(agent'))
           \/ UNCHANGED <<agent, lost>>
  <2>1. CASE ~agent.up
    BY <2>1 DEF RemoveDuplicate
  <2>2. CASE agent.up
    <3>1. PICK b : b = [agent EXCEPT !.list = @ \ F]
      OBVIOUS
    <3>2. PICK st \in {"success", "failed"} : remove_service(agent, o) = [status |-> st, agent |-> b]
      BY <1>1, <3>1 DEF remove_service
    <3>3. /\ agent' = b /\ lost' = lost \cup (Owners(agent) \ Owners(b))
          /\ th' = Go(o, t, "again", st = "success")
      BY <1>0, <2>2, <3>2 DEF RemoveDuplicate
    <3> QED BY <3>1, <3>3
  <2> QED BY <2>1, <2>2
<1>3. /\ AgentOK(agent') /\ agent'.up = agent.up /\ agent'.list \subseteq agent.list
      /\ Owners(agent') \subseteq Owners(agent) /\ lost' \subseteq Obj
      /\ Owners(agent) \cup lost \subseteq Owners(agent') \cup lost'
  <2>1. CASE UNCHANGED <<agent, lost>>
    BY <1>0, <2>1
  <2>2. CASE agent' = [agent EXCEPT !.list = @ \ F] /\ lost' = lost \cup (Owners(agent) \ Owners(agent'))
    <3>1. /\ AgentOK(agent') /\ agent'.up = agent.up /\ agent'.list = agent.list \ F
          /\ Owners(agent') \subseteq Owners(agent)
      BY <1>0, <2>2, FewerServices
    <3> QED BY <1>0, <2>2, <3>1 DEF AgentOK
  <2> QED BY <1>2, <2>1, <2>2
<1>4. /\ th' \in [Obj -> Threads] /\ \A p \in Obj \ {o} : th'[p] = th[p]
      /\ IF t = "client" THEN th'[o].client.pc = "again" /\ th'[o].queue = th[o].queue
         ELSE th'[o].queue.pc = "again" /\ th'[o].client = th[o].client
  BY <1>0, <1>2, ClientGoes, QueueGoes DEF Busy
<1>5. Types' /\ OneOfAKind' /\ (~agent'.up => agent'.list = {})
  BY <1>0, <1>3, <1>4 DEF Types, OneOfAKind
<1>6. Blocks(todo[o], th'[o].client.pc)
  <2>1. CASE t = "client"
    <3>1. th[o].client.pc \notin Waiting /\ "again" \notin Waiting /\ Blocks(todo[o], th[o].client.pc)
      BY <1>0, <2>1 DEF Waiting, ObjectOK, Threaded
    <3> QED BY <1>4, <2>1, <3>1, SameBlocks
  <2>2. CASE t = "queue"
    BY <1>0, <1>4, <2>2 DEF ObjectOK, Threaded
  <2> QED BY <2>1, <2>2
<1>7. ObjectOK(o)'
  <2>1. Absent(o)' /\ Threaded(o)' /\ Gone(o)'
    BY <1>0, <1>3, <1>4, <1>6 DEF ObjectOK, Absent, Threaded, Gone, Busy
  <2>2. Followed(o)' /\ Owned(o)'
    BY <1>0, <1>3, <1>4 DEF ObjectOK, Followed, Started, Owned
  <2> QED BY <2>1, <2>2 DEF ObjectOK
<1>8. \A p \in Obj \ {o} : Same(p)
  BY <1>0, <1>3, <1>4 DEF Same
<1> QED BY <1>5, <1>7, <1>8, OneObject

-----------------------------------------------------------------------------
(* The theorems.                                                           *)

\* The services of the agent, the objects and their two threads, and what the
\* handlers were told, through every interleaving of calls, releases, exits
\* and deaths of the agent.
THEOREM ServicesInvariance == ServicesSpec => []ServicesInv
<1>1. ServicesInit => ServicesInv
  <2> SUFFICES ASSUME ServicesInit PROVE ServicesInv
    OBVIOUS
  <2>1. NoObject \in ObjState /\ [client |-> Idle, queue |-> Idle] \in Threads
    BY DEF NoObject, NoConfig, ObjState, Config, Idle, Threads, Thread
  <2>2. Owners(agent) = {} /\ AgentOK(agent) /\ agent.up
    BY DEF ServicesInit, NewAgent, Owners, AgentOK
  <2>3. "idle" \notin Waiting
    BY DEF Waiting
  <2>4. <<>> \in Seq(Block) /\ Blocks(<<>>, "idle") /\ \A b : ~In(<<>>, b)
    BY <2>3, EmptyQueue
  <2>5. Types
    BY <2>1, <2>2, <2>4 DEF ServicesInit, Types
  <2>6. OneOfAKind
    BY DEF ServicesInit, NewAgent, OneOfAKind
  <2>7. ASSUME NEW o \in Obj PROVE ObjectOK(o)
    <3>1. /\ obj[o].life = "none" /\ ~obj[o].server /\ th[o].client.pc = "idle"
          /\ th[o].queue.pc = "idle" /\ todo[o] = <<>> /\ told[o] = "nothing"
          /\ unseen = {} /\ exited = {}
      BY DEF ServicesInit, NoObject, Idle
    <3> QED BY <2>2, <2>4, <3>1
            DEF ObjectOK, Absent, Threaded, Followed, Started, Owned, Gone, Busy
  <2> QED BY <2>2, <2>5, <2>6, <2>7 DEF ServicesInv
<1>2. ServicesInv /\ [ServicesNext]_objVars => ServicesInv'
  <2> SUFFICES ASSUME ServicesInv, [ServicesNext]_objVars PROVE ServicesInv'
    OBVIOUS
  <2>1. CASE UNCHANGED objVars
    BY <2>1 DEF objVars, ServicesInv, Types, AgentOK, Owners, OneOfAKind, ObjectOK, Absent, Threaded,
                Followed, Started, Owned, Gone
  <2>2. CASE ServiceHandleProcessExit
    BY <2>2, ProcessExitStep
  <2>3. CASE InterfaceDetach \/ InterfaceAttach \/ AgentDies \/ AgentStarts
    BY <2>3, AgentStep
  <2>4. ASSUME NEW o \in Obj, NEW r \in Requests,
               DHCPv6PDServiceCreate(o, r.options) \/ IPConfigurationServiceCreate(o, r.options)
        PROVE  ServicesInv'
    BY <2>4, CreateStep
  <2>5. ASSUME NEW o \in Obj, NEW t \in {"client", "queue"}, AddService(o, t) \/ RemoveDuplicate(o, t)
        PROVE  ServicesInv'
    BY <2>5, AddStep, RemoveDuplicateStep
  <2>6. ASSUME NEW o \in Obj,
               \/ StoreDisconnects(o) \/ DHCPv6PDServiceResume(o) \/ DHCPv6PDServiceStoreChange(o)
               \/ Deallocate(o) \/ RemoveService(o) \/ ProcessExits(o)
        PROVE  ServicesInv'
    BY <2>6, DisconnectStep, ResumeStep, AsksStep, RemoveStep, ExitStep
  <2>7. ASSUME NEW o \in Obj,
               \/ IPConfigurationServiceStoreReconnect(o) \/ IPConfigurationServiceStart(o)
               \/ IPConfigurationServiceIsValid(o) \/ ObjectWrapperClearObject(o)
        PROVE  ServicesInv'
    BY <2>7, ReconnectStep, StartStep, ValidStep, ClearStep
  <2> QED BY <2>1, <2>2, <2>3, <2>4, <2>5, <2>6, <2>7 DEF ServicesNext
<1> QED BY <1>1, <1>2, PTL DEF ServicesSpec

\* Once nothing is under way for an object that was started the agent has its
\* service, unless it lost it; no service outlives its object and process; and
\* there is one of a kind.
THEOREM ObjectsHaveServices == ServicesSpec => []ServicesFollowObjects
<1>1. ServicesInv => ServicesFollowObjects
  <2> SUFFICES ASSUME ServicesInv PROVE ServicesFollowObjects
    OBVIOUS
  <2>1. ASSUME NEW o \in Obj, obj[o].life = "live", obj[o].server, Settled(o)
        PROVE  o \in Owners(agent) \cup lost
    <3>1. /\ ObjectOK(o) /\ agent.up /\ o \notin unseen /\ todo[o] = <<>>
          /\ th[o].client.pc = "idle" /\ th[o].queue.pc = "idle"
      BY <2>1 DEF ServicesInv, Settled, At
    <3>2. ~In(todo[o], "reconnect")
      BY <3>1, EmptyQueue DEF Waiting
    <3> QED BY <2>1, <3>1, <3>2 DEF ObjectOK, Followed, Started, Threaded
  <2>2. \A o \in Owners(agent) : obj[o].life = "live" \/ o \in exited
    BY DEF ServicesInv, Types, AgentOK, ObjectOK, Owned
  <2> QED BY <2>1, <2>2 DEF ServicesFollowObjects, ServicesInv, OneOfAKind
<1> QED BY <1>1, ServicesInvariance, PTL

\* A handler that was told that its service is gone was told the truth, and
\* nothing will create one behind it.
THEOREM ToldTheTruth == ServicesSpec => []ToldGoneIsGone
<1>1. ServicesInv => ToldGoneIsGone
  BY DEF ServicesInv, ObjectOK, Gone, ToldGoneIsGone
<1> QED BY <1>1, ServicesInvariance, PTL
=============================================================================
