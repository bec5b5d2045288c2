------------------------- MODULE DHCPServer_proofs -------------------------
(***************************************************************************)
(* Theorems about DHCPServer, for every set of clients, every layout of    *)
(* subnets, every bootptab and every lease bound.                          *)
(***************************************************************************)
EXTENDS DHCPServer, WellFoundedInduction, TLAPS

-----------------------------------------------------------------------------
(* The operators the handlers are built from                               *)

\* The smallest element of a non-empty set of naturals is one of them.
LEMMA MinIsMember ==
    ASSUME NEW S \in SUBSET Nat, S # {}
    PROVE  Min(S) \in S /\ \A y \in S : Min(S) <= y
<1>1. PICK x \in S : \A y \in S : ~(<<y, x>> \in OpToRel(<, Nat))
  BY NatLessThanWellFounded, WFMin
<1>2. \A y \in S : x <= y
  <2> TAKE y \in S
  <2>1. ~(y < x)
    BY <1>1 DEF OpToRel
  <2> QED BY <2>1
<1> QED BY <1>2 DEF Min

-----------------------------------------------------------------------------
(* What Lookup finds.                                                      *)

\* A binding that Lookup finds is a typed entry of the database, or a static
\* one, and the database it leaves is a part of the old one.
LEMMA LookupFacts ==
    ASSUME TypeOK, NEW r \in Request, NEW b \in Lookup(r)
    PROVE  /\ b.kind \in {"none", "temporary", "permanent"}
           /\ b.expiry \in Int
           /\ b.ip \in Addr \cup {NoAddr}
           /\ b.leases \in SUBSET Entry /\ b.leases \subseteq leases
           /\ b.orphan = FALSE => b.leases = leases
           /\ b.orphan \in BOOLEAN
           /\ b.kind # "none" => b.orphan = FALSE /\ b.ip \in Addr
           /\ b.kind = "temporary" => EntryOf(r, b) \in leases
           /\ b.kind = "permanent" => b.ip \in EverStatic
           /\ \A e \in leases \ b.leases : e.id = r.id
<1> DEFINE found == {e \in leases : e.id = r.id /\ subnet_match(r, e.ip)}
<1>0. r.id \in Client /\ static \in [Client -> Addr \cup {NoAddr}]
      /\ static \in StaticTables /\ leases \subseteq Entry
  BY ServerAssumption DEF TypeOK, Request
<1>1. CASE static[r.id] # NoAddr /\ subnet_match(r, static[r.id])
  <2>1. b = Binding("permanent", static[r.id], Never, FALSE, leases)
    BY <1>1 DEF Lookup
  <2>2. static[r.id] \in EverStatic
    BY <1>0, <1>1 DEF EverStatic, StaticAddrs
  <2> QED BY <1>0, <1>1, <2>1, <2>2 DEF Binding, Never, NoAddr
<1>2. CASE ~(static[r.id] # NoAddr /\ subnet_match(r, static[r.id])) /\ found = {}
  <2>1. b = Binding("none", NoAddr, 0, FALSE, leases)
    BY <1>2 DEF Lookup
  <2> QED BY <1>0, <2>1 DEF Binding
<1>3. CASE ~(static[r.id] # NoAddr /\ subnet_match(r, static[r.id])) /\ found # {}
  <2>1. PICK e \in found :
          b = IF Allocatable(e.ip)
              THEN Binding("temporary", e.ip, e.expiry, FALSE, leases)
              ELSE Binding("none", NoAddr, 0, TRUE, leases \ {e})
    BY <1>3 DEF Lookup
  <2>2. e \in Entry /\ e \in leases /\ e.id = r.id
    BY <1>0
  <2>3. [ip |-> e.ip, id |-> r.id, expiry |-> e.expiry] = e
    BY <2>2 DEF Entry
  <2>4. CASE Allocatable(e.ip)
    BY <1>0, <2>1, <2>2, <2>3, <2>4 DEF Binding, EntryOf, Entry
  <2>5. CASE ~Allocatable(e.ip)
    BY <1>0, <2>1, <2>2, <2>5 DEF Binding
  <2> QED BY <2>4, <2>5
<1> QED BY <1>1, <1>2, <1>3

\* What Lookup leaves in the file.
LEMMA DiskLookupFacts ==
    ASSUME TypeOK, NEW r \in Request, NEW b \in Lookup(r),
           NEW d \in DiskAfterLookup(b)
    PROVE  d \in SUBSET Entry /\ (FileIsCurrent => (~DiskMayFail => d = b.leases))
<1>1. b.leases \in SUBSET Entry /\ (b.orphan = FALSE => b.leases = leases)
      /\ b.orphan \in BOOLEAN
  BY LookupFacts
<1> QED BY <1>1 DEF DiskAfterLookup, Saved, FileIsCurrent, TypeOK

\* A lease is a natural number of seconds.
LEMMA BoundLeaseType ==
    ASSUME TypeOK, NEW r \in Request, NEW b \in Lookup(r)
    PROVE  BoundLease(r, b) \in Nat
<1>1. b.expiry \in Int /\ now \in Nat /\ r.lease \in Nat \cup {NoOption}
  BY LookupFacts DEF TypeOK, Request
<1> QED BY <1>1, ServerAssumption
        DEF BoundLease, S_lease_time_expiry, Clamp, NoOption, Never
-----------------------------------------------------------------------------
(* What an allocation returns.                                             *)

\* acquire_ip returns an address that is not in use.
LEMMA AcquireFacts ==
    ASSUME TypeOK, NEW n, NEW l, NEW p, acquire_ip(n, l, p) # NoAddr
    PROVE  acquire_ip(n, l, p) \in Addr /\ ~S_ipinuse(acquire_ip(n, l, p), l, p)
<1> DEFINE W == WithFree(n, l, p)
<1>1. W # {} /\ W \subseteq Subnet /\ W \in SUBSET Nat
  <2>1. W # {}
    BY DEF acquire_ip
  <2>2. W \subseteq subnets /\ subnets \subseteq Subnet
    BY DEF WithFree, Eligible, TypeOK
  <2>3. Subnet \subseteq Nat
    BY ServerAssumption DEF Subnet
  <2> QED BY <2>1, <2>2, <2>3
<1>2. Min(W) \in W
  BY <1>1, MinIsMember
<1> DEFINE F == FreeIn(Min(W), l, p)
<1>3. F # {}
  BY <1>2 DEF WithFree
<1>4. First[Min(W)] \in Addr /\ Last[Min(W)] \in Addr /\ nextip[Min(W)] \in Nat
  BY <1>1, <1>2, ServerAssumption DEF TypeOK
<1>5. F \in SUBSET Nat /\ \A a \in F : a <= Last[Min(W)]
  BY <1>4 DEF FreeIn, ScanStart, Addr
<1>6. Min(F) \in F
  BY <1>3, <1>5, MinIsMember
<1>7. acquire_ip(n, l, p) = Min(F)
  BY <1>1 DEF acquire_ip
<1>8. Min(F) \in Addr
  <2> HIDE DEF F, W
  <2>1. PICK m \in Nat : m = Min(F) /\ m <= Last[Min(W)] /\ m # 0
    BY <1>5, <1>6, <1>7 DEF NoAddr
  <2> QED BY <1>4, <2>1, ServerAssumption DEF Addr
<1> QED BY <1>6, <1>7, <1>8 DEF FreeIn

\* The cursors stay natural numbers.
LEMMA CursorsType ==
    ASSUME TypeOK, NEW n, NEW l, NEW p
    PROVE  CursorsAfter(n, l, p) \in [Subnet -> Nat]
<1>1. acquire_ip(n, l, p) \in Nat
  BY AcquireFacts, ServerAssumption DEF Addr, NoAddr
<1>2. \A s \in Subnet : nextip[s] \in Nat /\ Last[s] + 1 \in Nat
  BY ServerAssumption DEF TypeOK, Addr
<1>3. CursorsAfter(n, l, p) =
        [s \in Subnet |-> CursorsAfter(n, l, p)[s]]
  BY DEF CursorsAfter
<1>4. ASSUME NEW s \in Subnet PROVE CursorsAfter(n, l, p)[s] \in Nat
  BY <1>1, <1>2 DEF CursorsAfter
<1> QED BY <1>3, <1>4

\* Dropping a stale offer leaves every other offer alone, and an address that
\* at most one client was offered is then offered to nobody.
LEMMA DropStaleFacts ==
    ASSUME NEW p \in [Client -> Offer], NEW a \in Addr, NEW q \in DropStale(p, a)
    PROVE  /\ q \in [Client -> Offer]
           /\ \A c \in Client : q[c] = p[c] \/ q[c] = NoOffer
           /\ (\A c, d \in Client : p[c].ip = a /\ p[d].ip = a => c = d)
                => \A c \in Client : q[c].ip # a
<1> DEFINE stale == {c \in Client : p[c].ip = a}
<1>0. NoOffer \in Offer /\ NoOffer.ip # a
  BY DEF NoOffer, Offer, Addr, NoAddr
<1>1. CASE stale = {}
  BY <1>1 DEF DropStale
<1>2. CASE stale # {}
  <2>1. PICK c \in stale : q = [p EXCEPT ![c] = NoOffer]
    BY <1>2 DEF DropStale
  <2> QED BY <1>0, <2>1
<1> QED BY <1>1, <1>2

AllocationOK(w, l, d, p) ==
    /\ w.ip \in Addr \cup {NoAddr}
    /\ w.leases \in SUBSET l
    /\ w.disk \in SUBSET Entry
    /\ w.pending \in [Client -> Offer]
    /\ \A c \in Client : w.pending[c] = p[c] \/ w.pending[c] = NoOffer
    /\ w.taken \subseteq Addr
    /\ \A e \in l \ w.leases : e.expiry # Never /\ now > e.expiry
    /\ ~DiskMayFail /\ d = l => w.disk = w.leases
    /\ w.ip # NoAddr => \/ w.ip \in w.taken
                        \/ /\ ~S_ipinuse(w.ip, l, p)
                           /\ w.pending \in DropStale(p, w.ip)

\* What an allocation returns: a free address or a reclaimed one, and a
\* database, a file and offers that only lost entries.
LEMMA AllocationFacts ==
    ASSUME TypeOK, NEW n \in Net, NEW l \in SUBSET leases, NEW d \in SUBSET Entry,
           NEW p \in [Client -> Offer], NEW w \in Allocations(n, l, d, p)
    PROVE  AllocationOK(w, l, d, p)
<1> USE DEF AllocationOK
<1> DEFINE a == acquire_ip(n, l, p)
<1>0. leases \subseteq Entry /\ l \subseteq Entry
  BY DEF TypeOK
<1>1. CASE a # NoAddr
  <2>1. PICK q \in DropStale(p, a) : w = Allocation(a, l, d, q, {})
    BY <1>1 DEF Allocations
  <2>2. a \in Addr /\ ~S_ipinuse(a, l, p)
    BY <1>1, AcquireFacts
  <2>3. q \in [Client -> Offer] /\ \A c \in Client : q[c] = p[c] \/ q[c] = NoOffer
    BY <2>2, DropStaleFacts
  <2> HIDE DEF a
  <2> QED BY <2>1, <2>2, <2>3 DEF Allocation
<1>2. CASE a = NoAddr /\ Reclaimable(n, l) = {}
  <2>1. w = Allocation(NoAddr, l, d, p, {})
    BY <1>2 DEF Allocations
  <2> QED BY <2>1 DEF Allocation
<1>3. CASE a = NoAddr /\ Reclaimable(n, l) # {}
  <2>1. PICK e \in Reclaimable(n, l) : \E f \in Saved(d, l \ {e}) :
          w = Allocation(IF Configured(e.ip) THEN e.ip ELSE NoAddr,
                         l \ {e}, f, p, {e.ip})
    BY <1>3 DEF Allocations
  <2>0. PICK f \in Saved(d, l \ {e}) :
          w = Allocation(IF Configured(e.ip) THEN e.ip ELSE NoAddr,
                         l \ {e}, f, p, {e.ip})
    BY <2>1
  <2>2. e \in Entry /\ e.ip \in Addr
    BY <1>0 DEF Reclaimable, Entry
  <2>3. f \in SUBSET Entry /\ (~DiskMayFail => f = l \ {e})
    BY <1>0 DEF Saved
  <2>4. e.expiry # Never /\ now > e.expiry
    BY DEF Reclaimable
  <2> QED BY <2>0, <2>2, <2>3, <2>4 DEF Allocation
<1> QED BY <1>1, <1>2, <1>3
-----------------------------------------------------------------------------
(* The inductive invariant, and what each handler preserves                *)

Ind == TypeOK /\ FileIsCurrent /\ OneOwnerUntilReclaimed

\* A step gives no address a second owner: for an address that is neither in
\* a bootptab nor reclaimed, the owners after it are among the owners before
\* it, or there is only one.
Narrow ==
    /\ reclaimed \subseteq reclaimed'
    /\ ~DiskMayFail =>
         \A a \in Addr \ (EverStatic \cup reclaimed') :
           \/ Owners(a)' \subseteq Owners(a)
           \/ \E c \in Client : Owners(a)' \subseteq {c}

\* Losing leases and offers, and nothing else, is a narrowing.
LEMMA NarrowIf ==
    ASSUME reclaimed \subseteq reclaimed',
           \A c \in Client, a \in Addr \ (EverStatic \cup reclaimed') :
             pending'[c].ip = a => c \in Owners(a),
           \A e \in leases' :
             e.id \in Client /\ e.ip \in Addr \ (EverStatic \cup reclaimed')
               => e.id \in Owners(e.ip)
    PROVE  Narrow
BY DEF Narrow, Owners

\* A narrowing keeps OneOwnerUntilReclaimed.
LEMMA NarrowKeepsOneOwner ==
    ASSUME OneOwnerUntilReclaimed, Narrow
    PROVE  OneOwnerUntilReclaimed'
<1> SUFFICES ASSUME ~DiskMayFail, NEW a \in Addr \ (EverStatic \cup reclaimed'),
                    NEW c \in Owners(a)', NEW d \in Owners(a)'
             PROVE  c = d
  BY DEF OneOwnerUntilReclaimed
<1>1. a \in Addr \ (EverStatic \cup reclaimed)
  BY DEF Narrow
<1>2. CASE Owners(a)' \subseteq Owners(a)
  BY <1>1, <1>2 DEF OneOwnerUntilReclaimed
<1>3. CASE \E x \in Client : Owners(a)' \subseteq {x}
  BY <1>3
<1> QED BY <1>2, <1>3 DEF Narrow

\* Keep leaves the database the binding was looked up in.
LEMMA KeepFacts ==
    ASSUME Ind, NEW r \in Request, NEW b \in Lookup(r), Keep(b)
    PROVE  /\ leases' \in SUBSET Entry /\ disk' \in SUBSET Entry
           /\ leases' \subseteq leases
           /\ FileIsCurrent'
BY LookupFacts, DiskLookupFacts DEF Keep, Ind, FileIsCurrent

\* Commit leaves the new database in memory, and in the file too when writes
\* do not fail.
LEMMA CommitFacts ==
    ASSUME Ind, NEW r \in Request, NEW b \in Lookup(r), b.kind = "temporary",
           NEW l \in SUBSET Entry, NEW rep \in Reply, Commit(b, l, rep)
    PROVE  /\ leases' = l /\ disk' \in SUBSET Entry
           /\ FileIsCurrent'
           /\ reply' \in Reply
<1>1. b.leases = leases
  BY LookupFacts DEF Ind
<1>2. rep.id \in Client \cup {NoClient}
  BY DEF Reply
<1>3. NoReply(rep.id) \in Reply
  BY <1>2 DEF NoReply, Answer, Reply
<1>4. CASE l = b.leases
  BY <1>1, <1>4 DEF Commit, Send, Ind, TypeOK, FileIsCurrent
<1>5. CASE l # b.leases
  BY <1>3, <1>5 DEF Commit, Send, Silent, Ind, TypeOK, FileIsCurrent
<1> QED BY <1>4, <1>5

\* A new expiry changes neither the address nor the client of an entry.
LEMMA WithExpiryFacts ==
    ASSUME TypeOK, NEW r \in Request, NEW b \in Lookup(r), b.kind = "temporary",
           NEW x \in Int
    PROVE  /\ WithExpiry(r, b, x) \in SUBSET Entry
           /\ \A e \in WithExpiry(r, b, x) :
                \E f \in leases : f.ip = e.ip /\ f.id = e.id
<1>1. b.leases = leases /\ EntryOf(r, b) \in leases /\ leases \subseteq Entry
  BY LookupFacts DEF TypeOK
<1>2. [EntryOf(r, b) EXCEPT !.expiry = x] \in Entry
  BY <1>1 DEF Entry, EntryOf
<1>3. [EntryOf(r, b) EXCEPT !.expiry = x].ip = EntryOf(r, b).ip
      /\ [EntryOf(r, b) EXCEPT !.expiry = x].id = EntryOf(r, b).id
  BY DEF EntryOf
<1> QED BY <1>1, <1>2, <1>3 DEF WithExpiry

\* Every reply a handler makes is one.
LEMMA AnswerType ==
    ASSUME NEW t \in {"none", "offer", "ack", "nak"}, NEW c \in Client \cup {NoClient},
           NEW a \in Addr \cup {NoAddr}, NEW l \in Nat
    PROVE  Answer(t, c, a, l) \in Reply
BY DEF Answer, Reply

\* Silence is a reply of the type "none".
LEMMA NoReplyType ==
    ASSUME NEW c \in Client \cup {NoClient} PROVE NoReply(c) \in Reply
BY DEF NoReply, Answer, Reply

\* A handler that keeps the entries it found, or changes only their expiry,
\* and keeps or forgets offers.
LEMMA SimpleStep ==
    ASSUME Ind,
           leases' \in SUBSET Entry, disk' \in SUBSET Entry, FileIsCurrent',
           \A e \in leases' : e.id \in Client =>
             \E f \in leases : f.ip = e.ip /\ f.id = e.id,
           pending' \in [Client -> Offer],
           \A c \in Client : pending'[c] = pending[c] \/ pending'[c] = NoOffer,
           enabled' \subseteq enabled, reply' \in Reply,
           UNCHANGED <<config, nextip, now, reclaimed>>
    PROVE  TypeOK' /\ FileIsCurrent' /\ Narrow
<1>1. TypeOK'
  BY DEF Ind, TypeOK, config
<1>2. Narrow
  <2>1. \A c \in Client, a \in Addr : pending'[c].ip = a => c \in Owners(a)
    BY DEF NoOffer, Addr, NoAddr, Owners
  <2>2. \A e \in leases' : e.id \in Client => e.id \in Owners(e.ip)
    BY DEF Owners
  <2> QED BY <2>1, <2>2, NarrowIf
<1> QED BY <1>1, <1>2

\* A REQUEST that selects another server keeps the invariant.
LEMMA SelectOtherStep ==
    ASSUME Ind, NEW r \in Request, SelectOther(r)
    PROVE  TypeOK' /\ FileIsCurrent' /\ Narrow
<1>0. r.id \in Client
  BY DEF Request
<1>1. PICK b \in Lookup(r) :
        /\ IF b.kind = "temporary"
           THEN /\ leases' = b.leases \ {EntryOf(r, b)}
                /\ disk' \in Saved(disk, leases')
           ELSE Keep(b)
        /\ pending' = [pending EXCEPT ![r.id] = NoOffer]
  BY DEF SelectOther
<1>2. leases' \in SUBSET Entry /\ disk' \in SUBSET Entry /\ FileIsCurrent'
      /\ leases' \subseteq leases
  <2>1. CASE b.kind = "temporary"
    BY <1>1, <2>1, LookupFacts DEF Ind, TypeOK, Saved, FileIsCurrent
  <2>2. CASE b.kind # "temporary"
    BY <1>1, <2>2, KeepFacts
  <2> QED BY <2>1, <2>2
<1>3. NoOffer \in Offer /\ pending \in [Client -> Offer]
  BY DEF Ind, TypeOK, NoOffer, Offer
<1>4. reply' \in Reply
  BY <1>0, NoReplyType DEF SelectOther, Silent
<1>5. enabled' \subseteq enabled /\ UNCHANGED <<config, nextip, now, reclaimed>>
  BY DEF SelectOther
<1> QED BY <1>0, <1>1, <1>2, <1>3, <1>4, <1>5, SimpleStep

\* A DECLINE keeps it: the entry stays, without an owner.
LEMMA DeclineStep ==
    ASSUME Ind, NEW r \in Request, Decline(r)
    PROVE  TypeOK' /\ FileIsCurrent' /\ Narrow
<1>0. r.id \in Client /\ NoReply(r.id) \in Reply
  BY NoReplyType DEF Request
<1>1. UNCHANGED <<config, pending, nextip, enabled, now, reclaimed>>
      /\ pending \in [Client -> Offer] /\ now \in Nat
  BY DEF Decline, Ind, TypeOK
<1>2. PICK b \in Lookup(r) :
         IF r.server = "us" /\ b.kind = "temporary" /\ r.reqip = b.ip
         THEN Commit(b, (b.leases \ {EntryOf(r, b)})
                           \cup {[ip |-> b.ip, id |-> NoClient,
                                  expiry |-> now + DeclineWait]}, NoReply(r.id))
         ELSE Keep(b) /\ Silent(r.id)
  BY DEF Decline
<1>3. CASE r.server = "us" /\ b.kind = "temporary" /\ r.reqip = b.ip
  <2> DEFINE e == [ip |-> b.ip, id |-> NoClient, expiry |-> now + DeclineWait]
  <2> DEFINE l == (b.leases \ {EntryOf(r, b)}) \cup {e}
  <2>a. b.ip \in Addr
    BY <1>3, LookupFacts DEF Ind
  <2>b. now + DeclineWait \in Int
    BY <1>1, ServerAssumption
  <2>1. e \in Entry /\ e.id \notin Client
    BY <2>a, <2>b, ServerAssumption DEF Entry
  <2>2. b.leases = leases /\ l \in SUBSET Entry
    BY <1>3, <2>1, LookupFacts DEF Ind
  <2>3. leases' = l /\ disk' \in SUBSET Entry /\ FileIsCurrent' /\ reply' \in Reply
    BY <1>0, <1>2, <1>3, <2>2, CommitFacts
  <2> QED BY <1>1, <2>1, <2>2, <2>3, SimpleStep
<1>4. CASE ~(r.server = "us" /\ b.kind = "temporary" /\ r.reqip = b.ip)
  BY <1>0, <1>1, <1>2, <1>4, KeepFacts, SimpleStep DEF Silent
<1> QED BY <1>3, <1>4

\* A RELEASE keeps it: only an expiry changes.
LEMMA ReleaseStep ==
    ASSUME Ind, NEW r \in Request, Release(r)
    PROVE  TypeOK' /\ FileIsCurrent' /\ Narrow
<1>0. r.id \in Client /\ NoReply(r.id) \in Reply
  BY NoReplyType DEF Request
<1>1. UNCHANGED <<config, pending, nextip, enabled, now, reclaimed>>
      /\ pending \in [Client -> Offer] /\ now \in Int
  BY DEF Release, Ind, TypeOK
<1>2. PICK b \in Lookup(r) :
         IF b.kind = "temporary"
         THEN Commit(b, WithExpiry(r, b, now), NoReply(r.id))
         ELSE Keep(b) /\ Silent(r.id)
  BY DEF Release
<1>3. CASE b.kind = "temporary"
  <2>1. WithExpiry(r, b, now) \in SUBSET Entry
        /\ \A e \in WithExpiry(r, b, now) :
             \E f \in leases : f.ip = e.ip /\ f.id = e.id
    BY <1>1, <1>3, WithExpiryFacts DEF Ind
  <2>2. leases' = WithExpiry(r, b, now) /\ disk' \in SUBSET Entry
        /\ FileIsCurrent' /\ reply' \in Reply
    BY <1>0, <1>2, <1>3, <2>1, CommitFacts
  <2> QED BY <1>1, <2>1, <2>2, SimpleStep
<1>4. CASE b.kind # "temporary"
  BY <1>0, <1>1, <1>2, <1>4, KeepFacts, SimpleStep DEF Silent
<1> QED BY <1>3, <1>4

\* An INFORM keeps it.
LEMMA InformStep ==
    ASSUME Ind, NEW r \in Request, Inform(r)
    PROVE  TypeOK' /\ FileIsCurrent' /\ Narrow
<1>0. r.id \in Client /\ r.ciaddr \in Addr \cup {NoAddr}
  BY DEF Request
<1>1. UNCHANGED <<config, pending, nextip, enabled, now, reclaimed>>
      /\ pending \in [Client -> Offer]
  BY DEF Inform, Ind, TypeOK
<1>2. reply' \in Reply
  BY <1>0, AnswerType DEF Inform, Send
<1> QED BY <1>1, <1>2, KeepFacts, SimpleStep DEF Inform

\* A REQUEST that selects this server keeps it: S_create_host adds an entry
\* for an address that was offered to this client and to no other.
LEMMA SelectUsStep ==
    ASSUME Ind, NEW r \in Request, SelectUs(r)
    PROVE  TypeOK' /\ FileIsCurrent' /\ Narrow
<1>0. r.id \in Client /\ NoReply(r.id) \in Reply
      /\ Answer("nak", r.id, NoAddr, 0) \in Reply
  BY NoReplyType, AnswerType DEF Request
<1>1. UNCHANGED <<config, pending, nextip, enabled, now, reclaimed>>
      /\ pending \in [Client -> Offer] /\ now \in Nat
  BY DEF SelectUs, Ind, TypeOK
<1> DEFINE hp == pending[r.id]
           offered == hp.ip # NoAddr
           ip(b) == IF offered THEN hp.ip ELSE b.ip
           lease(b) == IF offered THEN hp.lease ELSE BoundLease(r, b)
           expiry(b) == CASE offered /\ hp.lease = Infinite -> Infinite
                          [] offered /\ hp.lease # Infinite -> hp.lease + now
                          [] OTHER -> S_lease_time_expiry(b.expiry)
           ack(b) == Answer("ack", r.id, ip(b), lease(b))
<1>2. PICK b \in Lookup(r) :
         CASE b.kind = "none" /\ ~offered -> Keep(b) /\ Silent(r.id)
           [] (b.kind # "none" \/ offered) /\ r.reqip # ip(b) ->
                Keep(b) /\ Send(Answer("nak", r.id, NoAddr, 0))
           [] b.kind = "temporary" /\ r.reqip = ip(b) ->
                Commit(b, WithExpiry(r, b, expiry(b)), ack(b))
           [] b.kind = "permanent" /\ r.reqip = ip(b) -> Keep(b) /\ Send(ack(b))
           [] b.kind = "none" /\ offered /\ r.reqip = ip(b) /\ ~Configured(ip(b)) ->
                Keep(b) /\ Send(Answer("nak", r.id, NoAddr, 0))
           [] b.kind = "none" /\ offered /\ r.reqip = ip(b) /\ Configured(ip(b)) ->
                \E d \in DiskAfterLookup(b) :
                  /\ leases' = b.leases
                        \cup {[ip |-> ip(b), id |-> r.id, expiry |-> expiry(b)]}
                  /\ disk' \in Saved(d, leases')
                  /\ Send(ack(b))
  BY DEF SelectUs
<1>3. hp \in Offer /\ b.kind \in {"none", "temporary", "permanent"}
      /\ b.ip \in Addr \cup {NoAddr} /\ b.expiry \in Int
      /\ BoundLease(r, b) \in Nat
  BY <1>0, <1>1, LookupFacts, BoundLeaseType DEF Ind
<1>4. ip(b) \in Addr \cup {NoAddr} /\ lease(b) \in Nat
  BY <1>3 DEF Offer
<1>5. expiry(b) \in Int
  BY <1>1, <1>3, ServerAssumption DEF Offer, S_lease_time_expiry
<1>6. ack(b) \in Reply
  BY <1>0, <1>4, AnswerType
<1> HIDE DEF hp, ip, lease, expiry, ack
<1>7. CASE \/ b.kind = "none" /\ ~offered
           \/ (b.kind # "none" \/ offered) /\ r.reqip # ip(b)
           \/ b.kind = "permanent" /\ r.reqip = ip(b)
           \/ b.kind = "none" /\ offered /\ r.reqip = ip(b) /\ ~Configured(ip(b))
  <2>1. Keep(b) /\ reply' \in Reply
    BY <1>0, <1>2, <1>6, <1>7 DEF Silent, Send
  <2> QED BY <1>1, <2>1, KeepFacts, SimpleStep
<1>8. CASE b.kind = "temporary" /\ r.reqip = ip(b)
  <2>0. Commit(b, WithExpiry(r, b, expiry(b)), ack(b))
    BY <1>2, <1>8
  <2>1. WithExpiry(r, b, expiry(b)) \in SUBSET Entry
        /\ \A e \in WithExpiry(r, b, expiry(b)) :
             \E f \in leases : f.ip = e.ip /\ f.id = e.id
    BY <1>5, <1>8, WithExpiryFacts DEF Ind
  <2>2. leases' = WithExpiry(r, b, expiry(b)) /\ disk' \in SUBSET Entry
        /\ FileIsCurrent' /\ reply' \in Reply
    BY <1>6, <1>8, <2>0, <2>1, CommitFacts
  <2> QED BY <1>1, <2>1, <2>2, SimpleStep
<1>9. CASE b.kind = "none" /\ offered /\ r.reqip = ip(b) /\ Configured(ip(b))
  <2> DEFINE e == [ip |-> ip(b), id |-> r.id, expiry |-> expiry(b)]
  <2>0. PICK d \in DiskAfterLookup(b) :
          leases' = b.leases \cup {e} /\ disk' \in Saved(d, leases') /\ Send(ack(b))
    BY <1>2, <1>9
  <2>1. ip(b) = hp.ip /\ hp.ip \in Addr
    BY <1>3, <1>9 DEF ip, hp, Offer
  <2>2. e \in Entry
    BY <1>0, <1>5, <2>1 DEF Entry
  <2>3. leases' \in SUBSET Entry /\ disk' \in SUBSET Entry
    BY <2>0, <2>2, LookupFacts, DiskLookupFacts DEF Saved, Ind
  <2>4. FileIsCurrent'
    BY <2>0 DEF Saved, FileIsCurrent
  <2>5. \A f \in leases' : f.id \in Client => f.id \in Owners(f.ip)
    <3>1. e.id \in Owners(e.ip)
      BY <1>0, <2>1 DEF Owners, hp
    <3>2. \A f \in leases : f.id \in Client => f.id \in Owners(f.ip)
      BY DEF Owners
    <3>3. b.leases \subseteq leases
      BY LookupFacts DEF Ind
    <3> QED BY <2>0, <3>1, <3>2, <3>3
  <2>6. Narrow
    BY <1>1, <2>5, NarrowIf DEF Owners
  <2>7. TypeOK'
    BY <1>1, <1>6, <2>0, <2>3 DEF Ind, TypeOK, config, Send
  <2> QED BY <2>4, <2>6, <2>7
<1> QED BY <1>3, <1>7, <1>8, <1>9

\* INIT-REBOOT, RENEW and REBIND keep it.
LEMMA ReRequestStep ==
    ASSUME Ind, NEW r \in Request, ReRequest(r)
    PROVE  TypeOK' /\ FileIsCurrent' /\ Narrow
<1>0. /\ r.id \in Client /\ r.ciaddr \in Addr \cup {NoAddr}
      /\ UNCHANGED <<config, pending, nextip, enabled, now, reclaimed>>
      /\ pending \in [Client -> Offer] /\ now \in Nat
  BY DEF ReRequest, Request, Ind, TypeOK
<1> DEFINE expiry == IF LeaseMax = Infinite THEN Never ELSE LeaseMax + now
           ip(b) == IF r.reqip # NoAddr \/ r.bcast THEN b.ip ELSE r.ciaddr
<1>1. PICK b \in Lookup(r) :
        \/ Keep(b) /\ Send(Answer("ack", r.id, NoAddr, V6Lease))
        \/ Keep(b) /\ Silent(r.id)
        \/ Keep(b) /\ Send(Answer("nak", r.id, NoAddr, 0))
        \/ Keep(b) /\ Send(Answer("ack", r.id, ip(b), Infinite))
        \/ b.kind = "temporary" /\
             Commit(b, WithExpiry(r, b, expiry), Answer("ack", r.id, ip(b), LeaseMax))
  <2>1. PICK b \in Lookup(r) :
         LET reboot == r.reqip # NoAddr
             named == IF reboot THEN r.reqip ELSE r.ciaddr
             nak == Answer("nak", r.id, NoAddr, 0)
         IN
         CASE r.v6only ->
                Keep(b) /\ Send(Answer("ack", r.id, NoAddr, V6Lease))
           [] ~r.v6only /\ named = NoAddr -> Keep(b) /\ Silent(r.id)
           [] ~r.v6only /\ named # NoAddr /\ b.kind = "none" ->
                Keep(b) /\ (IF b.orphan THEN Send(nak) ELSE Silent(r.id))
           [] ~r.v6only /\ b.kind # "none" /\ reboot /\ named # b.ip ->
                Keep(b) /\ Send(nak)
           [] ~r.v6only /\ named # NoAddr /\ b.kind # "none" /\ ~reboot
                /\ r.bcast /\ named # b.ip -> Keep(b) /\ Silent(r.id)
           [] OTHER ->
                IF b.kind = "permanent"
                THEN Keep(b) /\ Send(Answer("ack", r.id, ip(b), Infinite))
                ELSE Commit(b, WithExpiry(r, b, expiry),
                            Answer("ack", r.id, ip(b), LeaseMax))
    BY DEF ReRequest
  <2>2. b.kind \in {"none", "temporary", "permanent"}
    BY LookupFacts DEF Ind
  <2> HIDE DEF expiry, ip
  <2> QED BY <2>1, <2>2
<1>2. expiry \in Int
  BY <1>0, ServerAssumption DEF Never
<1>3. ip(b) \in Addr \cup {NoAddr}
  BY <1>0, LookupFacts DEF Ind
<1>4. /\ NoReply(r.id) \in Reply
      /\ Answer("ack", r.id, NoAddr, V6Lease) \in Reply
      /\ Answer("nak", r.id, NoAddr, 0) \in Reply
      /\ Answer("ack", r.id, ip(b), Infinite) \in Reply
      /\ Answer("ack", r.id, ip(b), LeaseMax) \in Reply
  BY <1>0, <1>3, ServerAssumption DEF NoReply, Answer, Reply, V6Lease
<1> HIDE DEF expiry, ip
<1>5. CASE Keep(b) /\ reply' \in Reply
  BY <1>0, <1>5, KeepFacts, SimpleStep
<1>6. CASE b.kind = "temporary" /\
             Commit(b, WithExpiry(r, b, expiry), Answer("ack", r.id, ip(b), LeaseMax))
  <2>1. WithExpiry(r, b, expiry) \in SUBSET Entry
        /\ \A e \in WithExpiry(r, b, expiry) :
             \E f \in leases : f.ip = e.ip /\ f.id = e.id
    BY <1>2, <1>6, WithExpiryFacts DEF Ind
  <2>2. leases' = WithExpiry(r, b, expiry) /\ disk' \in SUBSET Entry
        /\ FileIsCurrent' /\ reply' \in Reply
    BY <1>4, <1>6, <2>1, CommitFacts
  <2> QED BY <1>0, <2>1, <2>2, SimpleStep
<1> QED BY <1>1, <1>4, <1>5, <1>6 DEF Send, Silent

\* A new allocation gives the address to nobody else: the owners of an address
\* that is neither static nor reclaimed are the old ones, or none.
AllocationNarrows(w, a) ==
    /\ \A c \in Client : w.pending[c].ip = a => c \in Owners(a)
    /\ \A e \in w.leases : e.ip = a /\ e.id \in Client => e.id \in Owners(a)
    /\ w.ip = a => /\ \A c \in Client : w.pending[c].ip # a
                   /\ \A e \in w.leases : e.ip # a

\* An allocation narrows the leases and the offers it started from.
LEMMA AllocationNarrow ==
    ASSUME Ind, ~DiskMayFail,
           NEW n \in Net, NEW l \in SUBSET leases, NEW d \in SUBSET Entry,
           NEW p \in [Client -> Offer],
           \A c \in Client : p[c] = pending[c] \/ p[c] = NoOffer,
           NEW w \in Allocations(n, l, d, p),
           NEW a \in Addr \ (EverStatic \cup reclaimed \cup w.taken)
    PROVE  AllocationNarrows(w, a)
<1>0. NoOffer.ip = NoAddr /\ a # NoAddr /\ a \in Addr
  BY DEF NoOffer, Addr, NoAddr
<1>1. AllocationOK(w, l, d, p)
  <2>1. TypeOK  BY DEF Ind
  <2> QED BY <2>1, AllocationFacts
<1>2. \A c \in Client : p[c].ip = a => c \in Owners(a)
  BY <1>0 DEF Owners
<1>3. \A c \in Client : w.pending[c].ip = a => c \in Owners(a)
  BY <1>0, <1>1, <1>2 DEF AllocationOK
<1>4. \A e \in w.leases : e.ip = a /\ e.id \in Client => e.id \in Owners(a)
  BY <1>1 DEF Owners, AllocationOK
<1>5. ASSUME w.ip = a
      PROVE  /\ \A c \in Client : w.pending[c].ip # a
             /\ \A e \in w.leases : e.ip # a
  <2>1. ~S_ipinuse(a, l, p) /\ w.pending \in DropStale(p, a)
    BY <1>0, <1>1, <1>5 DEF AllocationOK
  <2>2. \A c, e \in Client : p[c].ip = a /\ p[e].ip = a => c = e
    BY <1>2 DEF Ind, OneOwnerUntilReclaimed
  <2> QED BY <1>0, <1>1, <2>1, <2>2, DropStaleFacts DEF S_ipinuse, AllocationOK
<1> QED BY <1>3, <1>4, <1>5 DEF AllocationNarrows

\* A DISCOVER keeps it: the address offered is free, or was reclaimed.
LEMMA DiscoverStep ==
    ASSUME Ind, NEW r \in Request, Discover(r)
    PROVE  TypeOK' /\ FileIsCurrent' /\ Narrow
<1> DEFINE p == [pending EXCEPT ![r.id] = NoOffer]
<1>0. /\ r.id \in Client /\ r.net \in Net /\ r.lease \in Nat \cup {NoOption}
      /\ UNCHANGED <<config, enabled, now>>
      /\ pending \in [Client -> Offer] /\ now \in Nat
  BY DEF Discover, Request, Ind, TypeOK
<1>1. p \in [Client -> Offer] /\ \A c \in Client : p[c] = pending[c] \/ p[c] = NoOffer
  BY <1>0 DEF NoOffer, Offer
<1>2. PICK b \in Lookup(r) :
         \/ /\ r.v6only
            /\ Keep(b) /\ pending' = p
            /\ Send(Answer("offer", r.id, NoAddr, V6Lease))
            /\ UNCHANGED <<nextip, reclaimed>>
         \/ /\ ~r.v6only /\ b.kind # "none"
            /\ Keep(b)
            /\ pending' = [p EXCEPT ![r.id] =
                    [ip |-> b.ip, lease |-> BoundLease(r, b), tv |-> now]]
            /\ Send(Answer("offer", r.id, b.ip, BoundLease(r, b)))
            /\ UNCHANGED <<nextip, reclaimed>>
         \/ /\ ~r.v6only /\ b.kind = "none"
            /\ \E d \in DiskAfterLookup(b) :
               \E w \in Allocations(r.net, b.leases, d, p) :
                 LET l == IF r.lease = NoOption THEN LeaseMin
                          ELSE Clamp(r.lease, LeaseMin, LeaseMax) IN
                 /\ leases' = w.leases /\ disk' = w.disk
                 /\ nextip' = CursorsAfter(r.net, b.leases, p)
                 /\ reclaimed' = reclaimed \cup w.taken
                 /\ IF w.ip = NoAddr
                    THEN pending' = w.pending /\ Silent(r.id)
                    ELSE /\ pending' = [w.pending EXCEPT ![r.id] =
                                [ip |-> w.ip, lease |-> l, tv |-> now]]
                         /\ Send(Answer("offer", r.id, w.ip, l))
  BY DEF Discover
<1>3. CASE /\ Keep(b) /\ pending' = p
           /\ Send(Answer("offer", r.id, NoAddr, V6Lease))
           /\ UNCHANGED <<nextip, reclaimed>>
  <2>1. reply' \in Reply
    BY <1>0, <1>3, AnswerType DEF Send, V6Lease
  <2> HIDE DEF p
  <2> QED BY <1>0, <1>1, <1>3, <2>1, KeepFacts, SimpleStep
<1>4. CASE /\ b.kind # "none" /\ Keep(b)
           /\ pending' = [p EXCEPT ![r.id] =
                    [ip |-> b.ip, lease |-> BoundLease(r, b), tv |-> now]]
           /\ Send(Answer("offer", r.id, b.ip, BoundLease(r, b)))
           /\ UNCHANGED <<nextip, reclaimed>>
  <2>1. BoundLease(r, b) \in Nat /\ b.ip \in Addr
    BY <1>4, BoundLeaseType, LookupFacts DEF Ind
  <2>2. reply' \in Reply
    BY <1>0, <1>4, <2>1, AnswerType DEF Send
  <2>3. [ip |-> b.ip, lease |-> BoundLease(r, b), tv |-> now] \in Offer
    BY <1>0, <2>1 DEF Offer
  <2>4. pending' \in [Client -> Offer]
    BY <1>1, <1>4, <2>3
  <2>5. TypeOK'
    BY <1>0, <1>4, <2>2, <2>4, KeepFacts DEF Ind, TypeOK, config
  <2>6. r.id \in Owners(b.ip) \/ b.ip \in EverStatic
    <3>1. CASE b.kind = "temporary"
      BY <1>0, <3>1, LookupFacts DEF Ind, EntryOf, Owners
    <3>2. CASE b.kind = "permanent"
      BY <3>2, LookupFacts DEF Ind
    <3> QED BY <1>4, <3>1, <3>2, LookupFacts DEF Ind
  <2>7. \A c \in Client, a \in Addr \ (EverStatic \cup reclaimed') :
             pending'[c].ip = a => c \in Owners(a)
    <3> TAKE c \in Client, a \in Addr \ (EverStatic \cup reclaimed')
    <3>1. CASE c = r.id
      BY <1>0, <1>1, <1>4, <2>6, <3>1
    <3>2. CASE c # r.id
      BY <1>0, <1>4, <3>2 DEF Owners
    <3> QED BY <3>1, <3>2
  <2>8. \A e \in leases' : e.id \in Client => e.id \in Owners(e.ip)
    BY <1>4, KeepFacts DEF Owners
  <2>9. Narrow
    BY <1>4, <2>7, <2>8, NarrowIf
  <2> QED BY <1>4, <2>5, <2>9, KeepFacts
<1>5. ASSUME b.kind = "none",
             NEW d \in DiskAfterLookup(b),
             NEW w \in Allocations(r.net, b.leases, d, p),
             NEW l \in Nat,
             /\ leases' = w.leases /\ disk' = w.disk
             /\ nextip' = CursorsAfter(r.net, b.leases, p)
             /\ reclaimed' = reclaimed \cup w.taken
             /\ IF w.ip = NoAddr
                THEN pending' = w.pending /\ Silent(r.id)
                ELSE /\ pending' = [w.pending EXCEPT ![r.id] =
                            [ip |-> w.ip, lease |-> l, tv |-> now]]
                     /\ Send(Answer("offer", r.id, w.ip, l))
      PROVE  TypeOK' /\ FileIsCurrent' /\ Narrow
  <2> HIDE DEF p
  <2>1. b.leases \in SUBSET leases /\ d \in SUBSET Entry
        /\ (~DiskMayFail => d = b.leases)
    BY LookupFacts, DiskLookupFacts DEF Ind
  <2>2. AllocationOK(w, b.leases, d, p)
    <3>1. TypeOK  BY DEF Ind
    <3> QED BY <1>0, <1>1, <2>1, <3>1, AllocationFacts
  <2>3. [ip |-> w.ip, lease |-> l, tv |-> now] \in Offer
    BY <1>0, <2>2 DEF Offer, AllocationOK
  <2>4. pending' \in [Client -> Offer]
    BY <1>5, <2>2, <2>3 DEF AllocationOK
  <2>5. reply' \in Reply
    BY <1>0, <1>5, <2>2, AnswerType, NoReplyType DEF Send, Silent, AllocationOK
  <2>6. nextip' \in [Subnet -> Nat]
    BY <1>5, CursorsType DEF Ind
  <2>7. TypeOK'
    BY <1>0, <1>5, <2>1, <2>2, <2>4, <2>5, <2>6 DEF Ind, TypeOK, config, AllocationOK
  <2>8. FileIsCurrent'
    BY <1>5, <2>1, <2>2 DEF FileIsCurrent, AllocationOK
  <2>9. Narrow
    <3> SUFFICES ASSUME ~DiskMayFail, NEW a \in Addr \ (EverStatic \cup reclaimed')
                 PROVE  \/ Owners(a)' \subseteq Owners(a)
                        \/ \E c \in Client : Owners(a)' \subseteq {c}
      BY <1>5 DEF Narrow
    <3>1. AllocationNarrows(w, a)
      <4>1. a \in Addr \ (EverStatic \cup reclaimed \cup w.taken)
        BY <1>5
      <4> QED BY <1>0, <1>1, <2>1, <4>1, AllocationNarrow
    <3>2. CASE w.ip = a
      <4>1. \A c \in Client : c # r.id => pending'[c].ip # a
        BY <1>0, <1>5, <2>2, <3>1, <3>2 DEF AllocationOK, AllocationNarrows
      <4>2. \A e \in leases' : e.ip # a
        BY <1>5, <3>1, <3>2 DEF AllocationNarrows
      <4> QED BY <1>0, <4>1, <4>2 DEF Owners
    <3>3. CASE w.ip # a
      <4>1. \A c \in Client : pending'[c].ip = a => c \in Owners(a)
        BY <1>0, <1>5, <2>2, <3>1, <3>3 DEF AllocationOK, AllocationNarrows
      <4> QED BY <1>5, <3>1, <4>1 DEF Owners, AllocationNarrows
    <3> QED BY <3>2, <3>3
  <2> QED BY <2>7, <2>8, <2>9
<1>6. (IF r.lease = NoOption THEN LeaseMin ELSE Clamp(r.lease, LeaseMin, LeaseMax)) \in Nat
  BY <1>0, ServerAssumption DEF Clamp, NoOption
<1> HIDE DEF p
<1> QED BY <1>2, <1>3, <1>4, <1>5, <1>6

\* dhcp_bootp_allocate keeps it.
LEMMA BootpAllocateStep ==
    ASSUME Ind, NEW c \in Client, NEW n \in Net, BootpAllocate(c, n)
    PROVE  TypeOK' /\ FileIsCurrent' /\ Narrow
<1> DEFINE found == {e \in leases : e.id = c /\ NetOf[e.ip] = n}
           x == LeaseMax + now
<1>0. /\ reply' \in Reply /\ UNCHANGED <<config, enabled, now>>
      /\ pending \in [Client -> Offer] /\ now \in Nat
      /\ leases \subseteq Entry /\ disk \subseteq Entry
  BY NoReplyType DEF BootpAllocate, Silent, Ind, TypeOK
<1>1. x \in Int
  BY <1>0, ServerAssumption
<1> HIDE DEF x
<1>2. ASSUME NEW e \in found,
             /\ leases' = (leases \ {e}) \cup {[e EXCEPT !.expiry = x]}
             /\ IF leases' = leases THEN disk' = disk
                ELSE disk' \in Saved(disk, leases')
             /\ UNCHANGED <<pending, nextip, reclaimed>>
      PROVE  TypeOK' /\ FileIsCurrent' /\ Narrow
  <2>1. [e EXCEPT !.expiry = x] \in Entry /\ [e EXCEPT !.expiry = x].ip = e.ip
        /\ [e EXCEPT !.expiry = x].id = e.id
    BY <1>0, <1>1 DEF Entry
  <2>2. leases' \in SUBSET Entry /\ disk' \in SUBSET Entry
    BY <1>0, <1>2, <2>1 DEF Saved
  <2>3. FileIsCurrent'
    BY <1>2 DEF Saved, FileIsCurrent, Ind
  <2>4. \A f \in leases' : \E g \in leases : g.ip = f.ip /\ g.id = f.id
    BY <1>2, <2>1
  <2> QED BY <1>0, <1>2, <2>2, <2>3, <2>4, SimpleStep
<1>3. ASSUME NEW gone \in SUBSET leases,
             NEW w \in Allocations(n, leases \ gone, disk, pending),
             /\ leases' = IF w.ip = NoAddr THEN w.leases
                          ELSE w.leases \cup {[ip |-> w.ip, id |-> c,
                                               expiry |-> x]}
             /\ disk' \in IF gone = {} /\ w.ip = NoAddr THEN {w.disk}
                          ELSE Saved(w.disk, leases')
             /\ pending' = w.pending
             /\ nextip' = CursorsAfter(n, leases \ gone, pending)
             /\ reclaimed' = reclaimed \cup w.taken
      PROVE  TypeOK' /\ FileIsCurrent' /\ Narrow
  <2>1. AllocationOK(w, leases \ gone, disk, pending)
    <3>1. TypeOK /\ (leases \ gone) \in SUBSET leases /\ disk \in SUBSET Entry
      BY <1>0 DEF Ind
    <3> QED BY <1>0, <3>1, AllocationFacts
  <2>2. w.ip # NoAddr => [ip |-> w.ip, id |-> c, expiry |-> x] \in Entry
    BY <1>1, <2>1 DEF Entry, AllocationOK
  <2>3. leases' \in SUBSET Entry /\ disk' \in SUBSET Entry
    BY <1>0, <1>3, <2>1, <2>2 DEF Saved, AllocationOK
  <2>4. nextip' \in [Subnet -> Nat]
    BY <1>3, CursorsType DEF Ind
  <2>5. TypeOK'
    BY <1>0, <1>3, <2>1, <2>3, <2>4 DEF Ind, TypeOK, config, AllocationOK
  <2>6. FileIsCurrent'
    <3>1. CASE gone = {} /\ w.ip = NoAddr
      BY <1>3, <2>1, <3>1 DEF Ind, FileIsCurrent, AllocationOK
    <3>2. CASE ~(gone = {} /\ w.ip = NoAddr)
      BY <1>3, <3>2 DEF FileIsCurrent, Saved
    <3> QED BY <3>1, <3>2
  <2>7. Narrow
    <3> SUFFICES ASSUME ~DiskMayFail, NEW a \in Addr \ (EverStatic \cup reclaimed')
                 PROVE  \/ Owners(a)' \subseteq Owners(a)
                        \/ \E e \in Client : Owners(a)' \subseteq {e}
      BY <1>3 DEF Narrow
    <3>1. AllocationNarrows(w, a)
      <4>1. a \in Addr \ (EverStatic \cup reclaimed \cup w.taken)
        BY <1>3
      <4>2. (leases \ gone) \in SUBSET leases
        OBVIOUS
      <4> QED BY <1>0, <4>1, <4>2, AllocationNarrow
    <3>2. CASE w.ip = a
      <4>1. \A e \in leases' : e.ip = a => e.id = c
        BY <1>3, <3>1, <3>2 DEF AllocationNarrows
      <4> QED BY <1>3, <3>1, <3>2, <4>1 DEF Owners, AllocationNarrows
    <3>3. CASE w.ip # a
      BY <1>3, <3>1, <3>3 DEF Owners, AllocationNarrows
    <3> QED BY <3>2, <3>3
  <2> QED BY <2>5, <2>6, <2>7
<1>4. CASE \E e \in found :
            /\ Configured(e.ip)
            /\ leases' = (leases \ {e}) \cup {[e EXCEPT !.expiry = x]}
            /\ IF leases' = leases THEN disk' = disk
               ELSE disk' \in Saved(disk, leases')
            /\ UNCHANGED <<pending, nextip, reclaimed>>
  BY <1>2, <1>4
<1>5. CASE \E gone \in IF found = {} THEN {{}}
                      ELSE {{e} : e \in {f \in found : ~Configured(f.ip)}} :
          \E w \in Allocations(n, leases \ gone, disk, pending) :
            /\ leases' = IF w.ip = NoAddr THEN w.leases
                         ELSE w.leases \cup {[ip |-> w.ip, id |-> c,
                                              expiry |-> x]}
            /\ disk' \in IF gone = {} /\ w.ip = NoAddr THEN {w.disk}
                         ELSE Saved(w.disk, leases')
            /\ pending' = w.pending
            /\ nextip' = CursorsAfter(n, leases \ gone, pending)
            /\ reclaimed' = reclaimed \cup w.taken
  BY <1>3, <1>5
<1> QED BY <1>4, <1>5 DEF BootpAllocate, x

\* A reload keeps it, with the offers (SIGHUP) or without (restart).
LEMMA ReloadStep ==
    ASSUME Ind, Sighup \/ Restart
    PROVE  TypeOK' /\ FileIsCurrent' /\ Narrow
<1>1. /\ leases' = disk /\ disk' = disk /\ reclaimed' = reclaimed /\ now' = now
      /\ nextip' = First /\ enabled' = Net /\ reply' \in Reply
      /\ static' \in StaticTables
      /\ subnets' \subseteq Subnet /\ allocates' \subseteq subnets'
  BY ServerAssumption, NoReplyType DEF Sighup, Restart, Reload
<1>2. /\ pending' \in [Client -> Offer]
      /\ \A c \in Client : pending'[c] = pending[c] \/ pending'[c] = NoOffer
  <2>1. NoOffer \in Offer /\ pending \in [Client -> Offer]
    BY DEF Ind, TypeOK, NoOffer, Offer
  <2> QED BY <2>1 DEF Sighup, Restart
<1>3. First \in [Subnet -> Nat]
  BY ServerAssumption DEF Addr
<1>4. TypeOK'
  BY <1>1, <1>2, <1>3 DEF Ind, TypeOK
<1>5. FileIsCurrent'
  BY <1>1 DEF FileIsCurrent
<1>6. Narrow
  <2>1. \A c \in Client, a \in Addr : pending'[c].ip = a => c \in Owners(a)
    BY <1>2 DEF NoOffer, Addr, NoAddr, Owners
  <2>2. CASE DiskMayFail
    BY <1>1, <2>2 DEF Narrow
  <2>3. CASE ~DiskMayFail
    BY <1>1, <2>1, <2>3, NarrowIf DEF Ind, FileIsCurrent, Owners
  <2> QED BY <2>2, <2>3
<1> QED BY <1>4, <1>5, <1>6

\* The clock keeps it.
LEMMA TickStep ==
    ASSUME Ind, Tick
    PROVE  TypeOK' /\ FileIsCurrent' /\ Narrow
<1>1. TypeOK'
  BY NoReplyType DEF Ind, TypeOK, Tick, config
<1>2. FileIsCurrent' /\ Narrow
  BY NarrowIf DEF Ind, FileIsCurrent, Tick, Owners
<1> QED BY <1>1, <1>2

\* A step that changes nothing keeps it.
LEMMA StutterStep ==
    ASSUME Ind, UNCHANGED vars
    PROVE  TypeOK' /\ FileIsCurrent' /\ Narrow
<1>1. TypeOK'
  BY DEF Ind, TypeOK, vars
<1>2. FileIsCurrent' /\ Narrow
  BY NarrowIf DEF Ind, FileIsCurrent, vars, Owners
<1> QED BY <1>1, <1>2

\* The invariant holds when the server starts with an empty database.
LEMMA InitInd == Init => Ind
<1> SUFFICES ASSUME Init PROVE Ind
  OBVIOUS
<1>1. TypeOK
  BY ServerAssumption, NoReplyType DEF Init, TypeOK, NoOffer, Offer, Addr
<1>2. FileIsCurrent /\ OneOwnerUntilReclaimed
  BY DEF Init, FileIsCurrent, OneOwnerUntilReclaimed, Owners, NoOffer, Addr, NoAddr
<1> QED BY <1>1, <1>2 DEF Ind

\* Every step keeps the invariant.
LEMMA StepInd == Ind /\ [Next]_vars => Ind'
<1> SUFFICES ASSUME Ind, [Next]_vars PROVE Ind'
  OBVIOUS
<1> SUFFICES TypeOK' /\ FileIsCurrent' /\ Narrow
  BY NarrowKeepsOneOwner DEF Ind
<1>1. ASSUME NEW r \in Inputs, Handle(r)
      PROVE  TypeOK' /\ FileIsCurrent' /\ Narrow
  <2>1. r \in Request
    BY InputsAssumption
  <2> QED BY <1>1, <2>1, DiscoverStep, SelectOtherStep, SelectUsStep,
             ReRequestStep, DeclineStep, ReleaseStep, InformStep DEF Handle
<1>2. ASSUME NEW c \in Client, NEW n \in Net, BootpAllocate(c, n)
      PROVE  TypeOK' /\ FileIsCurrent' /\ Narrow
  BY <1>2, BootpAllocateStep
<1>3. CASE Sighup \/ Restart
  BY <1>3, ReloadStep
<1>4. CASE Tick
  BY <1>4, TickStep
<1>5. CASE UNCHANGED vars
  BY <1>5, StutterStep
<1> QED BY <1>1, <1>2, <1>3, <1>4, <1>5 DEF Next

\* The conjunction is an invariant: it holds initially and every step of a
\* handler, a reload, a restart or the clock keeps it.
THEOREM Invariance == Spec => []Ind
BY InitInd, StepInd, PTL DEF Spec

\* Every variable of the server has its type in every reachable state: the
\* database and the file hold only well-formed entries, the cursors stay
\* natural numbers and allocates stays within subnets.
THEOREM TypeCorrect == Spec => []TypeOK
<1>1. Ind => TypeOK  BY DEF Ind
<1> QED BY Invariance, <1>1, PTL

\* While PLCache_write succeeds, DHCP_LEASES_FILE equals S_leases whenever no
\* handler is running.
THEOREM FileCorrect == Spec => []FileIsCurrent
<1>1. Ind => FileIsCurrent  BY DEF Ind
<1> QED BY Invariance, <1>1, PTL

\* For every number of clients, nets, subnet entries and addresses: an address
\* that is in no bootptab and that DHCPLeases_reclaim never took has at most
\* one owner among the leases and the offers.
THEOREM OneOwner == Spec => []OneOwnerUntilReclaimed
<1>1. Ind => OneOwnerUntilReclaimed  BY DEF Ind
<1> QED BY Invariance, <1>1, PTL

-----------------------------------------------------------------------------
(* Only a client's own packet takes its live lease                         *)

Live(e) == e.expiry = Never \/ now <= e.expiry
Taken(c) == \A e \in leases : Live(e) /\ e \notin leases' => e.id = c

\* A handler that only looks a binding up takes at most its own client's
\* entry.
LEMMA KeepTakes ==
    ASSUME TypeOK, NEW r \in Request, NEW b \in Lookup(r), leases' = b.leases
    PROVE  Taken(r.id)
BY LookupFacts DEF Taken

\* So does one that commits a change of that entry.
LEMMA CommitTakes ==
    ASSUME TypeOK, NEW r \in Request, NEW b \in Lookup(r), NEW l, NEW rep,
           b.leases \ {EntryOf(r, b)} \subseteq l, rep.id = r.id, Commit(b, l, rep)
    PROVE  Taken(r.id) /\ reply'.id = r.id
<1>1. Taken(r.id)
  <2>1. leases' = l /\ EntryOf(r, b).id = r.id
    BY DEF Commit, EntryOf
  <2>2. \A e \in leases \ b.leases : e.id = r.id
    BY LookupFacts
  <2> QED BY <2>1, <2>2 DEF Taken
<1>2. NoReply(rep.id).id = r.id
  BY DEF NoReply, Answer
<1>3. reply' = rep \/ reply' = NoReply(rep.id)
  BY DEF Commit, Send, Silent
<1> QED BY <1>1, <1>2, <1>3

\* A DISCOVER takes what its client had and, at most, an expired lease.
LEMMA DiscoverTakes ==
    ASSUME Ind, NEW r \in Request, Discover(r)
    PROVE  Taken(r.id) /\ reply'.id = r.id
<1> DEFINE p == [pending EXCEPT ![r.id] = NoOffer]
<1>0. TypeOK /\ p \in [Client -> Offer] /\ r.net \in Net
  BY DEF Ind, TypeOK, NoOffer, Offer, Request
<1> HIDE DEF p
<1>1. PICK b \in Lookup(r) :
        \/ Keep(b)
        \/ \E d \in DiskAfterLookup(b) :
           \E w \in Allocations(r.net, b.leases, d, p) : leases' = w.leases
  BY DEF Discover, p
<1>2. ASSUME Keep(b) PROVE Taken(r.id)
  BY <1>0, <1>2, KeepTakes DEF Keep
<1>3. ASSUME NEW d \in DiskAfterLookup(b),
             NEW w \in Allocations(r.net, b.leases, d, p), leases' = w.leases
      PROVE  Taken(r.id)
  <2>1. b.leases \in SUBSET leases /\ d \in SUBSET Entry
    BY <1>0, LookupFacts, DiskLookupFacts
  <2>2. AllocationOK(w, b.leases, d, p)
    BY <1>0, <2>1, AllocationFacts
  <2>3. \A e \in b.leases \ w.leases : ~Live(e)
    <3> TAKE e \in b.leases \ w.leases
    <3>1. e.expiry # Never /\ now > e.expiry
      BY <2>2 DEF AllocationOK
    <3>2. e.expiry \in Int /\ now \in Nat
      BY <1>0, <2>1 DEF TypeOK, Entry
    <3> QED BY <3>1, <3>2 DEF Live
  <2>4. \A e \in leases \ b.leases : e.id = r.id
    BY <1>0, LookupFacts
  <2> QED BY <1>3, <2>3, <2>4 DEF Taken
<1>4. \E t, a, l : reply' = Answer(t, r.id, a, l)
  <2>1. \/ Send(Answer("offer", r.id, NoAddr, V6Lease))
        \/ \E c \in Lookup(r) : Send(Answer("offer", r.id, c.ip, BoundLease(r, c)))
        \/ Silent(r.id)
        \/ \E c \in Lookup(r) : \E d \in DiskAfterLookup(c) :
           \E w \in Allocations(r.net, c.leases, d, p) :
             Send(Answer("offer", r.id, w.ip,
                         IF r.lease = NoOption THEN LeaseMin
                         ELSE Clamp(r.lease, LeaseMin, LeaseMax)))
    BY Zenon DEF Discover, p
  <2> QED BY <2>1 DEF Send, Silent, NoReply
<1>5. reply'.id = r.id
  BY <1>4 DEF Answer
<1> QED BY <1>1, <1>2, <1>3, <1>5

\* A REQUEST that selects this server takes only its client's entry.
LEMMA SelectUsTakes ==
    ASSUME Ind, NEW r \in Request, SelectUs(r)
    PROVE  Taken(r.id) /\ reply'.id = r.id
<1>0. TypeOK  BY DEF Ind
<1>1. PICK b \in Lookup(r) :
        \/ /\ b.leases \subseteq leases'
           /\ \E t, a, l : reply' = Answer(t, r.id, a, l)
        \/ \E x, a, l : Commit(b, WithExpiry(r, b, x), Answer("ack", r.id, a, l))
  <2>1. PICK b \in Lookup(r) :
         LET hp == pending[r.id]
             offered == hp.ip # NoAddr
             ip == IF offered THEN hp.ip ELSE b.ip
             lease == IF offered THEN hp.lease ELSE BoundLease(r, b)
             expiry == CASE offered /\ hp.lease = Infinite -> Infinite
                         [] offered /\ hp.lease # Infinite -> hp.lease + now
                         [] OTHER -> S_lease_time_expiry(b.expiry)
             ack == Answer("ack", r.id, ip, lease)
         IN
         \/ leases' = b.leases /\ reply' = Answer("none", r.id, NoAddr, 0)
         \/ leases' = b.leases /\ reply' = Answer("nak", r.id, NoAddr, 0)
         \/ leases' = b.leases /\ reply' = ack
         \/ Commit(b, WithExpiry(r, b, expiry), ack)
         \/ b.leases \subseteq leases' /\ reply' = ack
    <3>1. \A b \in Lookup(r) : b.kind \in {"none", "temporary", "permanent"}
      BY <1>0, LookupFacts
    <3> QED BY <3>1 DEF SelectUs, Keep, Silent, Send, NoReply
  <2> QED BY <2>1
<1>2. CASE /\ b.leases \subseteq leases'
           /\ \E t, a, l : reply' = Answer(t, r.id, a, l)
  <2>1. \A e \in leases \ b.leases : e.id = r.id
    BY <1>0, LookupFacts
  <2> QED BY <1>2, <2>1 DEF Taken, Answer
<1>3. CASE \E x, a, l : Commit(b, WithExpiry(r, b, x), Answer("ack", r.id, a, l))
  <2>1. PICK x, a, l : Commit(b, WithExpiry(r, b, x), Answer("ack", r.id, a, l))
    BY <1>3
  <2>2. b.leases \ {EntryOf(r, b)} \subseteq WithExpiry(r, b, x)
    BY DEF WithExpiry
  <2>3. Answer("ack", r.id, a, l).id = r.id
    BY DEF Answer
  <2> QED BY <1>0, <2>1, <2>2, <2>3, CommitTakes
<1> QED BY <1>1, <1>2, <1>3

\* INIT-REBOOT, RENEW and REBIND take only their client's entry.
LEMMA ReRequestTakes ==
    ASSUME Ind, NEW r \in Request, ReRequest(r)
    PROVE  Taken(r.id) /\ reply'.id = r.id
<1>0. TypeOK  BY DEF Ind
<1>1. PICK b \in Lookup(r) :
        \/ leases' = b.leases /\ \E t, a, l : reply' = Answer(t, r.id, a, l)
        \/ \E x, a, l : Commit(b, WithExpiry(r, b, x), Answer("ack", r.id, a, l))
  BY DEF ReRequest, Keep, Send, Silent, NoReply
<1>2. CASE leases' = b.leases /\ \E t, a, l : reply' = Answer(t, r.id, a, l)
  <2>1. reply'.id = r.id
    BY <1>2 DEF Answer
  <2> QED BY <1>0, <1>2, <2>1, KeepTakes
<1>3. CASE \E x, a, l : Commit(b, WithExpiry(r, b, x), Answer("ack", r.id, a, l))
  <2>1. PICK x, a, l : Commit(b, WithExpiry(r, b, x), Answer("ack", r.id, a, l))
    BY <1>3
  <2>2. b.leases \ {EntryOf(r, b)} \subseteq WithExpiry(r, b, x)
    BY DEF WithExpiry
  <2>3. Answer("ack", r.id, a, l).id = r.id
    BY DEF Answer
  <2> QED BY <1>0, <2>1, <2>2, <2>3, CommitTakes
<1> QED BY <1>1, <1>2, <1>3

\* The remaining messages take only their client's entry.
LEMMA OtherTakes ==
    ASSUME Ind, NEW r \in Request,
           SelectOther(r) \/ Decline(r) \/ Release(r) \/ Inform(r)
    PROVE  Taken(r.id) /\ reply'.id = r.id
<1>0. TypeOK /\ NoReply(r.id).id = r.id
  BY DEF Ind, NoReply, Answer
<1>1. CASE SelectOther(r)
  <2>1. PICK b \in Lookup(r) : leases' = b.leases \ {EntryOf(r, b)} \/ leases' = b.leases
    BY <1>1 DEF SelectOther, Keep
  <2>2. EntryOf(r, b).id = r.id /\ \A e \in leases \ b.leases : e.id = r.id
    BY <1>0, LookupFacts DEF EntryOf
  <2>3. reply'.id = r.id
    BY <1>0, <1>1 DEF SelectOther, Silent
  <2> QED BY <2>1, <2>2, <2>3 DEF Taken
<1>2. CASE Decline(r)
  <2>1. PICK b \in Lookup(r) :
          \/ leases' = b.leases /\ reply' = NoReply(r.id)
          \/ \E l : /\ b.leases \ {EntryOf(r, b)} \subseteq l
                    /\ Commit(b, l, NoReply(r.id))
    BY <1>2 DEF Decline, Keep, Silent
  <2> QED BY <1>0, <2>1, KeepTakes, CommitTakes
<1>3. CASE Release(r)
  <2>1. PICK b \in Lookup(r) :
          \/ leases' = b.leases /\ reply' = NoReply(r.id)
          \/ \E l : /\ b.leases \ {EntryOf(r, b)} \subseteq l
                    /\ Commit(b, l, NoReply(r.id))
    BY <1>3 DEF Release, Keep, Silent, WithExpiry
  <2> QED BY <1>0, <2>1, KeepTakes, CommitTakes
<1>4. CASE Inform(r)
  <2>1. reply'.id = r.id
    BY <1>4 DEF Inform, Send, Answer
  <2> QED BY <1>0, <1>4, <2>1, KeepTakes DEF Inform, Keep
<1> QED BY <1>1, <1>2, <1>3, <1>4

\* dhcp_bootp_allocate takes its client's entry and, at most, an expired one.
LEMMA BootpTakes ==
    ASSUME Ind, NEW c \in Client, NEW n \in Net, BootpAllocate(c, n)
    PROVE  Taken(c) /\ reply'.id = c
<1> DEFINE found == {e \in leases : e.id = c /\ NetOf[e.ip] = n}
<1>0. TypeOK /\ pending \in [Client -> Offer] /\ disk \in SUBSET Entry
      /\ reply'.id = c
  BY DEF Ind, TypeOK, BootpAllocate, Silent, NoReply, Answer
<1>1. \/ \E e \in found : leases \ {e} \subseteq leases'
      \/ \E gone \in SUBSET found :
         \E w \in Allocations(n, leases \ gone, disk, pending) : w.leases \subseteq leases'
  <2>1. CASE \E e \in found : leases \ {e} \subseteq leases'
    BY <2>1
  <2>2. CASE \E gone \in IF found = {} THEN {{}}
                         ELSE {{e} : e \in {f \in found : ~Configured(f.ip)}} :
             \E w \in Allocations(n, leases \ gone, disk, pending) :
               leases' = IF w.ip = NoAddr THEN w.leases
                         ELSE w.leases \cup {[ip |-> w.ip, id |-> c,
                                              expiry |-> LeaseMax + now]}
    <3>1. PICK gone \in IF found = {} THEN {{}}
                        ELSE {{e} : e \in {f \in found : ~Configured(f.ip)}} :
             \E w \in Allocations(n, leases \ gone, disk, pending) :
               w.leases \subseteq leases'
      BY <2>2
    <3>2. gone \in SUBSET found
      OBVIOUS
    <3> QED BY <3>1, <3>2
  <2> QED BY <2>1, <2>2 DEF BootpAllocate
<1>2. ASSUME NEW gone \in SUBSET found,
             NEW w \in Allocations(n, leases \ gone, disk, pending),
             w.leases \subseteq leases'
      PROVE  Taken(c)
  <2>1. AllocationOK(w, leases \ gone, disk, pending)
    <3>1. (leases \ gone) \in SUBSET leases
      OBVIOUS
    <3> QED BY <1>0, <3>1, AllocationFacts
  <2>2. \A e \in (leases \ gone) \ w.leases : ~Live(e)
    <3> TAKE e \in (leases \ gone) \ w.leases
    <3>1. e.expiry # Never /\ now > e.expiry
      BY <2>1 DEF AllocationOK
    <3>2. e.expiry \in Int /\ now \in Nat
      BY <1>0 DEF TypeOK, Entry
    <3> QED BY <3>1, <3>2 DEF Live
  <2> QED BY <1>2, <2>2 DEF Taken
<1> QED BY <1>0, <1>1, <1>2 DEF Taken

\* For every instance: a packet of one client never changes or removes the
\* unexpired lease of another, nor a declined address that still waits.
THEOREM LiveLeases == Spec => LiveLeaseKept
<1>1. Ind /\ [Next]_vars =>
        [reply'.id # NoClient =>
           \A e \in leases :
             (e.expiry = Never \/ now <= e.expiry) /\ e \notin leases'
               => e.id = reply'.id]_vars
  <2> SUFFICES ASSUME Ind, Next, reply'.id # NoClient
               PROVE  \A e \in leases :
                        (e.expiry = Never \/ now <= e.expiry) /\ e \notin leases'
                          => e.id = reply'.id
    OBVIOUS
  <2> SUFFICES \E c \in Client : Taken(c) /\ reply'.id = c
    BY DEF Taken, Live
  <2>1. ASSUME NEW r \in Inputs, Handle(r) PROVE Taken(r.id) /\ reply'.id = r.id
    <3>1. r \in Request
      BY InputsAssumption
    <3> QED BY <2>1, <3>1, DiscoverTakes, SelectUsTakes, ReRequestTakes,
               OtherTakes DEF Handle
  <2>2. \A r \in Inputs : r.id \in Client
    BY InputsAssumption DEF Request
  <2>3. ~(Sighup \/ Restart \/ Tick)
    BY DEF Sighup, Restart, Reload, Tick, NoReply, Answer
  <2> QED BY <2>1, <2>2, <2>3, BootpTakes DEF Next
<1> QED BY <1>1, Invariance, PTL DEF Spec, LiveLeaseKept

-----------------------------------------------------------------------------
(* One lease of a client on a net                                          *)

OneLease(l) ==
    \A e, f \in l : e.id = f.id /\ e.id # NoClient /\ NetOf[e.ip] = NetOf[f.ip] => e = f

\* A scan for a free address starts in the range of its subnet entry.
CursorOK == \A s \in Subnet : ScanStart(s) >= First[s]

IndLease == Ind /\ OneLease(leases) /\ OneLease(disk) /\ CursorOK

\* A part of the database, an entry that keeps its address and its client or
\* loses it, and a first entry on a net.
LEMMA OneLeasePart == ASSUME NEW l, OneLease(l), NEW m, m \subseteq l PROVE OneLease(m)
  BY DEF OneLease

LEMMA OneLeaseReplaced ==
    ASSUME NEW l, OneLease(l), NEW e \in l, NEW x, x.ip = e.ip, x.id = e.id \/ x.id = NoClient
    PROVE  OneLease((l \ {e}) \cup {x})
<1> SUFFICES ASSUME NEW g \in (l \ {e}) \cup {x}, NEW h \in (l \ {e}) \cup {x},
                    g.id = h.id, g.id # NoClient, NetOf[g.ip] = NetOf[h.ip]
             PROVE  g = h
  BY DEF OneLease
<1>1. CASE g = x /\ h # x
  <2>1. e.id = h.id /\ e.id # NoClient /\ NetOf[e.ip] = NetOf[h.ip] /\ h \in l /\ h # e
    BY <1>1
  <2> QED BY <2>1 DEF OneLease
<1>2. CASE g # x /\ h = x
  <2>1. e.id = g.id /\ e.id # NoClient /\ NetOf[e.ip] = NetOf[g.ip] /\ g \in l /\ g # e
    BY <1>2
  <2> QED BY <2>1 DEF OneLease
<1>3. CASE g # x /\ h # x
  BY <1>3 DEF OneLease
<1> QED BY <1>1, <1>2, <1>3

LEMMA OneLeaseAdded ==
    ASSUME NEW l, OneLease(l), NEW x, \A e \in l : ~(e.id = x.id /\ NetOf[e.ip] = NetOf[x.ip])
    PROVE  OneLease(l \cup {x})
<1> SUFFICES ASSUME NEW g \in l \cup {x}, NEW h \in l \cup {x},
                    g.id = h.id, g.id # NoClient, NetOf[g.ip] = NetOf[h.ip]
             PROVE  g = h
  BY DEF OneLease
<1> QED BY DEF OneLease

\* A client that Lookup finds no binding for has no entry left on its net,
\* and had none there that could be renewed.
LEMMA LookupNone ==
    ASSUME TypeOK, OneLease(leases), NEW r \in Request, r.ciaddr = NoAddr,
           NEW b \in Lookup(r), b.kind = "none"
    PROVE  /\ \A e \in b.leases : ~(e.id = r.id /\ NetOf[e.ip] = r.net)
           /\ \A e \in leases : e.id = r.id /\ NetOf[e.ip] = r.net => ~Allocatable(e.ip)
<1> DEFINE found == {e \in leases : e.id = r.id /\ subnet_match(r, e.ip)}
<1>0. leases \subseteq Entry /\ r.id # NoClient
  BY ServerAssumption DEF TypeOK, Request
<1>1. ~(static[r.id] # NoAddr /\ subnet_match(r, static[r.id]))
  <2>1. Binding("permanent", static[r.id], Never, FALSE, leases).kind # "none"
    BY DEF Binding
  <2> QED BY <2>1 DEF Lookup
<1>2. \A e \in leases : e.id = r.id => (e \in found <=> NetOf[e.ip] = r.net)
  BY <1>0 DEF subnet_match, Entry, Addr, NoAddr
<1>3. CASE found = {}
  <2>1. b = Binding("none", NoAddr, 0, FALSE, leases)
    BY <1>1, <1>3 DEF Lookup
  <2>2. b.leases = leases
    BY <2>1 DEF Binding
  <2> QED BY <1>2, <1>3, <2>2
<1>4. CASE found # {}
  <2>1. PICK e \in found :
          b = IF Allocatable(e.ip)
              THEN Binding("temporary", e.ip, e.expiry, FALSE, leases)
              ELSE Binding("none", NoAddr, 0, TRUE, leases \ {e})
    BY <1>1, <1>4 DEF Lookup
  <2>2. ~Allocatable(e.ip) /\ b.leases = leases \ {e}
    BY <2>1 DEF Binding
  <2>3. e \in leases /\ e.id = r.id /\ NetOf[e.ip] = r.net
    BY <1>2
  <2>4. \A f \in leases : f.id = r.id /\ NetOf[f.ip] = r.net => f = e
    BY <1>0, <2>3 DEF OneLease
  <2> QED BY <2>2, <2>4
<1> QED BY <1>3, <1>4

\* Lookup writes the database it leaves, or nothing.
LEMMA DiskLookupOne ==
    ASSUME NEW r, NEW b, NEW d \in DiskAfterLookup(b)
    PROVE  d = disk \/ d = b.leases
  BY DEF DiskAfterLookup, Saved

LEMMA KeepOne ==
    ASSUME IndLease, NEW r \in Request, NEW b \in Lookup(r), Keep(b)
    PROVE  OneLease(leases') /\ OneLease(disk')
<1>1. OneLease(b.leases)
  BY LookupFacts, OneLeasePart DEF IndLease, Ind
<1> QED BY <1>1, DiskLookupOne DEF Keep, IndLease

LEMMA CommitOne ==
    ASSUME IndLease, NEW b, NEW l, NEW rep, OneLease(l), Commit(b, l, rep)
    PROVE  OneLease(leases') /\ OneLease(disk')
  BY DEF Commit, IndLease

LEMMA WithExpiryOne ==
    ASSUME IndLease, NEW r \in Request, NEW b \in Lookup(r), b.kind = "temporary", NEW x
    PROVE  OneLease(WithExpiry(r, b, x))
<1>1. b.leases = leases /\ EntryOf(r, b) \in leases
  BY LookupFacts DEF IndLease, Ind
<1>2. [EntryOf(r, b) EXCEPT !.expiry = x].ip = EntryOf(r, b).ip
      /\ [EntryOf(r, b) EXCEPT !.expiry = x].id = EntryOf(r, b).id
  BY DEF EntryOf
<1> QED BY <1>1, <1>2, OneLeaseReplaced DEF WithExpiry, IndLease

\* The address found lies on the net of the request, and the cursors stay in
\* their ranges.
LEMMA AcquireOnNet ==
    ASSUME TypeOK, CursorOK, NEW n, NEW l, NEW p, acquire_ip(n, l, p) # NoAddr
    PROVE  /\ NetOf[acquire_ip(n, l, p)] = n
           /\ WithFree(n, l, p) # {} /\ Min(WithFree(n, l, p)) \in WithFree(n, l, p)
           /\ acquire_ip(n, l, p) >= First[Min(WithFree(n, l, p))]
<1> DEFINE W == WithFree(n, l, p)
<1>1. W # {} /\ W \subseteq Subnet /\ W \in SUBSET Nat
  <2>1. W # {}
    BY DEF acquire_ip
  <2>2. W \subseteq subnets /\ subnets \subseteq Subnet
    BY DEF WithFree, Eligible, TypeOK
  <2>3. Subnet \subseteq Nat
    BY ServerAssumption DEF Subnet
  <2> QED BY <2>1, <2>2, <2>3
<1>2. Min(W) \in W
  BY <1>1, MinIsMember
<1> DEFINE F == FreeIn(Min(W), l, p)
<1>3. F # {} /\ NetOf[First[Min(W)]] = n
  BY <1>2 DEF WithFree, Eligible
<1>4. First[Min(W)] \in Addr /\ Last[Min(W)] \in Addr /\ nextip[Min(W)] \in Nat
  BY <1>1, <1>2, ServerAssumption DEF TypeOK
<1>5. F \in SUBSET Nat /\ \A a \in F : a <= Last[Min(W)] /\ a >= ScanStart(Min(W))
  BY <1>4 DEF FreeIn, ScanStart, Addr
<1>6. Min(F) \in F
  BY <1>3, <1>5, MinIsMember
<1>7. acquire_ip(n, l, p) = Min(F)
  BY <1>1 DEF acquire_ip
<1>8. ScanStart(Min(W)) >= First[Min(W)]
  BY <1>1, <1>2 DEF CursorOK
<1>9. Min(F) \in First[Min(W)] .. Last[Min(W)]
  <2> HIDE DEF F, W
  <2>1. PICK m \in Nat : m = Min(F) /\ m <= Last[Min(W)] /\ m >= ScanStart(Min(W))
    BY <1>5, <1>6
  <2>2. ScanStart(Min(W)) \in Nat /\ First[Min(W)] \in Nat /\ Last[Min(W)] \in Nat
    BY <1>4 DEF ScanStart, Addr
  <2>3. m \in First[Min(W)] .. Last[Min(W)]
    BY <1>8, <2>1, <2>2
  <2> QED BY <2>1, <2>3
<1>10. NetOf[Min(F)] = n
  <2>1. Min(W) \in Subnet
    BY <1>1, <1>2
  <2> HIDE DEF F, W
  <2> QED BY <1>3, <1>9, <2>1, ServerAssumption
<1>11. Min(F) >= First[Min(W)]
  <2> HIDE DEF F, W
  <2> QED BY <1>9, <1>4 DEF Addr
<1> QED BY <1>1, <1>2, <1>7, <1>10, <1>11

LEMMA CursorsKept ==
    ASSUME TypeOK, CursorOK, NEW n, NEW l, NEW p, nextip' = CursorsAfter(n, l, p)
    PROVE  CursorOK'
<1> SUFFICES ASSUME NEW s \in Subnet PROVE ScanStart(s)' >= First[s]
  BY DEF CursorOK
<1> DEFINE W == WithFree(n, l, p)
<1>1. First[s] \in Nat /\ Last[s] \in Nat /\ nextip[s] \in Nat
  BY ServerAssumption DEF TypeOK, Addr
<1>2. nextip'[s] \in {nextip[s], Last[s] + 1}
        \/ (s \in W /\ (\A t \in W : s <= t) /\ nextip'[s] = acquire_ip(n, l, p))
  BY DEF CursorsAfter
<1>3. CASE nextip'[s] = nextip[s]
  BY <1>3 DEF CursorOK, ScanStart
<1>4. CASE nextip'[s] = Last[s] + 1
  BY <1>1, <1>4 DEF ScanStart
<1>5. CASE s \in W /\ (\A t \in W : s <= t) /\ nextip'[s] = acquire_ip(n, l, p)
  <2>1. W \in SUBSET Nat /\ W # {}
    <3>1. W \subseteq subnets /\ subnets \subseteq Subnet
      BY DEF WithFree, Eligible, TypeOK
    <3>2. Subnet \subseteq Nat
      BY ServerAssumption DEF Subnet
    <3> QED BY <1>5, <3>1, <3>2
  <2>2. Min(W) \in W /\ \A y \in W : Min(W) <= y
    BY <2>1, MinIsMember
  <2>3. Min(W) = s
    <3> HIDE DEF W
    <3>1. PICK m \in Nat : m = Min(W) /\ m \in W /\ m <= s
      BY <1>5, <2>1, <2>2
    <3>2. s \in Nat /\ s <= m
      BY <1>5, <2>1, <3>1
    <3> QED BY <3>1, <3>2
  <2>4. CASE acquire_ip(n, l, p) # NoAddr
    <3>1. acquire_ip(n, l, p) >= First[s]
      BY <2>3, <2>4, AcquireOnNet
    <3> QED BY <1>1, <1>5, <3>1 DEF ScanStart
  <2>5. CASE acquire_ip(n, l, p) = NoAddr
    <3> DEFINE F == FreeIn(s, l, p)
    <3>1. F \in SUBSET Nat /\ F # {} /\ \A a \in F : a >= ScanStart(s)
      BY <1>1, <1>5 DEF WithFree, FreeIn, ScanStart
    <3>2. Min(F) \in F
      BY <3>1, MinIsMember
    <3>3. acquire_ip(n, l, p) = Min(F)
      BY <2>1, <2>3 DEF acquire_ip
    <3>4. PICK m \in Nat : m = Min(F) /\ m >= ScanStart(s)
      BY <3>1, <3>2
    <3>5. ScanStart(s) >= First[s]
      BY DEF CursorOK
    <3>6. ScanStart(s) \in Nat
      BY <1>1 DEF ScanStart
    <3>7. nextip'[s] >= First[s]
      <4> HIDE DEF F
      <4> QED BY <1>1, <1>5, <3>3, <3>4, <3>5, <3>6
    <3> QED BY <1>1, <3>7 DEF ScanStart
  <2> QED BY <2>4, <2>5
<1> QED BY <1>2, <1>3, <1>4, <1>5

\* What an allocation writes is a part of what there was, and its address is
\* one of the net.
LEMMA AllocationOnNet ==
    ASSUME TypeOK, CursorOK, NEW n, NEW l \in SUBSET leases, NEW d, NEW p, NEW w \in Allocations(n, l, d, p)
    PROVE  /\ w.leases \subseteq l
           /\ w.disk = d \/ w.disk \subseteq l
           /\ w.ip # NoAddr => NetOf[w.ip] = n
<1> DEFINE a == acquire_ip(n, l, p)
<1>1. CASE a # NoAddr
  <2>1. PICK q \in DropStale(p, a) : w = Allocation(a, l, d, q, {})
    BY <1>1 DEF Allocations
  <2>2. NetOf[a] = n
    BY <1>1, AcquireOnNet
  <2> HIDE DEF a
  <2> QED BY <2>1, <2>2 DEF Allocation
<1>2. CASE a = NoAddr /\ Reclaimable(n, l) = {}
  <2>1. w = Allocation(NoAddr, l, d, p, {})
    BY <1>2 DEF Allocations
  <2> QED BY <2>1 DEF Allocation
<1>3. CASE a = NoAddr /\ Reclaimable(n, l) # {}
  <2>1. PICK e \in Reclaimable(n, l) : \E f \in Saved(d, l \ {e}) :
          w = Allocation(IF Configured(e.ip) THEN e.ip ELSE NoAddr,
                         l \ {e}, f, p, {e.ip})
    BY <1>3 DEF Allocations
  <2>2. PICK f \in Saved(d, l \ {e}) :
          w = Allocation(IF Configured(e.ip) THEN e.ip ELSE NoAddr,
                         l \ {e}, f, p, {e.ip})
    BY <2>1
  <2>3. NetOf[e.ip] = n
    BY DEF Reclaimable
  <2>4. f = d \/ f = l \ {e}
    BY DEF Saved
  <2> QED BY <2>2, <2>3, <2>4 DEF Allocation
<1> QED BY <1>1, <1>2, <1>3

\* Each handler keeps it.
LEMMA DiscoverOne == ASSUME IndLease, NEW r \in Request, Discover(r) PROVE OneLease(leases') /\ OneLease(disk') /\ CursorOK'
<1> DEFINE p == [pending EXCEPT ![r.id] = NoOffer]
<1>0. TypeOK /\ Ind
  BY DEF IndLease, Ind
<1> HIDE DEF p
<1>1. PICK b \in Lookup(r) :
        \/ Keep(b) /\ UNCHANGED nextip
        \/ \E d \in DiskAfterLookup(b) :
           \E w \in Allocations(r.net, b.leases, d, p) :
             leases' = w.leases /\ disk' = w.disk /\ nextip' = CursorsAfter(r.net, b.leases, p)
  BY DEF Discover, p
<1>2. CASE Keep(b) /\ UNCHANGED nextip
  BY <1>2, KeepOne DEF IndLease, CursorOK, ScanStart
<1>3. ASSUME NEW d \in DiskAfterLookup(b), NEW w \in Allocations(r.net, b.leases, d, p),
             leases' = w.leases, disk' = w.disk, nextip' = CursorsAfter(r.net, b.leases, p)
      PROVE  OneLease(leases') /\ OneLease(disk') /\ CursorOK'
  <2>1. b.leases \in SUBSET leases
    BY <1>0, LookupFacts
  <2>2. w.leases \subseteq b.leases /\ (w.disk = d \/ w.disk \subseteq b.leases)
    BY <1>0, <2>1, AllocationOnNet DEF IndLease
  <2>3. OneLease(b.leases)
    BY <2>1, OneLeasePart DEF IndLease
  <2>4. OneLease(d)
    BY <2>3, DiskLookupOne DEF IndLease
  <2>5. CursorOK'
    BY <1>0, <1>3, CursorsKept DEF IndLease
  <2> QED BY <1>3, <2>2, <2>3, <2>4, <2>5, OneLeasePart
<1> QED BY <1>1, <1>2, <1>3

LEMMA SelectUsOne ==
    ASSUME IndLease, SelectsOnWire, NEW r \in Inputs, r \in Request, SelectUs(r)
    PROVE  OneLease(leases') /\ OneLease(disk')
<1>0. TypeOK /\ Ind /\ r.ciaddr = NoAddr /\ (r.reqip # NoAddr => NetOf[r.reqip] = r.net)
  BY DEF IndLease, Ind, SelectsOnWire, SelectUs
<1>1. PICK b \in Lookup(r) :
         LET hp == pending[r.id]
             offered == hp.ip # NoAddr
             ip == IF offered THEN hp.ip ELSE b.ip
         IN
         \/ Keep(b)
         \/ b.kind = "temporary" /\ \E x, rep : Commit(b, WithExpiry(r, b, x), rep)
         \/ /\ b.kind = "none" /\ hp.ip # NoAddr /\ r.reqip = hp.ip
            /\ \E d \in DiskAfterLookup(b) : \E x :
                 /\ leases' = b.leases \cup {[ip |-> hp.ip, id |-> r.id, expiry |-> x]}
                 /\ disk' \in Saved(d, leases')
  <2>1. \A b \in Lookup(r) : b.kind \in {"none", "temporary", "permanent"}
    BY <1>0, LookupFacts
  <2> QED BY <2>1 DEF SelectUs
<1>2. CASE Keep(b)
  BY <1>2, KeepOne
<1>3. CASE b.kind = "temporary" /\ \E x, rep : Commit(b, WithExpiry(r, b, x), rep)
  BY <1>3, WithExpiryOne, CommitOne
<1>4. ASSUME b.kind = "none", pending[r.id].ip # NoAddr, r.reqip = pending[r.id].ip,
             NEW d \in DiskAfterLookup(b), NEW x,
             leases' = b.leases \cup {[ip |-> pending[r.id].ip, id |-> r.id, expiry |-> x]},
             disk' \in Saved(d, leases')
      PROVE  OneLease(leases') /\ OneLease(disk')
  <2>1. PICK e : e = [ip |-> pending[r.id].ip, id |-> r.id, expiry |-> x]
    OBVIOUS
  <2>2. e.id = r.id /\ NetOf[e.ip] = r.net
    BY <1>0, <1>4, <2>1
  <2>3. OneLease(b.leases)
    BY <1>0, LookupFacts, OneLeasePart DEF IndLease
  <2>4. \A f \in b.leases : ~(f.id = e.id /\ NetOf[f.ip] = NetOf[e.ip])
    BY <1>0, <1>4, <2>2, LookupNone DEF IndLease
  <2>5. OneLease(leases')
    BY <1>4, <2>1, <2>3, <2>4, OneLeaseAdded
  <2>6. OneLease(d)
    BY <2>3, DiskLookupOne DEF IndLease
  <2> QED BY <1>4, <2>5, <2>6 DEF Saved
<1> QED BY <1>1, <1>2, <1>3, <1>4

LEMMA ReRequestOne == ASSUME IndLease, NEW r \in Request, ReRequest(r) PROVE OneLease(leases') /\ OneLease(disk')
<1>0. TypeOK /\ Ind
  BY DEF IndLease, Ind
<1>1. PICK b \in Lookup(r) :
         Keep(b) \/ (b.kind = "temporary" /\ \E x, rep : Commit(b, WithExpiry(r, b, x), rep))
  <2>1. \A b \in Lookup(r) : b.kind \in {"none", "temporary", "permanent"}
    BY <1>0, LookupFacts
  <2> QED BY <2>1 DEF ReRequest
<1> QED BY <1>1, KeepOne, WithExpiryOne, CommitOne

LEMMA OtherOne ==
    ASSUME IndLease, NEW r \in Request, SelectOther(r) \/ Decline(r) \/ Release(r) \/ Inform(r)
    PROVE  OneLease(leases') /\ OneLease(disk')
<1>0. TypeOK /\ Ind
  BY DEF IndLease, Ind
<1>1. CASE SelectOther(r)
  <2>1. PICK b \in Lookup(r) :
          Keep(b) \/ (leases' = b.leases \ {EntryOf(r, b)} /\ disk' \in Saved(disk, leases'))
    BY <1>1 DEF SelectOther
  <2>2. b.leases \subseteq leases
    BY <1>0, LookupFacts
  <2>3. CASE leases' = b.leases \ {EntryOf(r, b)} /\ disk' \in Saved(disk, leases')
    <3>1. leases' \subseteq leases
      BY <2>2, <2>3
    <3>2. OneLease(leases')
      BY <3>1, OneLeasePart DEF IndLease
    <3> QED BY <2>3, <3>2 DEF Saved, IndLease
  <2> QED BY <2>1, <2>3, KeepOne
<1>2. CASE Decline(r)
  <2>1. PICK b \in Lookup(r) :
          \/ Keep(b)
          \/ b.kind = "temporary" /\
             Commit(b, (b.leases \ {EntryOf(r, b)})
                         \cup {[ip |-> b.ip, id |-> NoClient, expiry |-> now + DeclineWait]}, NoReply(r.id))
    BY <1>2 DEF Decline
  <2>2. CASE b.kind = "temporary" /\
             Commit(b, (b.leases \ {EntryOf(r, b)})
                         \cup {[ip |-> b.ip, id |-> NoClient, expiry |-> now + DeclineWait]}, NoReply(r.id))
    <3>1. b.leases = leases /\ EntryOf(r, b) \in leases /\ EntryOf(r, b).ip = b.ip
      BY <1>0, <2>2, LookupFacts DEF EntryOf
    <3>2. PICK x : x = [ip |-> b.ip, id |-> NoClient, expiry |-> now + DeclineWait]
      OBVIOUS
    <3>3. x.ip = EntryOf(r, b).ip /\ x.id = NoClient
      BY <3>1, <3>2
    <3>4. OneLease((leases \ {EntryOf(r, b)}) \cup {x})
      BY <3>1, <3>3, OneLeaseReplaced DEF IndLease
    <3> QED BY <2>2, <3>1, <3>2, <3>4, CommitOne
  <2> QED BY <2>1, <2>2, KeepOne
<1>3. CASE Release(r)
  <2>1. PICK b \in Lookup(r) :
          Keep(b) \/ (b.kind = "temporary" /\ \E x, rep : Commit(b, WithExpiry(r, b, x), rep))
    BY <1>3 DEF Release
  <2> QED BY <2>1, KeepOne, WithExpiryOne, CommitOne
<1>4. CASE Inform(r)
  BY <1>4, KeepOne DEF Inform
<1> QED BY <1>1, <1>2, <1>3, <1>4

LEMMA BootpOne ==
    ASSUME IndLease, NEW c \in Client, NEW n \in Net, BootpAllocate(c, n)
    PROVE  OneLease(leases') /\ OneLease(disk') /\ CursorOK'
<1> DEFINE found == {e \in leases : e.id = c /\ NetOf[e.ip] = n}
           x == LeaseMax + now
<1>0. TypeOK /\ Ind /\ c # NoClient
  BY ServerAssumption DEF IndLease, Ind
<1>1. \/ \E e \in found :
            /\ leases' = (leases \ {e}) \cup {[e EXCEPT !.expiry = x]}
            /\ disk' = disk \/ disk' \in Saved(disk, leases')
            /\ UNCHANGED nextip
      \/ \E gone \in IF found = {} THEN {{}}
                     ELSE {{e} : e \in {f \in found : ~Configured(f.ip)}} :
         \E w \in Allocations(n, leases \ gone, disk, pending) :
            /\ leases' = IF w.ip = NoAddr THEN w.leases
                         ELSE w.leases \cup {[ip |-> w.ip, id |-> c, expiry |-> x]}
            /\ disk' = w.disk \/ disk' \in Saved(w.disk, leases')
            /\ nextip' = CursorsAfter(n, leases \ gone, pending)
  BY DEF BootpAllocate
<1> HIDE DEF x
<1>2. ASSUME NEW e \in found, leases' = (leases \ {e}) \cup {[e EXCEPT !.expiry = x]},
             disk' = disk \/ disk' \in Saved(disk, leases'), UNCHANGED nextip
      PROVE  OneLease(leases') /\ OneLease(disk') /\ CursorOK'
  <2>1. PICK y : y = [e EXCEPT !.expiry = x]
    OBVIOUS
  <2>2. e \in Entry
    BY <1>0 DEF TypeOK
  <2>3. y.ip = e.ip /\ y.id = e.id
    BY <2>1, <2>2 DEF Entry
  <2>4. OneLease(leases')
    BY <1>2, <2>1, <2>3, OneLeaseReplaced DEF IndLease
  <2>5. disk' = disk \/ disk' = leases'
    BY <1>2 DEF Saved
  <2> QED BY <1>2, <2>4, <2>5 DEF IndLease, CursorOK, ScanStart
<1>3. ASSUME NEW gone \in IF found = {} THEN {{}}
                          ELSE {{e} : e \in {f \in found : ~Configured(f.ip)}},
             NEW w \in Allocations(n, leases \ gone, disk, pending),
             leases' = IF w.ip = NoAddr THEN w.leases
                       ELSE w.leases \cup {[ip |-> w.ip, id |-> c, expiry |-> x]},
             disk' = w.disk \/ disk' \in Saved(w.disk, leases'),
             nextip' = CursorsAfter(n, leases \ gone, pending)
      PROVE  OneLease(leases') /\ OneLease(disk') /\ CursorOK'
  <2>1. (leases \ gone) \in SUBSET leases
    OBVIOUS
  <2>2. \A e \in leases \ gone : ~(e.id = c /\ NetOf[e.ip] = n)
    <3>1. CASE found = {}
      BY <3>1
    <3>2. CASE found # {}
      <4>1. PICK e \in found : gone = {e}
        BY <3>2
      <4>2. \A f \in found : f = e
        BY <1>0 DEF IndLease, OneLease
      <4> QED BY <4>1, <4>2
    <3> QED BY <3>1, <3>2
  <2>3. /\ w.leases \subseteq leases \ gone
        /\ w.disk = disk \/ w.disk \subseteq leases \ gone
        /\ w.ip # NoAddr => NetOf[w.ip] = n
    <3>1. PICK m \in SUBSET leases : m = leases \ gone
      BY <2>1
    <3>2. w \in Allocations(n, m, disk, pending) /\ TypeOK /\ CursorOK
      BY <1>0, <3>1 DEF IndLease
    <3> QED BY <3>1, <3>2, AllocationOnNet
  <2>4. OneLease(w.leases) /\ OneLease(w.disk)
    BY <2>3, OneLeasePart DEF IndLease
  <2>5. OneLease(leases')
    <3>1. CASE w.ip = NoAddr
      BY <1>3, <2>4, <3>1
    <3>2. CASE w.ip # NoAddr
      <4>1. PICK y : y = [ip |-> w.ip, id |-> c, expiry |-> x]
        OBVIOUS
      <4>2. y.id = c /\ NetOf[y.ip] = n
        BY <2>3, <3>2, <4>1
      <4>3. \A e \in w.leases : ~(e.id = y.id /\ NetOf[e.ip] = NetOf[y.ip])
        BY <2>2, <2>3, <4>2
      <4> QED BY <1>3, <2>4, <3>2, <4>1, <4>3, OneLeaseAdded
    <3> QED BY <3>1, <3>2
  <2>6. OneLease(disk')
    BY <1>3, <2>4, <2>5 DEF Saved
  <2> QED BY <1>0, <1>3, <2>5, <2>6, CursorsKept DEF IndLease
<1> QED BY <1>1, <1>2, <1>3

LEMMA StepLease == ASSUME SelectsOnWire, IndLease, [Next]_vars PROVE IndLease'
<1>0. Ind'
  BY StepInd DEF IndLease
<1>1. CASE \E r \in Inputs : Handle(r)
  <2>1. PICK r \in Inputs : Handle(r)
    BY <1>1
  <2>2. r \in Request
    BY InputsAssumption
  <2>3. CASE Discover(r)
    BY <1>0, <2>2, <2>3, DiscoverOne DEF IndLease, OneLease
  <2>4. CASE ~Discover(r)
    <3>1. UNCHANGED nextip
      BY <2>1, <2>4 DEF Handle, SelectOther, SelectUs, ReRequest, Decline, Release, Inform
    <3>2. OneLease(leases') /\ OneLease(disk')
      BY <2>1, <2>2, <2>4, SelectUsOne, ReRequestOne, OtherOne DEF Handle
    <3> QED BY <1>0, <3>1, <3>2 DEF IndLease, CursorOK, ScanStart, OneLease
  <2> QED BY <2>3, <2>4
<1>2. CASE \E c \in Client, n \in Net : BootpAllocate(c, n)
  BY <1>0, <1>2, BootpOne DEF IndLease, OneLease
<1>3. CASE Sighup \/ Restart
  <2>1. leases' = disk /\ disk' = disk /\ nextip' = First
    BY <1>3 DEF Sighup, Restart, Reload
  <2>2. CursorOK'
    BY <2>1, ServerAssumption DEF CursorOK, ScanStart, Addr
  <2> QED BY <1>0, <2>1, <2>2 DEF IndLease, OneLease
<1>4. CASE Tick \/ UNCHANGED vars
  <2>1. UNCHANGED <<leases, disk, nextip>>
    BY <1>4 DEF Tick, vars
  <2> QED BY <1>0, <2>1 DEF IndLease, OneLease, CursorOK, ScanStart
<1> QED BY <1>1, <1>2, <1>3, <1>4 DEF Next

LEMMA LeaseInvariance == ASSUME SelectsOnWire PROVE Spec => []IndLease
<1>1. Init => IndLease
  <2> SUFFICES ASSUME Init PROVE IndLease
    OBVIOUS
  <2>1. Ind
    BY InitInd
  <2>2. leases = {} /\ disk = {} /\ nextip = First
    BY DEF Init
  <2>3. CursorOK
    BY <2>2, ServerAssumption DEF CursorOK, ScanStart, Addr
  <2> QED BY <2>1, <2>2, <2>3 DEF IndLease, OneLease
<1>2. IndLease /\ [Next]_vars => IndLease'
  BY StepLease
<1> QED BY <1>1, <1>2, PTL DEF Spec

\* For every instance whose clients select this server with an address of the
\* wire they are on: the database never holds two leases of a client on a net,
\* through reclaiming, BOOTP, failed writes, reloads and restarts.
THEOREM OneLeaseOfClient == ASSUME SelectsOnWire PROVE Spec => []OneLeasePerNet
<1>1. IndLease => OneLeasePerNet
  BY DEF IndLease, OneLease, OneLeasePerNet
<1> QED BY <1>1, LeaseInvariance, PTL

-----------------------------------------------------------------------------
(* The file is written before a changed lease is acknowledged              *)

Acked ==
    \A e \in leases' \ leases :
       /\ \E f \in leases : f.ip = e.ip /\ f.id = e.id
       /\ Allocatable(e.ip) /\ reply'.type = "ack"
       => disk' = leases'

LEMMA CommitAcked ==
    ASSUME NEW b, NEW l, NEW rep, b.leases = leases, Commit(b, l, rep)
    PROVE  Acked
<1>1. CASE l = b.leases
  BY <1>1 DEF Commit, Acked
<1>2. CASE l # b.leases
  <2>1. \/ disk' = l /\ leases' = l
        \/ reply' = NoReply(rep.id)
    BY <1>2 DEF Commit, Silent
  <2> QED BY <2>1 DEF Acked, NoReply, Answer
<1> QED BY <1>1, <1>2

\* An entry that is created for an offer is of an address the client had none
\* of, unless its subnet stopped to allocate.
LEMMA SelectUsAcked ==
    ASSUME IndLease, SelectsOnWire, NEW r \in Inputs, r \in Request, SelectUs(r)
    PROVE  Acked
<1>0. TypeOK /\ Ind /\ r.ciaddr = NoAddr /\ (r.reqip # NoAddr => NetOf[r.reqip] = r.net)
  BY DEF IndLease, Ind, SelectsOnWire, SelectUs
<1>1. PICK b \in Lookup(r) :
         LET hp == pending[r.id] IN
         \/ leases' = b.leases
         \/ b.kind = "temporary" /\ \E x, rep : Commit(b, WithExpiry(r, b, x), rep)
         \/ /\ b.kind = "none" /\ hp.ip # NoAddr /\ r.reqip = hp.ip
            /\ \E x : leases' = b.leases \cup {[ip |-> hp.ip, id |-> r.id, expiry |-> x]}
  <2>1. \A b \in Lookup(r) : b.kind \in {"none", "temporary", "permanent"}
    BY <1>0, LookupFacts
  <2> QED BY <2>1 DEF SelectUs, Keep
<1>2. b.leases \subseteq leases /\ (b.kind = "temporary" => b.leases = leases)
  BY <1>0, LookupFacts
<1>3. CASE leases' = b.leases
  BY <1>2, <1>3 DEF Acked
<1>4. CASE b.kind = "temporary" /\ \E x, rep : Commit(b, WithExpiry(r, b, x), rep)
  BY <1>2, <1>4, CommitAcked
<1>5. ASSUME b.kind = "none", pending[r.id].ip # NoAddr, r.reqip = pending[r.id].ip,
             NEW x, leases' = b.leases \cup {[ip |-> pending[r.id].ip, id |-> r.id, expiry |-> x]}
      PROVE  Acked
  <2>1. PICK y : y = [ip |-> pending[r.id].ip, id |-> r.id, expiry |-> x]
    OBVIOUS
  <2>2. y.id = r.id /\ NetOf[y.ip] = r.net /\ leases' = b.leases \cup {y}
    BY <1>0, <1>5, <2>1
  <2>3. \A f \in leases : f.id = y.id /\ f.ip = y.ip => ~Allocatable(y.ip)
    BY <1>0, <1>5, <2>2, LookupNone DEF IndLease
  <2> QED BY <1>2, <2>2, <2>3 DEF Acked
<1> QED BY <1>1, <1>3, <1>4, <1>5

LEMMA HandleAcked ==
    ASSUME IndLease, SelectsOnWire, NEW r \in Inputs, r \in Request, Handle(r)
    PROVE  Acked
<1>0. TypeOK /\ Ind
  BY DEF IndLease, Ind
<1>1. CASE leases' \subseteq leases
  BY <1>1 DEF Acked
<1>2. CASE SelectUs(r)
  BY <1>2, SelectUsAcked
<1>3. CASE ReRequest(r) \/ Decline(r) \/ Release(r)
  <2>1. PICK b \in Lookup(r) :
           leases' = b.leases \/ (b.kind = "temporary" /\ \E l, rep : Commit(b, l, rep))
    <3>1. \A b \in Lookup(r) : b.kind \in {"none", "temporary", "permanent"}
      BY <1>0, LookupFacts
    <3> QED BY <1>3, <3>1 DEF ReRequest, Decline, Release, Keep
  <2>2. b.leases \subseteq leases /\ (b.kind = "temporary" => b.leases = leases)
    BY <1>0, LookupFacts
  <2> QED BY <1>1, <2>1, <2>2, CommitAcked
<1>4. CASE Discover(r) \/ SelectOther(r) \/ Inform(r)
  <2>1. CASE Inform(r) \/ SelectOther(r)
    <3>1. PICK b \in Lookup(r) : leases' \subseteq b.leases
      BY <2>1 DEF Inform, SelectOther, Keep
    <3> QED BY <1>0, <1>1, <3>1, LookupFacts
  <2>2. CASE Discover(r)
    <3>1. r.net \in Net /\ [pending EXCEPT ![r.id] = NoOffer] \in [Client -> Offer]
      BY <1>0 DEF TypeOK, Request, NoOffer, Offer
    <3>2. PICK b \in Lookup(r) :
            \/ leases' = b.leases
            \/ \E d \in DiskAfterLookup(b) :
               \E w \in Allocations(r.net, b.leases, d, [pending EXCEPT ![r.id] = NoOffer]) :
                 leases' = w.leases
      BY <2>2 DEF Discover, Keep
    <3>3. b.leases \in SUBSET leases
      BY <1>0, LookupFacts
    <3>4. leases' \subseteq leases
      BY <1>0, <3>2, <3>3, AllocationOnNet DEF IndLease
    <3> QED BY <1>1, <3>4
  <2> QED BY <1>4, <2>1, <2>2
<1> QED BY <1>2, <1>3, <1>4 DEF Handle

\* For every instance whose clients select this server with an address of the
\* wire they are on: a lease that a packet extends or changes is acknowledged
\* only when the database with it is in the file, whichever writes fail.
THEOREM CommittedBeforeAck == ASSUME SelectsOnWire PROVE Spec => AckAfterCommit
<1>1. IndLease /\ [Next]_vars => [Acked]_vars
  <2> SUFFICES ASSUME IndLease, Next PROVE Acked
    OBVIOUS
  <2>1. CASE \E r \in Inputs : Handle(r)
    BY <2>1, InputsAssumption, HandleAcked
  <2>2. CASE \E c \in Client, n \in Net : BootpAllocate(c, n)
    BY <2>2 DEF BootpAllocate, Silent, NoReply, Answer, Acked
  <2>3. CASE Sighup \/ Restart \/ Tick
    BY <2>3 DEF Sighup, Restart, Reload, Tick, NoReply, Answer, Acked
  <2> QED BY <2>1, <2>2, <2>3 DEF Next
<1> QED BY <1>1, LeaseInvariance, PTL DEF Spec, AckAfterCommit, Acked

-----------------------------------------------------------------------------
(* An offer is withdrawn only by its own client while it is young          *)

Withdrawn(k) ==
    \A c \in Client :
      /\ pending[c].ip # NoAddr /\ now - pending[c].tv < PendingSecs
      /\ pending'[c] # pending[c]
      => c = k

\* An allocation drops only an offer that timed out.
LEMMA AllocationDrops ==
    ASSUME TypeOK, NEW n, NEW l, NEW d, NEW p \in [Client -> Offer], NEW w \in Allocations(n, l, d, p)
    PROVE  /\ w.pending \in [Client -> Offer]
           /\ \A c \in Client : w.pending[c] # p[c] => ~(p[c].ip # NoAddr /\ now - p[c].tv < PendingSecs)
<1> DEFINE a == acquire_ip(n, l, p)
<1>1. CASE a # NoAddr
  <2>1. PICK q \in DropStale(p, a) : w = Allocation(a, l, d, q, {})
    BY <1>1 DEF Allocations
  <2>2. a \in Addr /\ ~S_ipinuse(a, l, p)
    BY <1>1, AcquireFacts
  <2>3. q \in [Client -> Offer]
    BY <2>2, DropStaleFacts
  <2>4. q = p \/ \E c \in Client : p[c].ip = a /\ q = [p EXCEPT ![c] = NoOffer]
    <3> HIDE DEF a
    <3> QED BY <2>1 DEF DropStale
  <2>5. \A c \in Client : p[c].ip = a => ~(now - p[c].tv < PendingSecs)
    BY <2>2 DEF S_ipinuse
  <2>6. w.pending = q
    BY <2>1 DEF Allocation
  <2> HIDE DEF a
  <2> QED BY <2>3, <2>4, <2>5, <2>6
<1>2. CASE a = NoAddr
  <2>1. \E i, k, f, t : w = Allocation(i, k, f, p, t)
    BY <1>2 DEF Allocations
  <2>2. w.pending = p
    BY <2>1 DEF Allocation
  <2> QED BY <2>2
<1> QED BY <1>1, <1>2

LEMMA DiscoverWithdraws == ASSUME TypeOK, NEW r \in Request, Discover(r) PROVE Withdrawn(r.id)
<1> DEFINE p == [pending EXCEPT ![r.id] = NoOffer]
<1>0. p \in [Client -> Offer] /\ \A c \in Client : c # r.id => p[c] = pending[c]
  BY DEF TypeOK, NoOffer, Offer
<1> HIDE DEF p
<1>1. PICK b \in Lookup(r) :
        \/ pending' = p
        \/ pending' = [p EXCEPT ![r.id] = [ip |-> b.ip, lease |-> BoundLease(r, b), tv |-> now]]
        \/ \E d \in DiskAfterLookup(b) : \E w \in Allocations(r.net, b.leases, d, p) :
             LET l == IF r.lease = NoOption THEN LeaseMin ELSE Clamp(r.lease, LeaseMin, LeaseMax)
             IN  pending' = w.pending \/ pending' = [w.pending EXCEPT ![r.id] = [ip |-> w.ip, lease |-> l, tv |-> now]]
  BY DEF Discover, p
<1>2. ASSUME NEW o, pending' = p \/ pending' = [p EXCEPT ![r.id] = o] PROVE Withdrawn(r.id)
  BY <1>0, <1>2 DEF Withdrawn
<1>3. ASSUME NEW d, NEW w \in Allocations(r.net, b.leases, d, p), NEW o,
             pending' = w.pending \/ pending' = [w.pending EXCEPT ![r.id] = o]
      PROVE  Withdrawn(r.id)
  <2>1. /\ w.pending \in [Client -> Offer]
        /\ \A c \in Client : w.pending[c] # p[c] => ~(p[c].ip # NoAddr /\ now - p[c].tv < PendingSecs)
    BY <1>0, AllocationDrops
  <2> QED BY <1>0, <1>3, <2>1 DEF Withdrawn
<1> QED BY <1>1, <1>2, <1>3

\* For every instance: an offer that has not timed out is taken from the list
\* of pending hosts only while a packet of its own client is handled.
THEOREM LiveOffers == Spec => LiveOfferKept
<1>1. Ind /\ [Next]_vars =>
        [reply'.id # NoClient =>
           \A c \in Client :
             /\ pending[c].ip # NoAddr /\ now - pending[c].tv < PendingSecs
             /\ pending'[c] # pending[c]
             => c = reply'.id]_vars
  <2> SUFFICES ASSUME Ind, Next, reply'.id # NoClient
               PROVE  \E k \in Client : Withdrawn(k) /\ reply'.id = k
    BY DEF Withdrawn
  <2>0. TypeOK
    BY DEF Ind
  <2>1. ASSUME NEW r \in Inputs, Handle(r) PROVE Withdrawn(r.id) /\ reply'.id = r.id
    <3>1. r \in Request
      BY InputsAssumption
    <3>2. reply'.id = r.id
      BY <2>1, <3>1, DiscoverTakes, SelectUsTakes, ReRequestTakes, OtherTakes DEF Handle
    <3>3. CASE SelectOther(r)
      <4>1. \E b \in Lookup(r) : pending' = [pending EXCEPT ![r.id] = NoOffer]
        BY <3>3 DEF SelectOther
      <4> QED BY <2>0, <3>2, <4>1 DEF Withdrawn, TypeOK
    <3>4. CASE SelectUs(r) \/ ReRequest(r) \/ Decline(r) \/ Release(r) \/ Inform(r)
      <4>1. pending' = pending
        BY <3>4 DEF SelectUs, ReRequest, Decline, Release, Inform
      <4> QED BY <3>2, <4>1 DEF Withdrawn
    <3> QED BY <2>0, <2>1, <3>1, <3>2, <3>3, <3>4, DiscoverWithdraws DEF Handle
  <2>2. \A r \in Inputs : r.id \in Client
    BY InputsAssumption DEF Request
  <2>3. ~(Sighup \/ Restart \/ Tick)
    BY DEF Sighup, Restart, Reload, Tick, NoReply, Answer
  <2>4. ASSUME NEW c \in Client, NEW n \in Net, BootpAllocate(c, n) PROVE Withdrawn(c) /\ reply'.id = c
    <3>1. reply'.id = c
      BY <2>4, <2>0, BootpTakes
    <3>2. pending \in [Client -> Offer]
      BY <2>0 DEF TypeOK
    <3>3. pending' = pending \/ \E g : \E w \in Allocations(n, leases \ g, disk, pending) : pending' = w.pending
      BY <2>4 DEF BootpAllocate
    <3>4. CASE pending' = pending
      BY <3>1, <3>4 DEF Withdrawn
    <3>5. ASSUME NEW g, NEW w \in Allocations(n, leases \ g, disk, pending), pending' = w.pending
          PROVE  Withdrawn(c)
      <4>1. PICK l : l = leases \ g
        OBVIOUS
      <4>2. w \in Allocations(n, l, disk, pending)
        BY <4>1
      <4> QED BY <2>0, <3>2, <3>5, <4>2, AllocationDrops DEF Withdrawn
    <3> QED BY <3>1, <3>3, <3>4, <3>5
  <2> QED BY <2>1, <2>2, <2>3, <2>4 DEF Next
<1> QED BY <1>1, Invariance, PTL DEF Spec, LiveOfferKept
=============================================================================
