------------------------------- MODULE NetBoot -------------------------------
(***************************************************************************)
(* The NetBoot server of bootpd (bsdpd.c, AFPUsers.c, macNC.c).  A client  *)
(* that selects an image gets a host number, and for a diskless image also *)
(* an AFP user with a new password and a shadow file on one of the client  *)
(* volumes; a user whose client last booted AgeTime ago is reclaimed when  *)
(* no user is free.  The list of clients is written to a file after every  *)
(* boot and read again at SIGHUP and at a restart.                         *)
(*                                                                         *)
(* Requests are handled one at a time.  What the file system, the user     *)
(* directory and the size of the packet do to a request is the record e.   *)
(* A tick of the clock is longer than the eight seconds for which a        *)
(* password is kept.  Boot times are kept as ages in ticks: an entry whose *)
(* age has reached AgeTime grows no older.                                 *)
(***************************************************************************)
EXTENDS NBImages, FiniteSets

CONSTANTS
    Client,     \* [name -> [arch, sysid, mac]]
    User,       \* the AFP users that bootpd may create
    Volumes,    \* the client share points, a sequence of [is_hfs]
    Mounts,     \* the possible mounted file systems with their directories
    AgeTime,    \* S_age_time_seconds
    MaxNumber   \* bound on the host numbers

NoUser == "no user"

\* A client that has just booted has not reached the age, and the names of
\* users are names.
ASSUME NetBootAssumption ==
    /\ AgeTime \in Nat \ {0} /\ MaxNumber \in Nat
    /\ NoUser \notin User

NoOne == "no one"
NoBoot == [number |-> 0, user |-> NoUser, shadow |-> FALSE]

VARIABLES
    clients,    \* S_clients: entries [id, number, image, user, bound, age]
    file,       \* BSDP_CLIENTS_FILE
    next,       \* S_next_host_number
    images,     \* G_image_list
    users,      \* S_afp_users, in the order of the directory
    fresh,      \* users whose password was set or given out in this tick
    pw,         \* the client for which a user's password was last given out
    dirs,       \* per volume and number: "none", "empty", or the shadow's owner
    faults,     \* bound: one request may be "disturbed", and one "restart" follow
    booted      \* what each client was told in the reply to its last request

netbootVars == <<clients, file, next, images, users, fresh, pw, dirs, faults, booted>>

-----------------------------------------------------------------------------
(* Volumes and shadow files.                                               *)

\* The volumes in the order of a client: round-robin by host number.
Rotated(n) ==
    [i \in DOMAIN Volumes |-> ((n - 1 + i - 1) % Len(Volumes)) + 1]
First(order, P) ==
    LET i == SelectInSeq(order, LAMBDA v : v \in P) IN IF i = 0 THEN 0 ELSE order[i]

HfsVolumes == {v \in DOMAIN Volumes : Volumes[v].is_hfs}

\* The shadow is unlinked, its directory removed or renamed.
S_remove_shadow(d, v, n, e) ==
    IF e.fail = "rmdir" THEN [d |-> [d EXCEPT ![v][n] = "empty"], ok |-> FALSE]
    ELSE [d |-> [d EXCEPT ![v][n] = "none"], ok |-> TRUE]

S_freespace(v, e) == v \in e.room
S_find_volume_with_space(n, vols, e) == First(Rotated(n), {v \in vols : S_freespace(v, e)})

\* A file whose creation fails half-way belongs to root.
S_create_shadow_file(d, v, n, u, e) ==
    IF e.fail = "create" THEN [d |-> [d EXCEPT ![v][n] = "root"], ok |-> FALSE]
    ELSE [d |-> [d EXCEPT ![v][n] = u], ok |-> TRUE]

\* A new directory, and the shadow file in it.
CreateOn(d, v, n, u, e) ==
    IF v = 0 \/ e.fail = "mkdir" THEN [d |-> d, ok |-> FALSE] ELSE S_create_shadow_file(d, v, n, u, e)
S_create_volume_dir(d, n, u, vols, e) == CreateOn(d, S_find_volume_with_space(n, vols, e), n, u, e)

\* The client's directory is looked for on the volumes vols; an incomplete
\* one, and one on a volume where the shadow cannot grow, is replaced.
Replaced(gone, n, u, vols, e) == IF gone.ok THEN S_create_volume_dir(gone.d, n, u, vols, e) ELSE gone
AllocateOn(d, v, n, u, vols, e) ==
    CASE v = 0 -> S_create_volume_dir(d, n, u, vols, e)
      [] v # 0 /\ (d[v][n] = "empty" \/ (e.grow /\ ~S_freespace(v, e))) ->
            Replaced(S_remove_shadow(d, v, n, e), n, u, vols, e)
      [] v # 0 /\ d[v][n] # "empty" /\ e.grow /\ S_freespace(v, e) -> S_create_shadow_file(d, v, n, u, e)
      [] OTHER -> [d |-> [d EXCEPT ![v][n] = u], ok |-> TRUE]
macNC_allocate_shadow(d, n, u, vols, e) ==
    AllocateOn(d, First(Rotated(n), {x \in vols : d[x][n] # "none"}), n, u, vols, e)

\* Only the first shadow on the way is unlinked, its directory stays.
macNC_unlink_shadow(d, n) ==
    LET v == First(Rotated(n), {x \in DOMAIN Volumes : d[x][n] \notin {"none", "empty"}})
    IN  IF v = 0 THEN d ELSE [d EXCEPT ![v][n] = "empty"]

\* A Mac OS 9 client boots from its own copy of the image if an
\* administrator put one into its directory, otherwise with a shadow on HFS.
S_add_image_options(d, n, u, e) ==
    IF e.private /\ First(Rotated(n), {x \in HfsVolumes : d[x][n] # "none"}) # 0
    THEN [d |-> d, ok |-> TRUE] ELSE macNC_allocate_shadow(d, n, u, HfsVolumes, e)

macNC_allocate(d, n, u, e) ==
    IF e.fail = "options" THEN [d |-> d, ok |-> FALSE] ELSE S_add_image_options(d, n, u, e)

\* NFS and HTTP: the root path, the name, and the shadow if diskless.
X_netboot(d, image, n, u, e) ==
    CASE e.fail = "options" -> [d |-> d, ok |-> FALSE]
      [] e.fail # "options" /\ image.diskless -> macNC_allocate_shadow(d, n, u, DOMAIN Volumes, e)
      [] OTHER -> [d |-> d, ok |-> TRUE]

S_add_bootfile(e) == e.fail # "bootfile"

\* What the image needs on the volumes.
Prepare(d, image, n, u, e) ==
    LET r == CASE image.type = "Classic" -> macNC_allocate(d, n, u, e)
               [] image.type \in {"NFS", "HTTP"} -> X_netboot(d, image, n, u, e)
               [] OTHER -> [d |-> d, ok |-> TRUE]
    IN  [d |-> r.d, ok |-> r.ok /\ S_add_bootfile(e)]

-----------------------------------------------------------------------------
(* AFP users.                                                              *)

AFPUserList_lookup(u) == u \in Range(users)

\* A password that was given out within eight seconds is given out again.
AFPUser_set_random_password(s, u, c, e) ==
    CASE u \in s.fresh /\ e.soon -> [s EXCEPT !.pw[u] = c]
      [] ~(u \in s.fresh /\ e.soon) /\ e.fail = "password" ->
            [s EXCEPT !.fresh = @ \ {u}, !.ok = FALSE]
      [] OTHER -> [s EXCEPT !.fresh = @ \cup {u}, !.pw[u] = c]

S_next_afp_user(s) ==
    LET free == {i \in DOMAIN users : \A j \in DOMAIN s.clients : s.clients[j].user # users[i]}
    IN  IF free = {} THEN NoUser ELSE users[Min(free)]

Aged(entry) == entry.age >= AgeTime

\* The scan starts at the tail of the list.  Entries whose user is no longer
\* in the directory are cleared on the way.
S_reclaim_afp_user(s) ==
    LET Old(x) == x.user # NoUser /\ Aged(x)
        hit == Max({i \in DOMAIN s.clients : Old(s.clients[i]) /\ AFPUserList_lookup(s.clients[i].user)}
                   \cup {0})
    IN  [s EXCEPT
          !.user = IF hit = 0 THEN NoUser ELSE s.clients[hit].user,
          !.clients = [i \in DOMAIN @ |-> IF i >= hit /\ Old(@[i])
                                          THEN [@[i] EXCEPT !.user = NoUser, !.bound = FALSE] ELSE @[i]],
          !.dirs = IF hit = 0 THEN @ ELSE macNC_unlink_shadow(@, s.clients[hit].number),
          !.ok = hit # 0]

\* A user for a client that has none: a free one, or one that is reclaimed.
Obtain(s) ==
    LET u == S_next_afp_user(s)
    IN  IF u # NoUser THEN [s EXCEPT !.user = u] ELSE S_reclaim_afp_user(s)

NeedsUser(image) == image.diskless \/ image.type = "Classic"

-----------------------------------------------------------------------------
(* Binding a client to an image.  s is the state as the handler changes it; *)
(* s.ok is false once a step failed, and what was changed until then stays. *)

State == [clients |-> clients, next |-> next, dirs |-> dirs, pw |-> pw, fresh |-> fresh,
          user |-> NoUser, ok |-> TRUE]
Entry(c) == CHOOSE i \in DOMAIN clients : clients[i].id = c
Known(c) == \E i \in DOMAIN clients : clients[i].id = c

\* The password, the shadow and the boot file for client c.
Prepared(s, r) == [s EXCEPT !.dirs = r.d, !.ok = r.ok]
ServeUser(s, image, n, e) ==
    IF s.ok THEN Prepared(s, Prepare(s.dirs, image, n, s.user, e)) ELSE s
Serve(s, c, image, n, e) ==
    ServeUser(IF NeedsUser(image) /\ s.ok THEN AFPUser_set_random_password(s, s.user, c, e) ELSE s,
              image, n, e)

\* The user's name is put into the entry before anything else can fail.
Named(s, i) == [s EXCEPT !.clients[i].user = s.user]
Rebound(s, i, image) ==
    IF s.ok THEN [s EXCEPT !.clients[i] = [@ EXCEPT !.image = image.id, !.age = 0, !.bound = TRUE]] ELSE s
UpdateEntry(i, image, e) ==
    LET had == clients[i].user
        keeps == NeedsUser(image) /\ had # NoUser /\ AFPUserList_lookup(had)
        cleared == [State EXCEPT !.clients[i].user = NoUser]
        got == CASE keeps -> [State EXCEPT !.user = had]
                 [] ~keeps /\ NeedsUser(image) -> Obtain(cleared)
                 [] OTHER -> cleared
    IN  Rebound(Serve(Named(got, i), clients[i].id, image, clients[i].number, e), i, image)
S_client_update(c, image, e) == UpdateEntry(Entry(c), image, e)

\* A new client is added at the head of the list when everything succeeded.
Created(s, c, image) ==
    IF s.ok THEN [s EXCEPT !.clients = <<[id |-> c, number |-> next, image |-> image.id, user |-> s.user,
                                         bound |-> TRUE, age |-> 0]>> \o @,
                           !.next = @ + 1]
    ELSE s
S_client_create(c, image, e) ==
    Created(Serve(IF NeedsUser(image) THEN Obtain(State) ELSE State, c, image, next, e), c, image)

\* The reply names a shadow file.
TellsShadow(image, e) ==
    \/ image.type = "Classic" /\ ~e.private
    \/ image.type \in {"NFS", "HTTP"} /\ image.diskless

\* The end of a request of client c: the list is written if the binding
\* succeeded, and the client is told about it if the reply can be sent.
Finish(c, s, image, e) ==
    LET n == (CHOOSE x \in Range(s.clients) : x.id = c).number
    IN  /\ clients' = s.clients /\ next' = s.next /\ dirs' = s.dirs
        /\ pw' = s.pw /\ fresh' = s.fresh
        /\ file' = IF s.ok /\ e.write THEN s.clients ELSE file
        /\ booted' = [booted EXCEPT ![c] =
                        IF s.ok /\ e.fail # "reply"
                        THEN [number |-> n, user |-> s.user, shadow |-> TellsShadow(image, e)]
                        ELSE NoBoot]
        /\ UNCHANGED <<images, users>>

\* A request that changes nothing; the client is not booted when it asks.
NoAnswer(c) ==
    /\ booted' = [booted EXCEPT ![c] = NoBoot]
    /\ UNCHANGED <<clients, file, next, images, users, fresh, pw, dirs>>

-----------------------------------------------------------------------------
(* The process starts, or is told to read its files again.                 *)

\* Mutant: the number of clients is taken for the highest number.
CountClients(list) == Len(list)

S_host_number_max(list) ==
    IF list = <<>> THEN 0
    ELSE (CHOOSE x \in Range(list) : \A y \in Range(list) : x.number >= y.number).number

\* The users of the directory, and those that are created to reach the
\* configured number unless an error stops that.
UserLists == {us \in UNION {[1 .. k -> User] : k \in 0 .. Cardinality(User)} : IsInjective(us)}
AFPUserList_init(us) == us \in UserLists

ImageList(mounts) ==
    NBImageList_init(NBSPList_init(mounts, TRUE), NBSPList_init(mounts, FALSE) # <<>>)

\* A client whose last boot did not reach the file is unknown from now on,
\* and one whose user left the directory has lost its volume.
StillServed(c, us) ==
    /\ \A x \in Range(clients) : x.id = c => x \in Range(file)
    /\ booted[c].user \in {NoUser} \cup Range(us)

\* Without images the service is off until the files are read again.
bsdp_init ==
    \E m \in Mounts, us \in UserLists :
        /\ images' = ImageList(m)
        /\ AFPUserList_init(us)
        /\ IF images' = <<>> THEN users' = <<>> /\ clients' = <<>> /\ UNCHANGED next
           ELSE users' = us /\ clients' = file /\ next' = S_host_number_max(file) + 1
        /\ booted' = [c \in DOMAIN Client |-> IF StillServed(c, us) THEN booted[c] ELSE NoBoot]
        /\ fresh' = {}
        /\ UNCHANGED <<file, pw, dirs>>

NetBootInit ==
    /\ users \in {us \in UserLists : Len(us) = Cardinality(User)}
    /\ \E m \in Mounts : ImageList(m) # <<>> /\ images = ImageList(m)
    /\ clients = <<>> /\ file = <<>> /\ next = 1 /\ fresh = {} /\ faults = {}
    /\ pw = [u \in User |-> NoOne]
    /\ dirs = [v \in DOMAIN Volumes |-> [n \in 1 .. MaxNumber |-> "none"]]
    /\ booted = [c \in DOMAIN Client |-> NoBoot]

-----------------------------------------------------------------------------
(* Requests.                                                               *)

\* A request for which everything goes well, and those with one disturbance:
\* a step fails, volumes are full, the shadow must grow (on a full volume),
\* the client has a copy of its own, it asks again at once, the list cannot
\* be written.
Fine == [fail |-> "none", room |-> DOMAIN Volumes, grow |-> FALSE, private |-> FALSE,
         soon |-> FALSE, write |-> TRUE]
Env ==
    {[Fine EXCEPT !.fail = x] : x \in {"password", "options", "rmdir", "mkdir", "create",
                                           "bootfile", "reply"}}
    \cup {[Fine EXCEPT !.room = v] : v \in SUBSET DOMAIN Volumes \ {DOMAIN Volumes}}
    \cup {[Fine EXCEPT !.room = v, !.grow = TRUE] : v \in SUBSET DOMAIN Volumes}
    \cup {[Fine EXCEPT !.private = TRUE], [Fine EXCEPT !.soon = TRUE], [Fine EXCEPT !.write = FALSE]}

\* DISCOVER from a client that netbooted before: it is offered its image.
Discover(c, filter, e) ==
    LET image == NBImageList_elementWithID(images, clients[Entry(c)].image)
    IN  IF /\ Known(c) /\ clients[Entry(c)].bound /\ image # NoImage
           /\ NBImageEntry_supported_sysid(image, Client[c])
           /\ NBImageEntry_attributes_match(image, attributes_filter_list_copy(filter))
        THEN Finish(c, S_client_update(c, image, e), image, e)
        ELSE NoAnswer(c)

\* The client selects another server: its entry goes, and so does its shadow.
S_client_remove(c, e) ==
    /\ clients' = RemoveAt(clients, Entry(c))
    /\ dirs' = macNC_unlink_shadow(dirs, clients[Entry(c)].number)
    /\ file' = IF e.write THEN clients' ELSE file
    /\ booted' = [booted EXCEPT ![c] = NoBoot]
    /\ UNCHANGED <<next, images, users, fresh, pw>>

\* A client is bound to an image, whether it is known or not.
Bind(c, image, e) ==
    /\ ~Known(c) => next <= MaxNumber
    /\ Finish(c, IF Known(c) THEN S_client_update(c, image, e) ELSE S_client_create(c, image, e),
              image, e)

\* INFORM with SELECT.  Without an image in the request and without a
\* default image the process ends at a null pointer and is started again.
Select(c, mine, chosen, e) ==
    LET image == IF chosen # NoImage.id THEN NBImageList_elementWithID(images, chosen)
                 ELSE NBImageList_default(images, Client[c], {})
        stale == image = NoImage \/ ~NBImageEntry_supported_sysid(image, Client[c])
    IN  CASE ~mine /\ Known(c) -> S_client_remove(c, e)
          [] ~mine /\ ~Known(c) -> NoAnswer(c)
          [] mine /\ ~stale -> Bind(c, image, e)
          [] mine /\ stale /\ chosen # NoImage.id -> NoAnswer(c)
          [] mine /\ stale /\ chosen = NoImage.id -> bsdp_init

\* INFORM with LIST: the images, and which of them the client has selected.
List(c) == NBImageList_default(images, Client[c], {}) # NoImage /\ NoAnswer(c)

\* A REQUEST for an address tells a new address of a bound client; the list
\* is written if it is new, with whatever else is not in the file yet.
bsdp_dhcp_request(c, e) ==
    /\ Known(c) /\ clients[Entry(c)].bound
    /\ file' = IF e.write THEN clients ELSE file
    /\ UNCHANGED <<clients, next, images, users, fresh, pw, dirs, booted>>

\* The firmware of NetBoot 1.0 asks with BOOTP for what is a DISCOVER and a
\* SELECT in one; it has no system identifier of its own.
OldClient(c) == [Client[c] EXCEPT !.arch = "ppc", !.sysid = "unknown"]
old_netboot_request(c, e) ==
    LET default == NBImageList_default(images, OldClient(c), {})
        last == NBImageList_elementWithID(images, clients[Entry(c)].image)
        image == IF Known(c) /\ last # NoImage /\ NBImageEntry_supported_sysid(last, OldClient(c))
                 THEN last ELSE default
    IN  IF default = NoImage THEN NoAnswer(c) ELSE Bind(c, image, e)

\* Time passes; what a client was told no longer counts at the age time.
Older(list) == [i \in DOMAIN list |->
                   [list[i] EXCEPT !.age = IF @ < AgeTime THEN @ + 1 ELSE @]]
AgeTick ==
    /\ clients' = Older(clients) /\ file' = Older(file) /\ fresh' = {}
    /\ booted' = [c \in DOMAIN Client |->
                    IF \E x \in Range(clients) : x.id = c /\ x.age + 1 < AgeTime
                    THEN booted[c] ELSE NoBoot]
    /\ UNCHANGED <<next, images, users, pw, dirs>>

\* The filters that clients send: none, or the attributes of one image.
Filters == {<<>>} \cup {<<images[i].attr>> : i \in DOMAIN images}

ClientRequest(c, e) ==
    \/ \E filter \in Filters : Discover(c, filter, e)
    \/ \E id \in {NoImage.id} \cup {images[i].id : i \in DOMAIN images} : Select(c, TRUE, id, e)
    \/ Select(c, FALSE, NoImage.id, e)
    \/ List(c)
    \/ bsdp_dhcp_request(c, e)
    \/ old_netboot_request(c, e)

Happens(fault) == fault \notin faults /\ faults' = faults \cup {fault}

NetBootNext ==
    \/ /\ images # <<>> /\ UNCHANGED faults
       /\ \E c \in DOMAIN Client : ClientRequest(c, Fine)
    \/ /\ images # <<>> /\ "restart" \notin faults /\ Happens("disturbed")
       /\ \E c \in DOMAIN Client, e \in Env : ClientRequest(c, e)
    \/ Happens("restart") /\ bsdp_init
    \/ AgeTick /\ UNCHANGED faults

NetBootSpec == NetBootInit /\ [][NetBootNext]_netbootVars

-----------------------------------------------------------------------------
(* Properties.                                                             *)

Booted(c) == booted[c] # NoBoot

\* Two clients that booted within the age time never work under one host
\* number (and so one name and one directory) or as one AFP user, whatever
\* was removed, reclaimed or read from the file in between.
RunningClientsApart ==
    \A c, d \in DOMAIN Client : c # d /\ Booted(c) /\ Booted(d) =>
        /\ booted[c].number # booted[d].number
        /\ booted[c].user # NoUser => booted[c].user # booted[d].user

\* A client that booted diskless within the age time can go on: the password
\* it was told is that of its user, and its shadow file is there and is owned
\* by that user.
RunningClientServed ==
    \A c \in DOMAIN Client : Booted(c) /\ booted[c].user # NoUser =>
        /\ pw[booted[c].user] = c
        /\ booted[c].shadow => \E v \in DOMAIN Volumes : dirs[v][booted[c].number] = booted[c].user

\* The image that a LIST reply names as the default is the first of the list
\* that is sent, and is marked as a default if any image for this client is.
DefaultOffered ==
    \A c \in DOMAIN Client :
        LET default == NBImageList_default(images, Client[c], {})
            shown == S_insert_image_list(images, Client[c], {}, 4, 6)
        IN  default # NoImage =>
                /\ shown # <<>> /\ shown[1] = default
                /\ default.is_default \/ \A i \in DOMAIN shown : ~shown[i].is_default

\* What a client was told when it booted holds as long as it may rely on it.
BootsHold == RunningClientsApart /\ RunningClientServed /\ DefaultOffered
=============================================================================
