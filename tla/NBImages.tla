------------------------------- MODULE NBImages -------------------------------
(***************************************************************************)
(* The NetBoot images of bootpd (nbimages.c, nbsp.c): how the share points *)
(* of the mounted file systems and the .nbi directories on them become the *)
(* ordered list of images, which of them a client may boot, which one is   *)
(* its default, and which of them fit into the reply to LIST.              *)
(*                                                                         *)
(* A directory is the record of what its NBImageInfo.plist and its files   *)
(* say; a property that is absent or has the wrong type is Missing.        *)
(***************************************************************************)
EXTENDS Integers, Sequences, SequencesExt

Missing == "missing"
NoImage == [id |-> <<0, {}>>]

-----------------------------------------------------------------------------
(* Share points.                                                           *)

\* A share point is a local file system with a symbolic link of the right
\* name; read-only ones serve images but no clients.
NBSPList_init(mounts, readonly_ok) ==
    SelectSeq(mounts, LAMBDA p :
        /\ p.local /\ (p.readonly => readonly_ok)
        /\ p.fstype \notin {"devfs", "fdesc"}
        /\ p.link)

-----------------------------------------------------------------------------
(* One image.                                                              *)

\* A Boolean of the plist is "yes", "no" or absent.
PlistBoolean(v, d) == v = "yes" \/ (v = Missing /\ d)

\* The kind of the image: a valid number, or what its type implies.
Kind(d) ==
    CASE d.kind # Missing -> d.kind
      [] d.type = "Classic" -> "MacOS9"
      [] d.type \in {"NFS", "HTTP"} -> "MacOSX"
      [] OTHER -> Missing

\* The root path is a file of the directory or names a server.
parse_nfs_path(root) == root = "nfs"
parse_http_path(root) == root = "http"
RootPath(d) ==
    CASE d.type = "Classic" -> "shared" \in d.files
      [] d.type = "NFS" -> (d.root = "file" /\ "root" \in d.files) \/ parse_nfs_path(d.root)
      [] d.type = "HTTP" -> (d.root = "file" /\ "root" \in d.files) \/ parse_http_path(d.root)
      [] OTHER -> TRUE

\* A boot file for every architecture; that of ppc may lie at the top.
BootFiles(d, archs) ==
    \A a \in archs : a \in d.files \/ (a = "ppc" /\ "bootfile" \in d.files)

\* The checks on the plist that are made before any path is looked at.
Acceptable(d, allow_diskless) ==
    /\ PlistBoolean(d.enabled, TRUE)
    /\ d.name # Missing
    /\ d.index > 0
    /\ d.type \in {"Classic", "NFS", "HTTP", "BootFileOnly"}
    /\ d.type = "Classic" => allow_diskless
    /\ Kind(d) # Missing
    /\ d.archs # {}
    /\ d.bootfile # Missing

NBImageEntry_create(d, allow_diskless) ==
    LET archs == IF d.archs = {Missing} THEN {"ppc"} ELSE d.archs
        attr  == {Kind(d)} \cup IF PlistBoolean(d.install, FALSE) THEN {"install"} ELSE {}
    IN  IF ~Acceptable(d, allow_diskless) \/ ~RootPath(d) \/ ~BootFiles(d, archs) THEN NoImage
        ELSE [id |-> <<d.index, attr>>, type |-> d.type, attr |-> attr,
              is_default |-> PlistBoolean(d.default, FALSE),
              diskless |-> CASE d.type = "Classic" -> TRUE
                             [] d.type = "BootFileOnly" -> FALSE
                             [] OTHER -> allow_diskless /\ PlistBoolean(d.diskless, FALSE),
              filter_only |-> PlistBoolean(d.filter_only, Kind(d) = "Diagnostics"),
              archs |-> archs, sysids |-> d.sysids,
              enabled_mac |-> d.enabled_mac, disabled_mac |-> d.disabled_mac,
              size |-> d.size]

-----------------------------------------------------------------------------
(* The list.                                                               *)

NBImageList_elementWithID(list, id) ==
    LET i == SelectInSeq(list, LAMBDA x : x.id = id) IN IF i = 0 THEN NoImage ELSE list[i]


\* A default image that any system may boot goes to the head of the list,
\* one for certain systems behind those.
NBImageList_add_default_entry(list, entry) ==
    LET behind == {i \in DOMAIN list : ~list[i].is_default \/ list[i].sysids # {}}
    IN  CASE entry.sysids = {} -> <<entry>> \o list
          [] entry.sysids # {} /\ behind = {} -> Append(list, entry)
          [] OTHER -> InsertAt(list, CHOOSE i \in behind : \A j \in behind : i <= j, entry)

NBImageList_add_entry(list, entry) ==
    CASE NBImageList_elementWithID(list, entry.id) # NoImage -> list
      [] entry.is_default -> NBImageList_add_default_entry(list, entry)
      [] OTHER -> Append(list, entry)

\* The directories of one share point whose name ends in .nbi and that hold
\* a plist, in the order in which readdir returns them.
NBImageList_add_images(list, sharepoint, allow_diskless) ==
    FoldLeft(LAMBDA l, d : LET e == NBImageEntry_create(d, allow_diskless)
                           IN  IF e = NoImage THEN l ELSE NBImageList_add_entry(l, e),
             list, SelectSeq(sharepoint.dirs, LAMBDA d : d.suffix /\ d.plist))

NBImageList_init(sharepoints, allow_diskless) ==
    FoldLeft(LAMBDA l, sp : NBImageList_add_images(l, sp, allow_diskless), <<>>, sharepoints)

-----------------------------------------------------------------------------
(* Clients and images.  A client is [arch, sysid, mac].                    *)

NBImageEntry_supported_sysid(entry, c) ==
    /\ c.arch \in entry.archs
    /\ entry.sysids # {} => c.sysid \in entry.sysids
    /\ c.mac \notin entry.disabled_mac
    /\ entry.enabled_mac # {} => c.mac \in entry.enabled_mac

\* attrs is the set of attributes in the client's filter; a client that sends
\* no filter sees every image that is not for filters only.
NBImageEntry_attributes_match(entry, attrs) ==
    IF attrs = {} THEN ~entry.filter_only ELSE entry.attr \in attrs

\* The filter option: an empty one counts as absent.
attributes_filter_list_copy(option) == Range(option)

Applicable(list, c, attrs) ==
    SelectSeq(list, LAMBDA e : /\ NBImageEntry_supported_sysid(e, c)
                               /\ NBImageEntry_attributes_match(e, attrs))

NBImageList_default(list, c, attrs) ==
    LET l == Applicable(list, c, attrs) IN IF l = <<>> THEN NoImage ELSE Head(l)

\* The list in the reply: descriptions are put into the vendor area until
\* the next one does not fit; the area is then added to the packet and a
\* new one is begun if the packet has room for the description.
S_insert_image_list(list, c, attrs, area, room) ==
    FoldLeft(LAMBDA p, e :
                CASE p.full -> p
                  [] ~p.full /\ e.size <= p.free ->
                        [p EXCEPT !.shown = Append(@, e), !.free = @ - e.size]
                  [] ~p.full /\ e.size > p.free ->
                        LET left == p.room - (area - p.free)
                            free == IF left < area THEN left ELSE area
                        IN  IF e.size > free THEN [p EXCEPT !.full = TRUE]
                            ELSE [shown |-> Append(p.shown, e), room |-> left,
                                  free |-> free - e.size, full |-> FALSE],
             [shown |-> <<>>, room |-> room, free |-> area, full |-> FALSE],
             Applicable(list, c, attrs)).shown
=============================================================================
