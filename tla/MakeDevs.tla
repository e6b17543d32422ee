------------------------------ MODULE MakeDevs ------------------------------
(***************************************************************************)
(* package/makedevs/makedevs.c: gives the files of the root filesystem the *)
(* owners, modes and capabilities of a device table, and makes the nodes of *)
(* devices, after mkusers has put the users into etc/passwd and etc/group.  *)
(* Both run for each image, from the script that fs/common.mk writes for    *)
(* fakeroot; it stops at the first command that fails.                     *)
(*                                                                         *)
(* The lines of a table have at least the five first fields.  Symbolic      *)
(* links, and the numbers of a line beyond 0xfffff, are left out: such a    *)
(* line is one more invalid one.                                           *)
(***************************************************************************)
EXTENDS MkUsers, SequencesExt

CONSTANTS
    FileNames,     \* the parts of a path that a table can name
    Files,         \* the tree that mkusers finds
    Home,          \* Home[u]: the home directory of u, when it has one
    Modes,
    DeviceTables,  \* DeviceTables[t]: the device tables considered after t
    ExtendedAttributes \* makedevs is compiled with them

Keep == "-1"       \* the mode that leaves the mode as it is
AllBits == "7777"  \* what chmod makes of a -1 that it is given
Unnumbered == -1
NoPath == <<>>

(* The number a node gets after its name belongs to the last part of its path. *)
Part(n) == [name |-> n, number |-> Unnumbered]
Numbered(path, n) == [path EXCEPT ![Len(path)].number = n]
Paths == Seq([name : FileNames, number : {Unnumbered}]) \ {NoPath}

Nodes == {"c", "b", "p"}
Entry == [type : Nodes \cup {"d", "f", "F", "r", "other"}, name : Paths,
          mode : Modes \cup {Keep}, user : Users \cup Nat, group : Groups \cup Nat,
          major : Nat, minor : Nat, start : Nat, increment : Nat, count : Nat]
DeviceLine == Entry \cup [type : {"xattr"}, cap : STRING] \cup [type : {"invalid", "comment"}]

Attribute == [kind : Nodes \cup {"dir", "file", "link"}, mode : Modes \cup {"755", "777", AllBits},
              uid : Nat, gid : Nat, major : Nat, minor : Nat, caps : SUBSET STRING]

(* rsync leaves capabilities behind when it copies the tree. *)
ASSUME FilesAssumption == IsFile(Files, Paths, Attribute) /\ \A p \in DOMAIN Files : Files[p].caps = {}
ASSUME DeviceTablesAssumption == \A t \in Tables : DeviceTables[t] \subseteq Seq(DeviceLine)
ASSUME HomesAssumption ==
    \A u \in Users : Home[u] \in Paths /\ \A v \in Users \ {u} : ~IsPrefix(Home[u], Home[v])
(* chmod -1 is not asked for of a node; external: mknod would refuse it. *)
ASSUME NodesAssumption ==
    \A t \in Tables : \A d \in DeviceTables[t] : \A j \in DOMAIN d :
        d[j].type \in Nodes => d[j].mode # Keep

VARIABLES
    devices,   \* the device table
    tree,      \* tree[p]: what there is at p, with owner, mode and the rest
    script,    \* the script for fakeroot, and in it makedevs
    next,      \* the line it comes to
    full_name, \* what an xattr line is about
    ret        \* whether it is to fail in the end

devvars == <<devices, tree, script, next, full_name, ret>>
allvars == <<vars, devvars>>

Attributes(kind, mode, uid, gid, major, minor) ==
    [kind |-> kind, mode |-> mode, uid |-> uid, gid |-> gid, major |-> major, minor |-> minor,
     caps |-> {}]

DevicesInit ==
    /\ Init
    /\ devices \in DeviceTables[table]
    /\ tree = Files /\ script = "written" /\ next = 1 /\ full_name = NoPath /\ ret = "success"

Adding == Next /\ UNCHANGED devvars

-----------------------------------------------------------------------------

Owned(t, paths, uid, gid, mode) ==
    [p \in DOMAIN t |->
        IF p \notin paths THEN t[p]
        ELSE [t[p] EXCEPT !.uid = uid, !.gid = gid, !.mode = IF mode = Keep THEN @ ELSE mode]]
Below(t, path) == {p \in DOMAIN t : IsPrefix(path, p)}
Parents(path) == {SubSeq(path, 1, n) : n \in 1 .. Len(path) - 1}
IsDir(t, p) == p \in DOMAIN t /\ t[p].kind = "dir"

(* mkusers has made the homes.  The script gives everything to root, then   *)
(* the homes, with what is in them, to the users.                          *)
StartScript ==
    LET owners == {c.user : c \in chowned}
        made   == UNION {Parents(Home[u]) \cup {Home[u]} : u \in owners}
        found  == [p \in DOMAIN tree \cup made |->
                      IF p \in DOMAIN tree THEN [tree[p] EXCEPT !.uid = 0, !.gid = 0]
                      ELSE Attributes("dir", "755", 0, 0, 0, 0)]
    IN  /\ pass = "done" /\ script = "written"
        /\ script' = "makedevs"
        /\ \E to \in [owners -> {c.to : c \in chowned}] :
              /\ \A u \in owners : [user |-> u, to |-> to[u]] \in chowned
              /\ tree' = [p \in DOMAIN found |->
                             IF \E u \in owners : IsPrefix(Home[u], p)
                             THEN LET u == CHOOSE v \in owners : IsPrefix(Home[v], p)
                                  IN  [found[p] EXCEPT !.uid = to[u].uid, !.gid = to[u].gid]
                             ELSE found[p]]
        /\ UNCHANGED <<vars, devices, next, full_name, ret>>

At(types) == script = "makedevs" /\ next \in DOMAIN devices /\ devices[next].type \in types
entry == devices[next]

(* get_ug_id, by the files that mkusers has written. *)
Known(l) == (l.user \in Nat \/ l.user \in DOMAIN passwd) /\ (l.group \in Nat \/ l.group \in DOMAIN group)
UidOf(l) == IF l.user \in Nat THEN l.user ELSE passwd[l.user].uid
GidOf(l) == IF l.group \in Nat THEN l.group ELSE group[l.group].gid

GoOn == next' = next + 1 /\ UNCHANGED <<vars, devices, script>>
Die == script' = "failed" /\ UNCHANGED <<vars, devices, tree, next, full_name, ret>>

Comment == At({"comment"}) /\ GoOn /\ UNCHANGED <<tree, full_name, ret>>
InvalidLine == At({"invalid"}) /\ GoOn /\ ret' = "failure" /\ UNCHANGED <<tree, full_name>>

(* bb_set_xattr; external: only a regular file has capabilities. *)
SetXattr ==
    /\ At({"xattr"})
    /\ IF ExtendedAttributes /\ full_name \in DOMAIN tree /\ tree[full_name].kind = "file"
       THEN /\ tree' = [tree EXCEPT ![full_name].caps = @ \cup {entry.cap}]
            /\ GoOn /\ UNCHANGED <<full_name, ret>>
       ELSE Die

UnknownOwner == At({"d", "f", "F", "r", "other"} \cup Nodes) /\ ~Known(entry) /\ Die

(* What all lines do that name a file. *)
MutNamed(types) == \* a line about no file is not one that xattr lines can follow
    /\ At(types) /\ Known(entry)
    /\ full_name' = IF entry.name \in DOMAIN tree THEN entry.name ELSE full_name
    /\ GoOn
Named(types) ==
    /\ At(types) /\ Known(entry)
    /\ full_name' = entry.name
    /\ GoOn

(* bb_make_directory and its parents, with all rights; what it returns does *)
(* not matter, so that a file may be meant as well.                        *)
Directory ==
    LET name == entry.name
        new  == (Parents(name) \cup {name}) \ DOMAIN tree
        mode == IF name \in new /\ entry.mode = Keep THEN AllBits ELSE entry.mode
        made == [p \in DOMAIN tree \cup new |->
                    IF p \in new THEN Attributes("dir", "777", 0, 0, 0, 0) ELSE tree[p]]
    IN  /\ Named({"d"})
        /\ IF \A p \in Parents(name) : IsDir(made, p)
           THEN tree' = Owned(made, {name}, UidOf(entry), GidOf(entry), mode) /\ UNCHANGED ret
           ELSE ret' = "failure" /\ UNCHANGED tree

RegularFile ==
    /\ Named({"f", "F"})
    /\ IF entry.name \in DOMAIN tree /\ tree[entry.name].kind = "file"
       THEN tree' = Owned(tree, {entry.name}, UidOf(entry), GidOf(entry), entry.mode) /\ UNCHANGED ret
       ELSE /\ ret' = IF entry.type = "F" THEN ret ELSE "failure"
            /\ UNCHANGED tree

(* nftw, with bb_recursive for each file. *)
Recursive ==
    /\ Named({"r"})
    /\ IF entry.name \in DOMAIN tree
       THEN /\ tree' = Owned(tree, Below(tree, entry.name), UidOf(entry), GidOf(entry), entry.mode)
            /\ UNCHANGED ret
       ELSE ret' = "failure" /\ UNCHANGED tree

(* The nodes of a line with their minor numbers; mknod refuses those that   *)
(* are there.                                                              *)
MakeNodes ==
    LET l == entry
        last == l.start + (IF l.count > 0 THEN l.count - 1 ELSE 0)
        NodeAt(i) == IF l.count > 1 THEN Numbered(l.name, i) ELSE l.name
        Minor(i) == l.minor + (i - l.start) * l.increment
        Node(i) == Attributes(l.type, l.mode, UidOf(l), GidOf(l), l.major, Minor(i))
        made == {i \in l.start .. last :
                    NodeAt(i) \notin DOMAIN tree /\ \A p \in Parents(l.name) : IsDir(tree, p)}
    IN  /\ Named(Nodes)
        /\ tree' = [p \in DOMAIN tree \cup {NodeAt(i) : i \in made} |->
                       IF p \in DOMAIN tree THEN tree[p]
                       ELSE Node(CHOOSE i \in made : NodeAt(i) = p)]
        /\ ret' = IF made = l.start .. last THEN ret ELSE "failure"

Unsupported == Named({"other"}) /\ ret' = "failure" /\ UNCHANGED tree

EndOfTable ==
    /\ script = "makedevs" /\ next \notin DOMAIN devices
    /\ script' = IF ret = "success" THEN "done" ELSE "failed"
    /\ UNCHANGED <<vars, devices, tree, next, full_name, ret>>

DevicesNext ==
    \/ Adding \/ StartScript \/ Comment \/ InvalidLine \/ SetXattr \/ UnknownOwner \/ Directory
    \/ RegularFile \/ Recursive \/ MakeNodes \/ Unsupported \/ EndOfTable
DevicesSpec == DevicesInit /\ [][DevicesNext]_allvars

-----------------------------------------------------------------------------

(* The nodes of a line, as makedevs explains them when it is called without *)
(* arguments (makedevs.c 398-438), each with its minor number.             *)
NodesOf(l) ==
    IF l.count <= 1 THEN {<<l.name, l.minor>>}
    ELSE {<<Numbered(l.name, l.start + i), l.minor + i * l.increment>> : i \in 0 .. l.count - 1}
Covers(l, p) ==
    CASE l.type \in {"d", "f"}    -> p = l.name
      [] l.type = "F"              -> p = l.name /\ tree[p].kind = "file"
      [] l.type = "r"              -> IsPrefix(l.name, p)
      [] l.type \in Nodes          -> \E n \in NodesOf(l) : n[1] = p
      [] OTHER                     -> FALSE
Creates(l, p) == (l.type = "d" /\ IsPrefix(p, l.name)) \/ (l.type \in Nodes /\ Covers(l, p))

Lines == DOMAIN devices
HomeDirs == {Home[c.user] : c \in chowned}
(* What there is before makedevs; whose homes p is in. *)
Found(p) == p \in DOMAIN Files \/ \E h \in HomeDirs : IsPrefix(p, h)
Homeowners(p) == {c.user : c \in {d \in chowned : IsPrefix(Home[d.user], p)}}
(* The lines from which on p is there; those that are about it then. *)
There(p) == {j \in Lines : Found(p) \/ \E l \in 1 .. j : Creates(devices[l], p)}
About(p) == {j \in There(p) : Covers(devices[j], p)}
OwnerIs(p, uid, gid) == tree[p].uid = uid /\ tree[p].gid = gid

(* The line sets owner and mode of p; nothing but the script's first        *)
(* commands does.                                                          *)
SetBy(l, p) == OwnerIs(p, UidOf(l), GidOf(l)) /\ (l.mode # Keep => tree[p].mode = l.mode)
SetByScript(p) ==
    IF Found(p) /\ Homeowners(p) # {}
    THEN \E u \in Homeowners(p) : OwnerIs(p, passwd[u].uid, passwd[u].gid)
    ELSE OwnerIs(p, 0, 0)

(* Line i comes below one that names p, with only its likes between them;   *)
(* what lines the capabilities of p come from.                             *)
Naming == {"d", "f", "F", "r"} \cup Nodes
Follows(i, p) ==
    \E l \in 1 .. i - 1 :
        /\ devices[l].type \in Naming /\ devices[l].name = p
        /\ \A m \in l + 1 .. i - 1 : devices[m].type \in {"xattr", "comment"}
CapsOf(p) == {devices[j].cap : j \in {i \in Lines : devices[i].type = "xattr" /\ Follows(i, p)}}

CarriedOut(l) ==
    /\ l.type \notin {"invalid", "other"}
    /\ l.type \in {"d", "f", "r"} => l.name \in DOMAIN tree
    /\ l.type \in Nodes => \A n \in NodesOf(l) :
          /\ n[1] \in DOMAIN tree /\ tree[n[1]].kind = l.type
          /\ tree[n[1]].major = l.major /\ tree[n[1]].minor = n[2]

(* docs/manual/makedev-syntax.txt and fs/common.mk 155-165: an image is only *)
(* made of a tree in which each file has the owner, as the users of the     *)
(* image are numbered, and the mode of the last line about it; without one, *)
(* what was in a home belongs to its user, and the rest, with the           *)
(* directories made on the way to others, to root; the nodes are those the  *)
(* usage describes; the files have the capabilities of the lines below     *)
(* theirs and no others; and each line of the table could be carried out.  *)
TablesApplied ==
    script = "done" =>
        /\ \A p \in DOMAIN tree :
              /\ \A j \in About(p) : (\A m \in About(p) : m <= j) => SetBy(devices[j], p)
              /\ About(p) = {} => SetByScript(p)
        /\ \A p \in DOMAIN tree : tree[p].caps = CapsOf(p)
        /\ \A j \in Lines : CarriedOut(devices[j])
=============================================================================
