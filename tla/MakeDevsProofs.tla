--------------------------- MODULE MakeDevsProofs ---------------------------
(***************************************************************************)
(* That an image is only made of a tree to which the users and the device  *)
(* tables have been applied, for all tables, trees and skeletons.          *)
(***************************************************************************)
EXTENDS MakeDevs, MkUsersProofs, SequenceTheorems

(* The paths of the tree, with those of numbered nodes. *)
PathPart == [name : FileNames, number : Int]
AllPaths == Seq(PathPart) \ {NoPath}

LEMMA PathsOfTable == Paths \subseteq AllPaths
<1> DEFINE Plain == [name : FileNames, number : {Unnumbered}]
<1>1. Plain \subseteq PathPart
  BY DEF PathPart, Unnumbered
<1>2. Paths = Seq(Plain) \ {NoPath}
  BY DEF Paths
<1> HIDE DEF Plain
<1>3. \A p \in Seq(Plain) : p \in Seq(PathPart)
  BY <1>1, SeqMonotonic
<1> QED
  BY <1>2, <1>3 DEF AllPaths

LEMMA PathLength ==
  ASSUME NEW p \in AllPaths
  PROVE  /\ p \in Seq(PathPart) /\ Len(p) \in Nat \ {0} /\ DOMAIN p = 1 .. Len(p)
         /\ SubSeq(p, 1, Len(p)) = p
<1>1. p \in Seq(PathPart) /\ p # <<>>
  BY DEF AllPaths, NoPath
<1> QED
  BY <1>1, EmptySeq, LenProperties, SubSeqFull

LEMMA PrefixOfItself ==
  ASSUME NEW p \in AllPaths
  PROVE  IsPrefix(p, p)
  BY PathLength DEF IsPrefix

LEMMA ParentPath ==
  ASSUME NEW q \in AllPaths, NEW n \in 1 .. Len(q) - 1
  PROVE  SubSeq(q, 1, n) \in AllPaths /\ Len(SubSeq(q, 1, n)) = n
<1>1. q \in Seq(PathPart) /\ n \in Nat /\ 1 <= n /\ n <= Len(q) /\ Len(q) \in Nat
  BY PathLength
<1>2. \A i \in 1 .. n : q[i] \in PathPart
  BY <1>1, ElementOfSeq
<1>3. SubSeq(q, 1, n) \in Seq(PathPart) /\ Len(SubSeq(q, 1, n)) = n
  BY <1>1, <1>2, SubSeqProperties
<1>4. SubSeq(q, 1, n) # NoPath
  BY <1>1, <1>3, EmptySeq DEF NoPath
<1> QED
  BY <1>3, <1>4 DEF AllPaths

LEMMA Shorter ==
  ASSUME NEW m \in Nat \ {0}, NEW n \in Nat, m <= n, m # n
  PROVE  m \in 1 .. n - 1
  OBVIOUS

LEMMA PrefixOrParent ==
  ASSUME NEW p \in AllPaths, NEW q \in AllPaths
  PROVE  IsPrefix(p, q) <=> p = q \/ p \in Parents(q)
<1>1. /\ SubSeq(p, 1, Len(p)) = p /\ SubSeq(q, 1, Len(q)) = q
      /\ Len(p) \in Nat \ {0} /\ Len(q) \in Nat \ {0}
  BY PathLength
<1>3. ASSUME IsPrefix(p, q), p # q PROVE p \in Parents(q)
  <2>1. Len(p) <= Len(q) /\ p = SubSeq(q, 1, Len(p))
    BY <1>1, <1>3 DEF IsPrefix
  <2>2. Len(p) # Len(q)
    <3> SUFFICES ASSUME Len(p) = Len(q) PROVE p = q
      BY <1>3
    <3>1. SubSeq(q, 1, Len(p)) = SubSeq(q, 1, Len(q))
      OBVIOUS
    <3> QED
      BY <1>1, <2>1, <3>1
  <2>3. Len(p) \in 1 .. Len(q) - 1
    BY <1>1, <2>1, <2>2, Shorter
  <2> QED
    BY <2>1, <2>3 DEF Parents
<1>4. ASSUME p \in Parents(q) PROVE IsPrefix(p, q)
  <2>1. PICK n \in 1 .. Len(q) - 1 : p = SubSeq(q, 1, n)
    BY <1>4 DEF Parents
  <2>2. Len(p) = n
    BY <2>1, ParentPath
  <2>3. Len(p) <= Len(q) /\ SubSeq(p, 1, Len(p)) = SubSeq(q, 1, Len(p))
    BY <1>1, <2>1, <2>2
  <2> QED
    BY <2>3 DEF IsPrefix
<1>5. CASE p = q
  BY <1>5, PrefixOfItself
<1>6. CASE p # q
  BY <1>3, <1>4, <1>6
<1> QED
  BY <1>5, <1>6

LEMMA ParentsArePaths ==
  ASSUME NEW q \in AllPaths
  PROVE  Parents(q) \subseteq AllPaths
  BY ParentPath DEF Parents

-----------------------------------------------------------------------------

(***************************************************************************)
(* Types.                                                                  *)
(***************************************************************************)
DevTypeOK ==
    /\ devices \in DeviceTables[table] /\ next \in Nat \ {0}
    /\ script \in {"written", "makedevs", "done", "failed"} /\ ret \in {"success", "failure"}
    /\ full_name \in AllPaths \cup {NoPath}
    /\ ret = "success" => IsFile(tree, AllPaths, Attribute)
    /\ script = "written" => tree = Files /\ next = 1 /\ full_name = NoPath /\ ret = "success"
    /\ script \in {"makedevs", "done"} => pass = "done"
    /\ script = "done" => ret = "success" /\ next \notin Lines

LEMMA TableLines ==
  ASSUME UidInv, DevTypeOK
  PROVE  /\ Lines = 1 .. Len(devices) /\ Len(devices) \in Nat
         /\ \A j \in Lines : devices[j] \in DeviceLine
<1>1. table \in Tables
  BY DEF UidInv, TypeOK
<1>2. devices \in Seq(DeviceLine)
  BY <1>1, DeviceTablesAssumption DEF DevTypeOK
<1> QED
  BY <1>2, LenProperties, ElementOfSeq DEF Lines

FileTypes == {"d", "f", "F", "r", "other"} \cup Nodes

LEMMA EntryType ==
  ASSUME NEW l \in DeviceLine, l.type \in FileTypes
  PROVE  /\ l.name \in Paths /\ l.name \in AllPaths /\ l.mode \in Modes \cup {Keep}
         /\ l.user \in Users \cup Nat /\ l.group \in Groups \cup Nat
         /\ l.major \in Nat /\ l.minor \in Nat /\ l.start \in Nat
         /\ l.increment \in Nat /\ l.count \in Nat
<1>1. l \in Entry
  BY DEF DeviceLine, FileTypes, Nodes
<1>2. l.name \in Paths
  BY <1>1 DEF Entry
<1>3. l.name \in AllPaths
  BY <1>2, PathsOfTable
<1> QED
  BY <1>1, <1>2, <1>3 DEF Entry

LEMMA OwnerIds ==
  ASSUME UidInv, NEW l, l.user \in Users \cup Nat, l.group \in Groups \cup Nat, Known(l)
  PROVE  UidOf(l) \in Nat /\ GidOf(l) \in Nat
<1>1. l.user \in Nat \/ passwd[l.user] \in [uid : Nat, gid : Nat]
  BY DEF Known, UidInv, TypeOK, IsFile
<1>2. l.group \in Nat \/ group[l.group] \in [gid : Nat, members : SUBSET Users]
  BY DEF Known, UidInv, TypeOK, IsFile
<1>3. UidOf(l) \in Nat
  BY <1>1 DEF UidOf
<1>4. GidOf(l) \in Nat
  BY <1>2 DEF GidOf
<1> QED
  BY <1>3, <1>4

LEMMA MadeDirectory ==
  ASSUME NEW mode \in {"755", "777"}
  PROVE  /\ Attributes("dir", mode, 0, 0, 0, 0) \in Attribute
         /\ Attributes("dir", mode, 0, 0, 0, 0).uid = 0
         /\ Attributes("dir", mode, 0, 0, 0, 0).gid = 0
         /\ Attributes("dir", mode, 0, 0, 0, 0).caps = {}
  BY DEF Attributes, Attribute

(* What Owned does to a file. *)
LEMMA OwnedFiles ==
  ASSUME NEW t, IsFile(t, AllPaths, Attribute), NEW paths, NEW uid \in Nat, NEW gid \in Nat,
         NEW mode \in Modes \cup {Keep, AllBits}
  PROVE  /\ IsFile(Owned(t, paths, uid, gid, mode), AllPaths, Attribute)
         /\ DOMAIN Owned(t, paths, uid, gid, mode) = DOMAIN t
         /\ \A p \in DOMAIN t :
               /\ Owned(t, paths, uid, gid, mode)[p].kind = t[p].kind
               /\ Owned(t, paths, uid, gid, mode)[p].major = t[p].major
               /\ Owned(t, paths, uid, gid, mode)[p].minor = t[p].minor
               /\ Owned(t, paths, uid, gid, mode)[p].caps = t[p].caps
               /\ p \in paths => /\ Owned(t, paths, uid, gid, mode)[p].uid = uid
                                 /\ Owned(t, paths, uid, gid, mode)[p].gid = gid
                                 /\ mode # Keep => Owned(t, paths, uid, gid, mode)[p].mode = mode
               /\ p \notin paths => Owned(t, paths, uid, gid, mode)[p] = t[p]
<1> DEFINE o == Owned(t, paths, uid, gid, mode)
           Changed(a) == [a EXCEPT !.uid = uid, !.gid = gid,
                                   !.mode = IF mode = Keep THEN @ ELSE mode]
<1>1. DOMAIN o = DOMAIN t /\ \A p \in DOMAIN t : o[p] = IF p \notin paths THEN t[p] ELSE Changed(t[p])
  BY DEF Owned
<1>2. \A a \in Attribute :
         /\ Changed(a) \in Attribute /\ Changed(a).kind = a.kind /\ Changed(a).major = a.major
         /\ Changed(a).minor = a.minor /\ Changed(a).caps = a.caps /\ Changed(a).uid = uid
         /\ Changed(a).gid = gid /\ (mode # Keep => Changed(a).mode = mode)
  BY DEF Attribute
<1>3. \A p \in DOMAIN t : t[p] \in Attribute /\ p \in AllPaths
  BY DEF IsFile
<1> HIDE DEF o, Changed
<1>4. \A p \in DOMAIN t : o[p] \in Attribute
  BY <1>1, <1>2, <1>3
<1>5. IsFile(o, AllPaths, Attribute)
  BY <1>1, <1>3, <1>4 DEF IsFile
<1> QED
  BY <1>1, <1>2, <1>3, <1>5 DEF o

-----------------------------------------------------------------------------

(***************************************************************************)
(* What a line that names a file does to the tree, unless it fails.        *)
(***************************************************************************)
KeepsFile(p) ==
    /\ tree'[p].kind = tree[p].kind /\ tree'[p].major = tree[p].major
    /\ tree'[p].minor = tree[p].minor /\ tree'[p].caps = tree[p].caps
KeepsOwner(p) ==
    tree'[p].uid = tree[p].uid /\ tree'[p].gid = tree[p].gid /\ tree'[p].mode = tree[p].mode

Applied(l) ==
    /\ IsFile(tree', AllPaths, Attribute)
    /\ DOMAIN tree' = DOMAIN tree \cup {p \in AllPaths : Creates(l, p)}
    /\ \A p \in DOMAIN tree : KeepsFile(p)
    /\ \A p \in DOMAIN tree' \ DOMAIN tree : tree'[p].caps = {}
    /\ \A p \in DOMAIN tree' :
          /\ Covers(l, p)' => /\ tree'[p].uid = UidOf(l) /\ tree'[p].gid = GidOf(l)
                              /\ l.mode # Keep => tree'[p].mode = l.mode
          /\ ~Covers(l, p)' => IF p \in DOMAIN tree THEN KeepsOwner(p)
                               ELSE tree'[p].uid = 0 /\ tree'[p].gid = 0
    /\ CarriedOut(l)'

LEMMA OwnedTree ==
  ASSUME NEW uid \in Nat, NEW gid \in Nat, NEW mode \in Modes \cup {Keep, AllBits}, NEW paths,
         IsFile(tree, AllPaths, Attribute), tree' = Owned(tree, paths, uid, gid, mode)
  PROVE  /\ IsFile(tree', AllPaths, Attribute) /\ DOMAIN tree' = DOMAIN tree
         /\ \A p \in DOMAIN tree :
               /\ tree'[p].kind = tree[p].kind /\ tree'[p].major = tree[p].major
               /\ tree'[p].minor = tree[p].minor /\ tree'[p].caps = tree[p].caps
               /\ p \in paths => /\ tree'[p].uid = uid /\ tree'[p].gid = gid
                                 /\ mode # Keep => tree'[p].mode = mode
               /\ p \notin paths => tree'[p] = tree[p]
<1> DEFINE o == Owned(tree, paths, uid, gid, mode)
<1>1. /\ IsFile(o, AllPaths, Attribute) /\ DOMAIN o = DOMAIN tree
      /\ \A p \in DOMAIN tree :
            /\ o[p].kind = tree[p].kind /\ o[p].major = tree[p].major
            /\ o[p].minor = tree[p].minor /\ o[p].caps = tree[p].caps
            /\ p \in paths => /\ o[p].uid = uid /\ o[p].gid = gid
                              /\ mode # Keep => o[p].mode = mode
            /\ p \notin paths => o[p] = tree[p]
  BY OwnedFiles
<1>2. tree' = o
  OBVIOUS
<1> HIDE DEF o
<1> QED
  BY <1>1, <1>2

LEMMA CoversByType ==
  ASSUME NEW l, NEW p
  PROVE  /\ l.type \in {"d", "f"} => (Covers(l, p) <=> p = l.name)
         /\ l.type = "F" => (Covers(l, p) <=> p = l.name /\ tree[p].kind = "file")
         /\ l.type = "r" => (Covers(l, p) <=> IsPrefix(l.name, p))
         /\ l.type \in Nodes => (Covers(l, p) <=> \E n \in NodesOf(l) : n[1] = p)
         /\ l.type = "d" => (Creates(l, p) <=> IsPrefix(p, l.name))
         /\ l.type \in Nodes => (Creates(l, p) <=> Covers(l, p))
         /\ l.type \notin Nodes \cup {"d"} => ~Creates(l, p)
  BY DEF Covers, Creates, Nodes

LEMMA CoversByTypeThen ==
  ASSUME NEW l, NEW p
  PROVE  /\ l.type \in {"d", "f"} => (Covers(l, p)' <=> p = l.name)
         /\ l.type = "F" => (Covers(l, p)' <=> p = l.name /\ tree'[p].kind = "file")
         /\ l.type = "r" => (Covers(l, p)' <=> IsPrefix(l.name, p))
         /\ l.type \in Nodes => (Covers(l, p)' <=> \E n \in NodesOf(l) : n[1] = p)
  BY DEF Covers, Nodes

LEMMA LineNow ==
  ASSUME UidInv, DevTypeOK, NEW types, NEW l, l = entry, At(types), types \subseteq FileTypes
  PROVE  /\ l \in DeviceLine /\ l.type \in types /\ l.name \in AllPaths
         /\ l.mode \in Modes \cup {Keep}
         /\ Known(l) => UidOf(l) \in Nat /\ GidOf(l) \in Nat
<1>1. next \in Lines /\ l = devices[next] /\ l.type \in types
  BY DEF At, entry, Lines
<1>2. l \in DeviceLine
  BY <1>1, TableLines
<1>3. l.type \in FileTypes
  BY <1>1
<1> QED
  BY <1>1, <1>2, <1>3, EntryType, OwnerIds

LEMMA DirectoryApplied ==
  ASSUME UidInv, DevTypeOK, NEW l, l = entry, Directory, ret' = "success"
  PROVE  Applied(l)
<1> DEFINE name == l.name
           new  == (Parents(name) \cup {name}) \ DOMAIN tree
           mode == IF name \in new /\ l.mode = Keep THEN AllBits ELSE l.mode
           made == [p \in DOMAIN tree \cup new |->
                       IF p \in new THEN Attributes("dir", "777", 0, 0, 0, 0) ELSE tree[p]]
<1>l. /\ l.type = "d" /\ name \in AllPaths /\ l.mode \in Modes \cup {Keep}
      /\ UidOf(l) \in Nat /\ GidOf(l) \in Nat
  BY LineNow DEF Directory, Named, FileTypes
<1>1. tree' = Owned(made, {name}, UidOf(l), GidOf(l), mode)
  BY DEF Directory
<1>2. mode \in Modes \cup {Keep, AllBits} /\ (l.mode # Keep => mode = l.mode)
  BY <1>l
<1>3. IsFile(tree, AllPaths, Attribute)
  BY DEF DevTypeOK, Directory
<1>4. /\ Attributes("dir", "777", 0, 0, 0, 0) \in Attribute
      /\ Attributes("dir", "777", 0, 0, 0, 0).uid = 0
      /\ Attributes("dir", "777", 0, 0, 0, 0).gid = 0
      /\ Attributes("dir", "777", 0, 0, 0, 0).caps = {}
  BY MadeDirectory
<1>5. new \subseteq AllPaths
  BY <1>l, ParentsArePaths
<1>6. /\ DOMAIN made = DOMAIN tree \cup new /\ new \cap DOMAIN tree = {}
      /\ \A p \in new : made[p] = Attributes("dir", "777", 0, 0, 0, 0)
      /\ \A p \in DOMAIN tree : made[p] = tree[p]
  OBVIOUS
<1>7. \A p \in AllPaths : p \in DOMAIN tree \/ (p \in new <=> Creates(l, p))
  BY <1>l, PrefixOrParent, CoversByType
<1>8. name \in DOMAIN tree \cup new
  OBVIOUS
<1> HIDE DEF new, mode, made
<1>9. IsFile(made, AllPaths, Attribute)
  BY <1>3, <1>4, <1>5, <1>6 DEF IsFile
<1>10. /\ IsFile(tree', AllPaths, Attribute) /\ DOMAIN tree' = DOMAIN made
       /\ \A p \in DOMAIN made :
             /\ tree'[p].kind = made[p].kind /\ tree'[p].major = made[p].major
             /\ tree'[p].minor = made[p].minor /\ tree'[p].caps = made[p].caps
             /\ p = name => /\ tree'[p].uid = UidOf(l) /\ tree'[p].gid = GidOf(l)
                            /\ mode # Keep => tree'[p].mode = mode
             /\ p # name => tree'[p] = made[p]
  BY <1>1, <1>2, <1>l, <1>9, OwnedFiles
<1>11. DOMAIN tree' = DOMAIN tree \cup {p \in AllPaths : Creates(l, p)}
  BY <1>5, <1>6, <1>7, <1>10, <1>3 DEF IsFile
<1>12. \A p \in DOMAIN tree : KeepsFile(p)
  BY <1>6, <1>10 DEF KeepsFile
<1>13. \A p \in DOMAIN tree' \ DOMAIN tree : tree'[p].caps = {}
  BY <1>4, <1>6, <1>10
<1>14. \A p \in DOMAIN tree' :
          /\ Covers(l, p)' => /\ tree'[p].uid = UidOf(l) /\ tree'[p].gid = GidOf(l)
                              /\ l.mode # Keep => tree'[p].mode = l.mode
          /\ ~Covers(l, p)' => IF p \in DOMAIN tree THEN KeepsOwner(p)
                               ELSE tree'[p].uid = 0 /\ tree'[p].gid = 0
  <2> SUFFICES ASSUME NEW p \in DOMAIN tree'
               PROVE  /\ Covers(l, p)' => /\ tree'[p].uid = UidOf(l) /\ tree'[p].gid = GidOf(l)
                                          /\ l.mode # Keep => tree'[p].mode = l.mode
                      /\ ~Covers(l, p)' => IF p \in DOMAIN tree THEN KeepsOwner(p)
                                           ELSE tree'[p].uid = 0 /\ tree'[p].gid = 0
    OBVIOUS
  <2>1. Covers(l, p)' <=> p = name
    BY <1>l, CoversByTypeThen
  <2>2. CASE p = name
    BY <1>2, <1>10, <2>1, <2>2
  <2>3. CASE p # name
    BY <1>4, <1>6, <1>10, <2>1, <2>3 DEF KeepsOwner
  <2> QED
    BY <2>2, <2>3
<1>15. CarriedOut(l)'
  BY <1>l, <1>6, <1>8, <1>10 DEF CarriedOut, Nodes
<1> QED
  BY <1>10, <1>11, <1>12, <1>13, <1>14, <1>15 DEF Applied

LEMMA RegularFileApplied ==
  ASSUME UidInv, DevTypeOK, NEW l, l = entry, RegularFile, ret' = "success"
  PROVE  Applied(l)
<1> DEFINE name == l.name
           it   == {l.name}
<1>l. /\ l.type \in {"f", "F"} /\ name \in AllPaths /\ l.mode \in Modes \cup {Keep}
      /\ UidOf(l) \in Nat /\ GidOf(l) \in Nat
  BY LineNow DEF RegularFile, Named, FileTypes
<1>3. IsFile(tree, AllPaths, Attribute)
  BY DEF DevTypeOK, RegularFile
<1>n. \A p : ~Creates(l, p)
  BY <1>l, CoversByType DEF Nodes
<1>1. CASE name \in DOMAIN tree /\ tree[name].kind = "file"
  <2>1. /\ tree' = Owned(tree, it, UidOf(l), GidOf(l), l.mode)
        /\ l.mode \in Modes \cup {Keep, AllBits}
    BY <1>1, <1>l DEF RegularFile
  <2>2. /\ IsFile(tree', AllPaths, Attribute) /\ DOMAIN tree' = DOMAIN tree
        /\ \A p \in DOMAIN tree :
             /\ tree'[p].kind = tree[p].kind /\ tree'[p].major = tree[p].major
             /\ tree'[p].minor = tree[p].minor /\ tree'[p].caps = tree[p].caps
             /\ p \in it => /\ tree'[p].uid = UidOf(l) /\ tree'[p].gid = GidOf(l)
                            /\ l.mode # Keep => tree'[p].mode = l.mode
             /\ p \notin it => tree'[p] = tree[p]
    <3> HIDE DEF it
    <3> QED
      BY ONLY <2>1, <1>l, <1>3, OwnedTree
  <2>3. \A p \in DOMAIN tree : Covers(l, p)' <=> p = name
    BY <1>1, <1>l, <2>2, CoversByTypeThen
  <2>4. CarriedOut(l)'
    BY <1>1, <1>l, <2>2 DEF CarriedOut, Nodes
  <2>5. \A p \in DOMAIN tree' :
           /\ Covers(l, p)' => /\ tree'[p].uid = UidOf(l) /\ tree'[p].gid = GidOf(l)
                               /\ l.mode # Keep => tree'[p].mode = l.mode
           /\ ~Covers(l, p)' => p \in DOMAIN tree /\ KeepsOwner(p)
    <3> SUFFICES ASSUME NEW p \in DOMAIN tree'
                 PROVE  /\ Covers(l, p)' => /\ tree'[p].uid = UidOf(l) /\ tree'[p].gid = GidOf(l)
                                            /\ l.mode # Keep => tree'[p].mode = l.mode
                        /\ ~Covers(l, p)' => p \in DOMAIN tree /\ KeepsOwner(p)
      OBVIOUS
    <3>1. p \in it <=> p = name
      OBVIOUS
    <3>2. p \in DOMAIN tree /\ (Covers(l, p)' <=> p = name)
      BY <2>2, <2>3
    <3> HIDE DEF it, name
    <3>3. p \notin it => tree'[p] = tree[p]
      BY <2>2, <3>2
    <3>4. p \notin it => KeepsOwner(p)
      BY <3>3 DEF KeepsOwner
    <3>5. p \in it => /\ tree'[p].uid = UidOf(l) /\ tree'[p].gid = GidOf(l)
                      /\ l.mode # Keep => tree'[p].mode = l.mode
      BY <2>2, <3>2, Zenon
    <3> QED
      BY <3>1, <3>2, <3>4, <3>5
  <2>6. \A p \in DOMAIN tree : KeepsFile(p)
    BY <2>2 DEF KeepsFile
  <2> QED
    BY <1>n, <2>2, <2>4, <2>5, <2>6 DEF Applied
<1>2. CASE ~(name \in DOMAIN tree /\ tree[name].kind = "file")
  <2>1. tree' = tree /\ l.type = "F"
    BY <1>2, <1>l DEF RegularFile
  <2>2. \A p \in DOMAIN tree' : ~Covers(l, p)'
    BY <1>2, <2>1, CoversByTypeThen
  <2>3. CarriedOut(l)'
    BY <2>1 DEF CarriedOut, Nodes
  <2> QED
    BY <1>3, <1>n, <2>1, <2>2, <2>3 DEF Applied, KeepsFile, KeepsOwner
<1> QED
  BY <1>1, <1>2

LEMMA RecursiveApplied ==
  ASSUME UidInv, DevTypeOK, NEW l, l = entry, Recursive, ret' = "success"
  PROVE  Applied(l)
<1> DEFINE below == Below(tree, l.name)
<1>l. /\ l.type = "r" /\ l.mode \in Modes \cup {Keep} /\ UidOf(l) \in Nat /\ GidOf(l) \in Nat
  BY LineNow DEF Recursive, Named, FileTypes
<1>1. /\ l.name \in DOMAIN tree /\ tree' = Owned(tree, below, UidOf(l), GidOf(l), l.mode)
      /\ l.mode \in Modes \cup {Keep, AllBits}
  BY <1>l DEF Recursive
<1>2. IsFile(tree, AllPaths, Attribute)
  BY DEF DevTypeOK, Recursive
<1>n. \A p : ~Creates(l, p)
  BY <1>l, CoversByType DEF Nodes
<1>3. \A p \in DOMAIN tree : Covers(l, p)' <=> p \in below
  BY <1>l, CoversByTypeThen DEF Below
<1> HIDE DEF below
<1>4. /\ IsFile(tree', AllPaths, Attribute) /\ DOMAIN tree' = DOMAIN tree
      /\ \A p \in DOMAIN tree :
           /\ tree'[p].kind = tree[p].kind /\ tree'[p].major = tree[p].major
           /\ tree'[p].minor = tree[p].minor /\ tree'[p].caps = tree[p].caps
           /\ p \in below => /\ tree'[p].uid = UidOf(l) /\ tree'[p].gid = GidOf(l)
                             /\ l.mode # Keep => tree'[p].mode = l.mode
           /\ p \notin below => tree'[p] = tree[p]
  <2>1. /\ UidOf(l) \in Nat /\ GidOf(l) \in Nat /\ l.mode \in Modes \cup {Keep, AllBits}
        /\ tree' = Owned(tree, below, UidOf(l), GidOf(l), l.mode)
    BY <1>1, <1>l
  <2>2. \A uid, gid \in Nat, mode \in Modes \cup {Keep, AllBits} :
           tree' = Owned(tree, below, uid, gid, mode)
           => /\ IsFile(tree', AllPaths, Attribute) /\ DOMAIN tree' = DOMAIN tree
              /\ \A p \in DOMAIN tree :
                    /\ tree'[p].kind = tree[p].kind /\ tree'[p].major = tree[p].major
                    /\ tree'[p].minor = tree[p].minor /\ tree'[p].caps = tree[p].caps
                    /\ p \in below => /\ tree'[p].uid = uid /\ tree'[p].gid = gid
                                      /\ mode # Keep => tree'[p].mode = mode
                    /\ p \notin below => tree'[p] = tree[p]
    BY ONLY <1>2, OwnedTree
  <2> QED
    BY ONLY <2>1, <2>2
<1>5. CarriedOut(l)'
  BY <1>1, <1>l, <1>4 DEF CarriedOut, Nodes
<1> QED
  BY <1>n, <1>3, <1>4, <1>5 DEF Applied, KeepsFile, KeepsOwner

-----------------------------------------------------------------------------

(***************************************************************************)
(* The nodes of a line.                                                    *)
(***************************************************************************)
LastOf(l) == l.start + (IF l.count > 0 THEN l.count - 1 ELSE 0)
Numbers(l) == l.start .. LastOf(l)
NodeAt(l, i) == IF l.count > 1 THEN Numbered(l.name, i) ELSE l.name
MinorAt(l, i) == l.minor + (i - l.start) * l.increment

LEMMA NumberedPath ==
  ASSUME NEW p \in AllPaths, NEW i \in Int
  PROVE  Numbered(p, i) \in AllPaths /\ Numbered(p, i)[Len(p)].number = i
<1>1. p \in Seq(PathPart) /\ Len(p) \in DOMAIN p /\ DOMAIN p = 1 .. Len(p) /\ Len(p) \in Nat \ {0}
  BY PathLength
<1>2. \A k \in DOMAIN p : p[k] \in PathPart
  BY <1>1, ElementOfSeq
<1> DEFINE last == [p[Len(p)] EXCEPT !.number = i]
<1>3. last \in PathPart /\ last.number = i
  BY <1>1, <1>2 DEF PathPart
<1>4. Numbered(p, i) = [p EXCEPT ![Len(p)] = last]
  BY DEF Numbered
<1> HIDE DEF last
<1>5. Numbered(p, i) \in Seq(PathPart) /\ Len(Numbered(p, i)) = Len(p)
  BY <1>1, <1>3, <1>4, ExceptSeq
<1>6. Numbered(p, i)[Len(p)] = last
  BY <1>1, <1>4
<1>7. Numbered(p, i) # NoPath
  BY <1>1, <1>5, EmptySeq DEF NoPath
<1> QED
  BY <1>3, <1>5, <1>6, <1>7 DEF AllPaths

LEMMA Products ==
  ASSUME NEW a \in Nat, NEW b \in Nat, NEW m \in Nat
  PROVE  m + a * b \in Nat
  OBVIOUS

LEMMA NodesNumbered ==
  ASSUME NEW l, l.name \in AllPaths, l.count \in Nat, l.start \in Nat, l.minor \in Nat,
         l.increment \in Nat
  PROVE  /\ Numbers(l) # {}
         /\ \A i \in Numbers(l) : /\ NodeAt(l, i) \in AllPaths /\ MinorAt(l, i) \in Nat
                                  /\ <<NodeAt(l, i), MinorAt(l, i)>> \in NodesOf(l)
         /\ \A i, j \in Numbers(l) : NodeAt(l, i) = NodeAt(l, j) => i = j
         /\ \A n \in NodesOf(l) : \E i \in Numbers(l) : n = <<NodeAt(l, i), MinorAt(l, i)>>
<1>1. CASE l.count <= 1
  <2>1. LastOf(l) = l.start
    BY <1>1 DEF LastOf
  <2>2. Numbers(l) = {l.start}
    BY <2>1 DEF Numbers
  <2>3. \A i : NodeAt(l, i) = l.name
    BY <1>1 DEF NodeAt
  <2>4. MinorAt(l, l.start) = l.minor
    BY DEF MinorAt
  <2>5. NodesOf(l) = {<<l.name, l.minor>>}
    BY <1>1 DEF NodesOf
  <2> QED
    BY <2>2, <2>3, <2>4, <2>5
<1>2. CASE ~(l.count <= 1)
  <2>1. l.count > 1 /\ LastOf(l) = l.start + (l.count - 1)
    BY <1>2 DEF LastOf
  <2>2. \A i : NodeAt(l, i) = Numbered(l.name, i)
    BY <2>1 DEF NodeAt
  <2>3. NodesOf(l) = {<<Numbered(l.name, l.start + k), l.minor + k * l.increment>> : k \in 0 .. l.count - 1}
    BY <1>2 DEF NodesOf
  <2>4. \A i \in Numbers(l) : i - l.start \in 0 .. l.count - 1 /\ l.start + (i - l.start) = i /\ i \in Int
    BY <2>1 DEF Numbers
  <2>5. \A k \in 0 .. l.count - 1 : l.start + k \in Numbers(l) /\ (l.start + k) - l.start = k
    BY <2>1 DEF Numbers
  <2>6. \A i \in Numbers(l) : NodeAt(l, i) \in AllPaths /\ NodeAt(l, i)[Len(l.name)].number = i
    BY <2>2, <2>4, NumberedPath
  <2>7. ASSUME NEW i \in Numbers(l)
        PROVE  MinorAt(l, i) \in Nat /\ <<NodeAt(l, i), MinorAt(l, i)>> \in NodesOf(l)
    <3> DEFINE k == i - l.start
    <3>1. k \in 0 .. l.count - 1 /\ l.start + k = i /\ k \in Nat
      BY <2>4
    <3>2. MinorAt(l, i) = l.minor + k * l.increment
      BY DEF MinorAt
    <3> HIDE DEF k
    <3>3. l.minor + k * l.increment \in Nat
      BY <3>1, Products
    <3> QED
      BY <2>2, <2>3, <3>1, <3>2, <3>3
  <2>8. ASSUME NEW n \in NodesOf(l)
        PROVE  \E i \in Numbers(l) : n = <<NodeAt(l, i), MinorAt(l, i)>>
    <3>1. PICK k \in 0 .. l.count - 1 : n = <<Numbered(l.name, l.start + k), l.minor + k * l.increment>>
      BY <2>3
    <3> DEFINE i == l.start + k
    <3>2. i \in Numbers(l) /\ i - l.start = k
      BY <2>5
    <3>3. MinorAt(l, i) = l.minor + k * l.increment
      BY <3>2 DEF MinorAt
    <3>4. n = <<NodeAt(l, i), MinorAt(l, i)>>
      BY <2>2, <3>1, <3>3
    <3> QED
      BY <3>2, <3>4
  <2>9. Numbers(l) # {}
    BY <2>1 DEF Numbers
  <2> QED
    BY <2>6, <2>7, <2>8, <2>9
<1> QED
  BY <1>1, <1>2

LEMMA NodesHaveModes ==
  ASSUME UidInv, DevTypeOK, NEW l, l = entry, At(Nodes)
  PROVE  l.mode # Keep
<1>1. table \in Tables /\ devices \in DeviceTables[table]
  BY DEF UidInv, TypeOK, DevTypeOK
<1>2. next \in DOMAIN devices /\ l = devices[next] /\ l.type \in Nodes
  BY DEF At, entry
<1> QED
  BY <1>1, <1>2, NodesAssumption

LEMMA MakeNodesApplied ==
  ASSUME UidInv, DevTypeOK, NEW l, l = entry, MakeNodes, ret' = "success"
  PROVE  Applied(l)
<1> DEFINE Node(i) == Attributes(l.type, l.mode, UidOf(l), GidOf(l), l.major, MinorAt(l, i))
           made == {i \in Numbers(l) :
                       NodeAt(l, i) \notin DOMAIN tree /\ \A p \in Parents(l.name) : IsDir(tree, p)}
           new  == {NodeAt(l, i) : i \in Numbers(l)}
<1>l. /\ l \in DeviceLine /\ l.type \in Nodes /\ l.type \in FileTypes /\ l.name \in AllPaths
      /\ l.mode \in Modes \cup {Keep} /\ UidOf(l) \in Nat /\ GidOf(l) \in Nat
  BY LineNow DEF MakeNodes, Named, FileTypes
<1>m. l.mode \in Modes \cup {"755", "777", AllBits} /\ l.type \in Nodes \cup {"dir", "file", "link"}
  BY <1>l, NodesHaveModes DEF MakeNodes, Named
<1>e. /\ l.major \in Nat /\ l.minor \in Nat /\ l.start \in Nat
      /\ l.increment \in Nat /\ l.count \in Nat
  BY <1>l, EntryType
<1>n. /\ \A i \in Numbers(l) : /\ NodeAt(l, i) \in AllPaths /\ MinorAt(l, i) \in Nat
                               /\ <<NodeAt(l, i), MinorAt(l, i)>> \in NodesOf(l)
      /\ \A i, j \in Numbers(l) : NodeAt(l, i) = NodeAt(l, j) => i = j
      /\ \A n \in NodesOf(l) : \E i \in Numbers(l) : n = <<NodeAt(l, i), MinorAt(l, i)>>
  BY <1>l, <1>e, NodesNumbered
<1>1. /\ tree' = [p \in DOMAIN tree \cup {NodeAt(l, i) : i \in made} |->
                     IF p \in DOMAIN tree THEN tree[p]
                     ELSE Node(CHOOSE i \in made : NodeAt(l, i) = p)]
      /\ ret' = IF made = Numbers(l) THEN ret ELSE "failure"
  BY DEF MakeNodes, NodeAt, MinorAt, Numbers, LastOf
<1>2. made = Numbers(l)
  BY <1>1
<1>3. IsFile(tree, AllPaths, Attribute)
  BY DEF DevTypeOK, MakeNodes
<1>4. new \cap DOMAIN tree = {}
  BY <1>2
<1>5. DOMAIN tree' = DOMAIN tree \cup new
  BY <1>1, <1>2
<1>6. \A p \in DOMAIN tree : tree'[p] = tree[p]
  BY <1>1
<1>7. \A i \in Numbers(l) : tree'[NodeAt(l, i)] = Node(i)
  <2> SUFFICES ASSUME NEW i \in Numbers(l)
               PROVE  tree'[NodeAt(l, i)] = Node(i)
    OBVIOUS
  <2>1. (CHOOSE k \in made : NodeAt(l, k) = NodeAt(l, i)) = i
    <3> HIDE DEF made
    <3>1. \E k \in made : NodeAt(l, k) = NodeAt(l, i)
      BY <1>2
    <3> QED
      BY <1>2, <1>n, <3>1
  <2>2. NodeAt(l, i) \in new /\ NodeAt(l, i) \notin DOMAIN tree
    BY <1>4
  <2>3. NodeAt(l, i) \in DOMAIN tree \cup {NodeAt(l, k) : k \in made}
    BY <1>2
  <2> HIDE DEF made, Node
  <2> QED
    BY <1>1, <2>1, <2>2, <2>3
<1>8. \A i \in Numbers(l) :
         /\ Node(i) \in Attribute /\ Node(i).kind = l.type /\ Node(i).mode = l.mode
         /\ Node(i).uid = UidOf(l) /\ Node(i).gid = GidOf(l) /\ Node(i).major = l.major
         /\ Node(i).minor = MinorAt(l, i) /\ Node(i).caps = {}
  <2> SUFFICES ASSUME NEW i \in Numbers(l)
               PROVE  /\ Node(i) \in Attribute /\ Node(i).kind = l.type /\ Node(i).mode = l.mode
                      /\ Node(i).uid = UidOf(l) /\ Node(i).gid = GidOf(l) /\ Node(i).major = l.major
                      /\ Node(i).minor = MinorAt(l, i) /\ Node(i).caps = {}
    OBVIOUS
  <2>1. MinorAt(l, i) \in Nat
    BY <1>n
  <2> QED
    BY <1>l, <1>m, <1>e, <2>1 DEF Attributes, Attribute
<1>a. \A p : (\E n \in NodesOf(l) : n[1] = p) <=> p \in new
  <2> SUFFICES ASSUME NEW p
               PROVE  (\E n \in NodesOf(l) : n[1] = p) <=> p \in new
    OBVIOUS
  <2>1. ASSUME NEW n \in NodesOf(l), n[1] = p PROVE p \in new
    <3>1. PICK i \in Numbers(l) : n = <<NodeAt(l, i), MinorAt(l, i)>>
      BY <1>n
    <3>2. n[1] = NodeAt(l, i)
      BY <3>1
    <3> QED
      BY <2>1, <3>2
  <2>2. ASSUME p \in new PROVE \E n \in NodesOf(l) : n[1] = p
    <3>1. PICK i \in Numbers(l) : p = NodeAt(l, i)
      BY <2>2
    <3>2. <<NodeAt(l, i), MinorAt(l, i)>> \in NodesOf(l)
      BY <1>n
    <3>3. <<NodeAt(l, i), MinorAt(l, i)>>[1] = p
      BY <3>1
    <3> QED
      BY <3>2, <3>3
  <2> QED
    BY <2>1, <2>2
<1>9. \A p : Creates(l, p) <=> p \in new
  <2> SUFFICES ASSUME NEW p
               PROVE  Creates(l, p) <=> p \in new
    OBVIOUS
  <2>1. (Creates(l, p) <=> Covers(l, p)) /\ (Covers(l, p) <=> \E n \in NodesOf(l) : n[1] = p)
    BY <1>l, CoversByType
  <2> HIDE DEF new
  <2> QED
    BY <1>a, <2>1
<1>10. \A p : Covers(l, p)' <=> p \in new
  <2> SUFFICES ASSUME NEW p
               PROVE  Covers(l, p)' <=> p \in new
    OBVIOUS
  <2>1. Covers(l, p)' <=> \E n \in NodesOf(l) : n[1] = p
    BY <1>l, CoversByTypeThen
  <2> HIDE DEF new
  <2> QED
    BY <1>a, <2>1
<1>12. new \subseteq AllPaths
  <2>1. \A i \in Numbers(l) : NodeAt(l, i) \in AllPaths
    BY <1>n
  <2> QED
    BY ONLY <2>1
<1>13. \A p \in new : \E i \in Numbers(l) : p = NodeAt(l, i) /\ tree'[p] = Node(i)
  <2> SUFFICES ASSUME NEW p \in new
               PROVE  \E i \in Numbers(l) : p = NodeAt(l, i) /\ tree'[p] = Node(i)
    OBVIOUS
  <2>1. PICK i \in Numbers(l) : p = NodeAt(l, i)
    OBVIOUS
  <2> HIDE DEF Node
  <2> QED
    BY <1>7, <2>1
<1> HIDE DEF new, made, Node
<1>14. IsFile(tree', AllPaths, Attribute)
  BY <1>3, <1>5, <1>6, <1>8, <1>12, <1>13 DEF IsFile
<1>15. DOMAIN tree' = DOMAIN tree \cup {p \in AllPaths : Creates(l, p)}
  BY <1>5, <1>9, <1>12
<1>16. \A p \in DOMAIN tree : KeepsFile(p) /\ KeepsOwner(p)
  BY <1>6 DEF KeepsFile, KeepsOwner
<1>17. \A p \in DOMAIN tree' \ DOMAIN tree : tree'[p].caps = {}
  BY <1>5, <1>8, <1>13
<1>18. \A p \in DOMAIN tree' :
          /\ Covers(l, p)' => /\ tree'[p].uid = UidOf(l) /\ tree'[p].gid = GidOf(l)
                              /\ l.mode # Keep => tree'[p].mode = l.mode
          /\ ~Covers(l, p)' => p \in DOMAIN tree /\ KeepsOwner(p)
  BY <1>5, <1>8, <1>10, <1>13, <1>16
<1>19. CarriedOut(l)'
  <2>1. \A n \in NodesOf(l) :
           /\ n[1] \in DOMAIN tree' /\ tree'[n[1]].kind = l.type
           /\ tree'[n[1]].major = l.major /\ tree'[n[1]].minor = n[2]
    <3> SUFFICES ASSUME NEW n \in NodesOf(l)
                 PROVE  /\ n[1] \in DOMAIN tree' /\ tree'[n[1]].kind = l.type
                        /\ tree'[n[1]].major = l.major /\ tree'[n[1]].minor = n[2]
      OBVIOUS
    <3>1. PICK i \in Numbers(l) : n = <<NodeAt(l, i), MinorAt(l, i)>>
      BY <1>n
    <3>2. n[1] = NodeAt(l, i) /\ n[2] = MinorAt(l, i)
      BY <3>1
    <3>3. n[1] \in new
      BY <3>2 DEF new
    <3> QED
      BY <1>5, <1>7, <1>8, <3>2, <3>3
  <2> QED
    BY <2>1, <1>l DEF CarriedOut, Nodes
<1> QED
  BY <1>14, <1>15, <1>16, <1>17, <1>18, <1>19 DEF Applied

-----------------------------------------------------------------------------

(***************************************************************************)
(* The types are kept; the tree has its own only as long as no line failed. *)
(***************************************************************************)
ApplyLine == Directory \/ RegularFile \/ Recursive \/ MakeNodes

LEMMA LineApplied ==
  ASSUME UidInv, DevTypeOK, NEW l, l = entry, ApplyLine, ret' = "success"
  PROVE  Applied(l)
  BY DirectoryApplied, RegularFileApplied, RecursiveApplied, MakeNodesApplied DEF ApplyLine

LEMMA LineShape ==
  ASSUME ApplyLine
  PROVE  /\ Named({"d", "f", "F", "r"} \cup Nodes)
         /\ ret' \in {ret, "failure"}
<1>1. \A S, T : S \subseteq T /\ Named(S) => Named(T)
  BY DEF Named, At
<1>2. CASE Directory
  BY <1>1, <1>2 DEF Directory
<1>3. CASE RegularFile
  BY <1>1, <1>3 DEF RegularFile
<1>4. CASE Recursive
  BY <1>1, <1>4 DEF Recursive
<1>5. CASE MakeNodes
  BY <1>1, <1>5 DEF MakeNodes
<1> QED
  BY <1>2, <1>3, <1>4, <1>5 DEF ApplyLine

LEMMA UsersThen ==
  ASSUME pass = "done"
  PROVE  ~Next
  BY DEF Next, NextPass, NextLine, AddGroup, AddExtraGroup, ExtraGroupsAdded, AddUser, AddMember,
         AtLine, Passes

LEMMA UsersStay ==
  ASSUME DevTypeOK, script \in {"makedevs", "done"}, DevicesNext
  PROVE  UNCHANGED <<vars, devices>> /\ ~StartScript /\ ~Adding
<1>1. ~Next
  BY UsersThen DEF DevTypeOK
<1>2. ~StartScript /\ ~Adding
  BY <1>1 DEF StartScript, Adding
<1> QED
  BY <1>2 DEF DevicesNext, Comment, InvalidLine, SetXattr, UnknownOwner, Directory, RegularFile,
              Recursive, MakeNodes, Unsupported, EndOfTable, Named, GoOn, Die

(* The tree with which makedevs starts. *)
LEMMA HomePath ==
  ASSUME UidInv, NEW c \in chowned
  PROVE  c.user \in Users /\ Home[c.user] \in AllPaths
<1>1. c.user \in Users
  BY DEF UidInv, TypeOK
<1> QED
  BY <1>1, HomesAssumption, PathsOfTable

LEMMA Started ==
  ASSUME UidInv, HomesInv, DevTypeOK, StartScript
  PROVE  /\ IsFile(tree', AllPaths, Attribute)
         /\ \A p \in AllPaths : p \in DOMAIN tree' <=> Found(p)
         /\ \A p \in DOMAIN tree' : tree'[p].caps = {} /\ SetByScript(p)'
<1> DEFINE owners == {c.user : c \in chowned}
           made   == UNION {Parents(Home[u]) \cup {Home[u]} : u \in owners}
           found  == [p \in DOMAIN tree \cup made |->
                         IF p \in DOMAIN tree THEN [tree[p] EXCEPT !.uid = 0, !.gid = 0]
                         ELSE Attributes("dir", "755", 0, 0, 0, 0)]
           Owner(p) == CHOOSE v \in owners : IsPrefix(Home[v], p)
<1>1. /\ tree = Files /\ pass = "done" /\ UNCHANGED <<vars, devices>>
  BY DEF StartScript, DevTypeOK
<1>2. PICK to \in [owners -> {c.to : c \in chowned}] :
         /\ \A u \in owners : [user |-> u, to |-> to[u]] \in chowned
         /\ tree' = [p \in DOMAIN found |->
                        IF \E u \in owners : IsPrefix(Home[u], p)
                        THEN [found[p] EXCEPT !.uid = to[Owner(p)].uid, !.gid = to[Owner(p)].gid]
                        ELSE found[p]]
  BY DEF StartScript
<1>3. \A u \in owners : to[u] = passwd[u] /\ to[u].uid \in Nat /\ to[u].gid \in Nat
  <2> SUFFICES ASSUME NEW u \in owners
               PROVE  to[u] = passwd[u] /\ to[u].uid \in Nat /\ to[u].gid \in Nat
    OBVIOUS
  <2> DEFINE c == [user |-> u, to |-> to[u]]
  <2>1. c \in chowned
    BY <1>2
  <2>2. c.user \in DOMAIN passwd /\ passwd[c.user] = c.to
    BY <1>1, <2>1 DEF HomesInv
  <2>3. passwd[u] \in [uid : Nat, gid : Nat]
    BY <2>2 DEF UidInv, TypeOK, IsFile
  <2> QED
    BY <2>2, <2>3
<1>4. \A u \in owners : Home[u] \in AllPaths
  BY HomePath
<1>5. made \subseteq AllPaths
  BY <1>4, ParentsArePaths
<1>6. \A p \in AllPaths : p \in made <=> \E h \in HomeDirs : IsPrefix(p, h)
  <2>1. HomeDirs = {Home[u] : u \in owners}
    BY DEF HomeDirs
  <2>2. \A p \in AllPaths, u \in owners :
           IsPrefix(p, Home[u]) <=> p \in Parents(Home[u]) \cup {Home[u]}
    <3> SUFFICES ASSUME NEW p \in AllPaths, NEW u \in owners
                 PROVE  IsPrefix(p, Home[u]) <=> p \in Parents(Home[u]) \cup {Home[u]}
      OBVIOUS
    <3>1. Home[u] \in AllPaths
      BY <1>4
    <3> QED
      BY <3>1, PrefixOrParent
  <2>3. \A p : p \in made <=> \E u \in owners : p \in Parents(Home[u]) \cup {Home[u]}
    OBVIOUS
  <2> HIDE DEF owners, made
  <2> QED
    BY <2>1, <2>2, <2>3
<1>7. IsFile(tree, AllPaths, Attribute) /\ \A p \in DOMAIN tree : tree[p].caps = {}
  BY <1>1, FilesAssumption DEF DevTypeOK, StartScript
<1>8. /\ DOMAIN found = DOMAIN tree \cup made /\ DOMAIN tree' = DOMAIN found
      /\ \A p \in DOMAIN found : /\ found[p] \in Attribute /\ found[p].caps = {}
                                 /\ found[p].uid = 0 /\ found[p].gid = 0
  <2>1. \A a \in Attribute :
           LET b == [a EXCEPT !.uid = 0, !.gid = 0]
           IN  b \in Attribute /\ b.caps = a.caps /\ b.uid = 0 /\ b.gid = 0
    BY DEF Attribute
  <2> QED
    BY <1>2, <1>7, <2>1, MadeDirectory DEF IsFile
<1> HIDE DEF made, found
<1>9. \A p \in AllPaths : p \in DOMAIN tree' <=> Found(p)
  BY <1>1, <1>6, <1>8 DEF Found
<1>10. /\ chowned' = chowned /\ passwd' = passwd
       /\ \A p : Found(p)' <=> Found(p)
       /\ \A p : Homeowners(p)' = Homeowners(p)
  <2>1. chowned' = chowned /\ passwd' = passwd
    BY <1>1 DEF vars
  <2> QED
    BY <2>1 DEF Found, HomeDirs, Homeowners
<1>11. \A p : Homeowners(p) = {u \in owners : IsPrefix(Home[u], p)}
  BY DEF Homeowners
<1>12. ASSUME NEW p \in DOMAIN tree'
       PROVE  tree'[p] \in Attribute /\ tree'[p].caps = {} /\ SetByScript(p)'
  <2>1. p \in DOMAIN found /\ p \in AllPaths
    BY <1>5, <1>7, <1>8, <1>12 DEF IsFile
  <2>2. Found(p)'
    BY <1>9, <1>10, <1>12, <2>1
  <2>3. CASE \E u \in owners : IsPrefix(Home[u], p)
    <3> DEFINE u == Owner(p)
    <3>1. u \in owners /\ IsPrefix(Home[u], p)
      BY <2>3
    <3> HIDE DEF u
    <3>2. tree'[p] = [found[p] EXCEPT !.uid = to[u].uid, !.gid = to[u].gid]
      BY <1>2, <2>1, <2>3 DEF u
    <3>3. to[u] = passwd[u] /\ to[u].uid \in Nat /\ to[u].gid \in Nat
      BY <1>3, <3>1
    <3>4. found[p] \in Attribute /\ found[p].caps = {}
      BY <1>8, <2>1
    <3>5. /\ tree'[p] \in Attribute /\ tree'[p].caps = {}
          /\ tree'[p].uid = passwd[u].uid /\ tree'[p].gid = passwd[u].gid
      BY <3>2, <3>3, <3>4 DEF Attribute
    <3>6. u \in Homeowners(p)'
      BY <1>10, <1>11, <3>1
    <3>7. SetByScript(p)'
      BY <1>10, <2>2, <3>5, <3>6 DEF SetByScript, OwnerIs
    <3> QED
      BY <3>5, <3>7
  <2>4. CASE ~\E u \in owners : IsPrefix(Home[u], p)
    <3>1. tree'[p] = found[p]
      BY <1>2, <2>1, <2>4
    <3>2. tree'[p] \in Attribute /\ tree'[p].caps = {} /\ tree'[p].uid = 0 /\ tree'[p].gid = 0
      BY <1>8, <2>1, <3>1
    <3>3. Homeowners(p)' = {}
      BY <1>10, <1>11, <2>4
    <3>4. SetByScript(p)'
      BY <3>2, <3>3 DEF SetByScript, OwnerIs
    <3> QED
      BY <3>2, <3>4
  <2> QED
    BY <2>3, <2>4
<1>13. DOMAIN tree' \subseteq AllPaths
  BY <1>5, <1>7, <1>8 DEF IsFile
<1> QED
  BY <1>9, <1>12, <1>13 DEF IsFile

-----------------------------------------------------------------------------

(***************************************************************************)
(* The lines that makedevs has come past are carried out, and only those.  *)
(***************************************************************************)
Handled == {j \in Lines : j < next}
SoFar(p) == About(p) \cap Handled
CapsSoFar(p) ==
    {devices[j].cap : j \in {i \in Handled : devices[i].type = "xattr" /\ Follows(i, p)}}

ExistInv ==
    \A p \in AllPaths :
       p \in DOMAIN tree <=> Found(p) \/ \E j \in Handled : Creates(devices[j], p)
OwnerInv ==
    \A p \in DOMAIN tree :
       /\ \A j \in SoFar(p) : (\A m \in SoFar(p) : m <= j) => SetBy(devices[j], p)
       /\ SoFar(p) = {} => SetByScript(p)
NameInv == \A p \in AllPaths : Follows(next, p) <=> full_name = p
CapsInv == \A p \in AllPaths : CapsSoFar(p) = IF p \in DOMAIN tree THEN tree[p].caps ELSE {}
LinesInv == \A j \in Handled : CarriedOut(devices[j])

Applying == ExistInv /\ OwnerInv /\ NameInv /\ CapsInv /\ LinesInv
DevInv == DevTypeOK /\ (script \in {"makedevs", "done"} /\ ret = "success" => Applying)

(* What a line does to the tree but for capabilities. *)
Moved(l) ==
    /\ IsFile(tree', AllPaths, Attribute)
    /\ DOMAIN tree' = DOMAIN tree \cup {p \in AllPaths : Creates(l, p)}
    /\ \A p \in DOMAIN tree : /\ tree'[p].kind = tree[p].kind /\ tree'[p].major = tree[p].major
                              /\ tree'[p].minor = tree[p].minor
    /\ \A p \in DOMAIN tree' :
          /\ Covers(l, p)' => /\ tree'[p].uid = UidOf(l) /\ tree'[p].gid = GidOf(l)
                              /\ l.mode # Keep => tree'[p].mode = l.mode
          /\ ~Covers(l, p)' => IF p \in DOMAIN tree THEN KeepsOwner(p)
                               ELSE tree'[p].uid = 0 /\ tree'[p].gid = 0
    /\ CarriedOut(l)'

GoesOn(l) == UNCHANGED <<vars, devices>> /\ next \in Lines /\ l = devices[next] /\ next' = next + 1

LEMMA AppliedMoves ==
  ASSUME NEW l, Applied(l)
  PROVE  Moved(l)
  BY DEF Applied, Moved, KeepsFile

LEMMA HandledNext ==
  ASSUME UidInv, DevTypeOK, NEW l, GoesOn(l)
  PROVE  /\ Lines' = Lines /\ Handled' = Handled \cup {next} /\ next \notin Handled
         /\ \A j \in Handled : j <= next /\ ~(next <= j) /\ 1 .. j \subseteq Handled
         /\ \A j \in Handled' : devices'[j] = devices[j] /\ j \in Lines
         /\ Handled \subseteq 1 .. next /\ next \in 1 .. next
<1>1. devices' = devices /\ next' = next + 1 /\ next \in Nat /\ next \in Lines
  BY DEF GoesOn, DevTypeOK
<1>2. Lines' = Lines
  BY <1>1 DEF Lines
<1>3. Lines = 1 .. Len(devices) /\ Len(devices) \in Nat
  BY TableLines
<1>4. \A j \in Lines : j < next + 1 <=> j < next \/ j = next
  BY <1>1, <1>3
<1>5. Handled' = {j \in Lines : j < next + 1}
  BY <1>1, <1>2 DEF Handled
<1>6. Handled' = Handled \cup {next}
  BY <1>1, <1>4, <1>5 DEF Handled
<1>7. \A j \in Handled : j <= next /\ ~(next <= j) /\ 1 .. j \subseteq Handled
  BY <1>1, <1>3 DEF Handled
<1>8. Handled \subseteq 1 .. next /\ next \in 1 .. next
  BY <1>1, <1>3 DEF Handled
<1>9. next \notin Handled
  BY <1>1 DEF Handled
<1>10. \A j \in Handled' : devices'[j] = devices[j] /\ j \in Lines
  BY <1>1, <1>5
<1> QED
  BY <1>2, <1>6, <1>7, <1>8, <1>9, <1>10

LEMMA SameThen ==
  ASSUME UNCHANGED <<vars, devices>>
  PROVE  /\ \A l, p : Creates(l, p)' <=> Creates(l, p)
         /\ \A p : Found(p)' <=> Found(p)
         /\ \A p : Homeowners(p)' = Homeowners(p)
         /\ \A p : There(p)' = There(p)
         /\ \A l : UidOf(l)' = UidOf(l) /\ GidOf(l)' = GidOf(l)
         /\ \A i, p : Follows(i, p)' <=> Follows(i, p)
<1>1. devices' = devices /\ chowned' = chowned /\ passwd' = passwd /\ group' = group
  BY DEF vars
<1>2. \A l, p : Creates(l, p)' <=> Creates(l, p)
  BY DEF Creates, Covers, Nodes
<1>3. \A p : Found(p)' <=> Found(p)
  BY <1>1 DEF Found, HomeDirs
<1>4. \A p : Homeowners(p)' = Homeowners(p)
  BY <1>1 DEF Homeowners
<1>5. \A p : There(p)' = There(p)
  BY <1>1, <1>2, <1>3 DEF There, Lines
<1>6. \A l : UidOf(l)' = UidOf(l) /\ GidOf(l)' = GidOf(l)
  BY <1>1 DEF UidOf, GidOf
<1>7. \A i, p : Follows(i, p)' <=> Follows(i, p)
  BY <1>1 DEF Follows
<1> QED
  BY <1>2, <1>3, <1>4, <1>5, <1>6, <1>7

LEMMA ExistStep ==
  ASSUME UidInv, DevTypeOK, ExistInv, NEW l, GoesOn(l), Moved(l)
  PROVE  ExistInv'
<1>0. UNCHANGED <<vars, devices>> /\ l = devices[next]
  BY DEF GoesOn
<1>1. /\ Handled' = Handled \cup {next}
      /\ \A j \in Handled' : devices'[j] = devices[j]
  BY HandledNext
<1>2. \A k, p : Creates(k, p)' <=> Creates(k, p)
  BY <1>0, SameThen
<1>3. \A p : Found(p)' <=> Found(p)
  BY <1>0, SameThen
<1>4. \A p \in AllPaths : p \in DOMAIN tree' <=> p \in DOMAIN tree \/ Creates(l, p)
  BY DEF Moved
<1> SUFFICES ASSUME NEW p \in AllPaths
             PROVE  p \in DOMAIN tree' <=> Found(p)' \/ \E j \in Handled' : Creates(devices[j], p)'
  BY DEF ExistInv
<1>5. \A j \in Handled' : Creates(devices[j], p)' <=> Creates(devices[j], p)
  <2> SUFFICES ASSUME NEW j \in Handled'
               PROVE  Creates(devices[j], p)' <=> Creates(devices[j], p)
    OBVIOUS
  <2>1. devices'[j] = devices[j]
    BY <1>1
  <2>2. Creates(devices[j], p)' <=> Creates(devices'[j], p)
    BY DEF Creates, Covers, NodesOf, Numbered, Nodes
  <2> QED
    BY <2>1, <2>2
<1>6. p \in DOMAIN tree <=> Found(p) \/ \E j \in Handled : Creates(devices[j], p)
  BY DEF ExistInv
<1> QED
  BY <1>0, <1>1, <1>3, <1>4, <1>5, <1>6

LEMMA SoFarNext ==
  ASSUME UidInv, DevTypeOK, ExistInv, NEW l, GoesOn(l), Moved(l), NEW p \in DOMAIN tree'
  PROVE  /\ p \in AllPaths
         /\ p \in DOMAIN tree => \A j : j \in SoFar(p)' <=> j \in SoFar(p) \/ (j = next /\ Covers(l, p)')
         /\ p \notin DOMAIN tree => \A j : j \in SoFar(p)' <=> j = next /\ Covers(l, p)'
<1>0. UNCHANGED <<vars, devices>> /\ next \in Lines /\ l = devices[next] /\ devices' = devices
  BY DEF GoesOn
<1>1. /\ Handled' = Handled \cup {next} /\ Handled \subseteq 1 .. next /\ next \in 1 .. next
      /\ \A j \in Handled : 1 .. j \subseteq Handled
      /\ Lines' = Lines /\ Handled' \subseteq Lines
  BY HandledNext
<1>2. There(p)' = There(p)
  BY <1>0, SameThen
<1>3. p \in AllPaths /\ (p \in DOMAIN tree \/ Creates(l, p))
  BY DEF Moved, IsFile
<1>4. p \in DOMAIN tree <=> Found(p) \/ \E j \in Handled : Creates(devices[j], p)
  BY <1>3 DEF ExistInv
<1>5. next \in There(p)
  BY <1>0, <1>1, <1>3, <1>4 DEF There
<1>6. \A j : j \in SoFar(p)' <=> j \in There(p) /\ Covers(devices[j], p)' /\ j \in Handled'
  BY <1>2 DEF SoFar, About
<1>7. \A j : j \in SoFar(p) <=> j \in There(p) /\ Covers(devices[j], p) /\ j \in Handled
  BY DEF SoFar, About
<1>8. \A j : j = next => (Covers(devices[j], p)' <=> Covers(l, p)')
  <2> SUFFICES ASSUME NEW j, j = next
               PROVE  Covers(devices[j], p)' <=> Covers(l, p)'
    OBVIOUS
  <2>1. devices'[j] = l
    BY <1>0
  <2>2. Covers(devices[j], p)' <=> Covers(l, p)'
    BY <2>1 DEF Covers
  <2> QED
    BY <2>2
<1>9. ASSUME p \in DOMAIN tree
      PROVE  \A j : Covers(devices[j], p)' <=> Covers(devices[j], p)
  BY <1>0, <1>9 DEF Covers, Moved
<1>10. ASSUME p \notin DOMAIN tree
       PROVE  \A j \in Handled : j \notin There(p)
  BY <1>1, <1>4, <1>10 DEF There
<1> QED
  BY <1>1, <1>3, <1>5, <1>6, <1>7, <1>8, <1>9, <1>10

LEMMA OwnerStep ==
  ASSUME UidInv, DevTypeOK, ExistInv, OwnerInv, NEW l, GoesOn(l), Moved(l)
  PROVE  OwnerInv'
<1>0. /\ UNCHANGED <<vars, devices>> /\ next \in Lines /\ l = devices[next]
      /\ devices' = devices /\ passwd' = passwd
  BY DEF GoesOn, vars
<1> SUFFICES ASSUME NEW p \in DOMAIN tree'
             PROVE  /\ \A j \in SoFar(p)' : (\A m \in SoFar(p)' : m <= j) => SetBy(devices[j], p)'
                    /\ SoFar(p)' = {} => SetByScript(p)'
  BY DEF OwnerInv
<1>1. /\ p \in AllPaths
      /\ p \in DOMAIN tree => \A j : j \in SoFar(p)' <=> j \in SoFar(p) \/ (j = next /\ Covers(l, p)')
      /\ p \notin DOMAIN tree => \A j : j \in SoFar(p)' <=> j = next /\ Covers(l, p)'
  BY SoFarNext
<1>2. \A j \in SoFar(p) : j \in Handled /\ ~(next <= j)
  <2>1. \A j \in Handled : ~(next <= j)
    BY HandledNext
  <2> QED
    BY <2>1 DEF SoFar
<1>3. /\ \A k : UidOf(k)' = UidOf(k) /\ GidOf(k)' = GidOf(k)
      /\ Found(p)' <=> Found(p)
      /\ Homeowners(p)' = Homeowners(p)
  BY <1>0, SameThen
<1>4. CASE Covers(l, p)'
  <2>1. next \in SoFar(p)'
    BY <1>1, <1>4
  <2>2. SetBy(l, p)'
    <3>1. tree'[p].uid = UidOf(l) /\ tree'[p].gid = GidOf(l) /\ (l.mode # Keep => tree'[p].mode = l.mode)
      BY <1>4 DEF Moved
    <3> QED
      BY <1>3, <3>1 DEF SetBy, OwnerIs
  <2>3. ASSUME NEW j \in SoFar(p)', \A m \in SoFar(p)' : m <= j
        PROVE  SetBy(devices[j], p)'
    <3>1. next <= j
      BY <2>1, <2>3
    <3>2. j = next
      BY <1>1, <1>2, <2>3, <3>1
    <3>3. devices'[j] = l
      BY <1>0, <3>2
    <3> QED
      BY <2>2, <3>3 DEF SetBy, OwnerIs, UidOf, GidOf
  <2> QED
    BY <2>1, <2>3
<1>5. CASE ~Covers(l, p)' /\ p \in DOMAIN tree
  <2>1. tree'[p].uid = tree[p].uid /\ tree'[p].gid = tree[p].gid /\ tree'[p].mode = tree[p].mode
    BY <1>5 DEF Moved, KeepsOwner
  <2>2. SoFar(p)' = SoFar(p)
    BY <1>1, <1>5
  <2>3. /\ \A j \in SoFar(p) : (\A m \in SoFar(p) : m <= j) => SetBy(devices[j], p)
        /\ SoFar(p) = {} => SetByScript(p)
    BY <1>5 DEF OwnerInv
  <2>4. ASSUME NEW j, SetBy(devices[j], p)
        PROVE  SetBy(devices[j], p)'
    BY <1>0, <1>3, <2>1, <2>4 DEF SetBy, OwnerIs, UidOf, GidOf, vars
  <2>5. ASSUME SetByScript(p)
        PROVE  SetByScript(p)'
    BY <1>0, <1>3, <2>1, <2>5 DEF SetByScript, OwnerIs
  <2> QED
    BY <2>2, <2>3, <2>4, <2>5
<1>6. CASE ~Covers(l, p)' /\ p \notin DOMAIN tree
  <2>1. tree'[p].uid = 0 /\ tree'[p].gid = 0
    BY <1>6 DEF Moved
  <2>2. SoFar(p)' = {}
    BY <1>1, <1>6
  <2>3. ~Found(p)'
    BY <1>1, <1>3, <1>6 DEF ExistInv
  <2>4. SetByScript(p)'
    BY <2>1, <2>3 DEF SetByScript, OwnerIs
  <2> QED
    BY <2>2, <2>4
<1> QED
  BY <1>4, <1>5, <1>6

LEMMA LinesStep ==
  ASSUME UidInv, DevTypeOK, LinesInv, NEW l, GoesOn(l), Moved(l)
  PROVE  LinesInv'
<1>1. /\ Handled' = Handled \cup {next} /\ l = devices[next] /\ devices' = devices
  BY HandledNext DEF GoesOn
<1>2. ASSUME NEW j \in Handled
      PROVE  CarriedOut(devices[j])'
  <2>1. CarriedOut(devices[j])
    BY <1>2 DEF LinesInv
  <2> QED
    BY <1>1, <2>1 DEF CarriedOut, Moved, NodesOf, Numbered
<1>3. ASSUME NEW j, j = next
      PROVE  CarriedOut(devices[j])'
  <2>1. devices'[j] = l /\ CarriedOut(l)'
    BY <1>1, <1>3 DEF Moved
  <2> QED
    BY <2>1 DEF CarriedOut, NodesOf, Numbered
<1> QED
  BY <1>1, <1>2, <1>3 DEF LinesInv

LEMMA FollowsNext ==
  ASSUME UidInv, DevTypeOK, NEW l, GoesOn(l), NEW p
  PROVE  /\ l.type \in Naming => (Follows(next + 1, p) <=> l.name = p)
         /\ l.type \in {"xattr", "comment"} => (Follows(next + 1, p) <=> Follows(next, p))
<1>0. next \in Nat \ {0} /\ l = devices[next]
  BY DEF DevTypeOK, GoesOn
<1> DEFINE Above(k, i) ==
             /\ devices[k].type \in Naming /\ devices[k].name = p
             /\ \A m \in k + 1 .. i - 1 : devices[m].type \in {"xattr", "comment"}
<1>1. \A i : Follows(i, p) <=> \E k \in 1 .. i - 1 : Above(k, i)
  BY DEF Follows
<1>2. 1 .. (next + 1) - 1 = 1 .. next /\ next \in 1 .. next
  BY <1>0
<1>3. \A k \in 1 .. next : k # next => /\ k \in 1 .. next - 1 /\ next \in k + 1 .. (next + 1) - 1
                                       /\ k + 1 .. (next + 1) - 1 = (k + 1 .. next - 1) \cup {next}
  BY <1>0
<1>4. 1 .. next - 1 \subseteq 1 .. next /\ next \notin 1 .. next - 1
  BY <1>0
<1>5. next + 1 .. (next + 1) - 1 = {}
  BY <1>0
<1>6. \A k : k \in Naming => k \notin {"xattr", "comment"}
  BY DEF Naming, Nodes
<1>7. ASSUME l.type \in Naming
      PROVE  Follows(next + 1, p) <=> l.name = p
  <2>1. ASSUME Follows(next + 1, p) PROVE l.name = p
    <3>1. PICK k \in 1 .. next : Above(k, next + 1)
      BY <1>1, <1>2, <2>1
    <3>2. k = next
      BY <1>0, <1>3, <1>6, <1>7, <3>1
    <3> QED
      BY <1>0, <3>1, <3>2
  <2>2. ASSUME l.name = p PROVE Follows(next + 1, p)
    <3>1. Above(next, next + 1)
      BY <1>0, <1>5, <1>7, <2>2
    <3> HIDE DEF Above
    <3> QED
      BY <1>1, <1>2, <3>1
  <2> QED
    BY <2>1, <2>2
<1>8. ASSUME l.type \in {"xattr", "comment"}
      PROVE  Follows(next + 1, p) <=> Follows(next, p)
  <2>1. \A k \in 1 .. next - 1 : Above(k, next + 1) <=> Above(k, next)
    BY <1>0, <1>3, <1>4, <1>8
  <2>2. ~Above(next, next + 1)
    BY <1>0, <1>6, <1>8
  <2>3. \A k \in 1 .. next : k # next => k \in 1 .. next - 1
    BY <1>3
  <2> HIDE DEF Above
  <2> QED
    BY <1>1, <1>2, <1>4, <2>1, <2>2, <2>3
<1> QED
  BY <1>7, <1>8

LEMMA NameStep ==
  ASSUME UidInv, DevTypeOK, NameInv, NEW l, GoesOn(l),
         \/ l.type \in Naming /\ full_name' = l.name
         \/ l.type \in {"xattr", "comment"} /\ full_name' = full_name
  PROVE  NameInv'
<1> SUFFICES ASSUME NEW p \in AllPaths
             PROVE  Follows(next, p)' <=> full_name' = p
  BY DEF NameInv
<1>1. Follows(next, p)' <=> Follows(next + 1, p)
  <2>1. devices' = devices /\ next' = next + 1
    BY DEF GoesOn
  <2> QED
    BY <2>1 DEF Follows
<1>2. Follows(next, p) <=> full_name = p
  BY DEF NameInv
<1> QED
  BY <1>1, <1>2, FollowsNext

LEMMA CapsNext ==
  ASSUME UidInv, DevTypeOK, NEW l, GoesOn(l), NEW p
  PROVE  CapsSoFar(p)' = CapsSoFar(p) \cup {c \in {l.cap} : l.type = "xattr" /\ Follows(next, p)}
<1>1. Handled' = Handled \cup {next} /\ next \notin Handled
  BY HandledNext
<1>2. UNCHANGED <<vars, devices>> /\ l = devices[next] /\ devices' = devices
  BY DEF GoesOn
<1>3. \A i : Follows(i, p)' <=> Follows(i, p)
  BY <1>2, SameThen
<1>4. CapsSoFar(p)' = {devices[j].cap : j \in {i \in Handled \cup {next} :
                                                 devices[i].type = "xattr" /\ Follows(i, p)}}
  BY <1>1, <1>2, <1>3 DEF CapsSoFar
<1> QED
  BY <1>2, <1>4 DEF CapsSoFar

LEMMA CapsKept ==
  ASSUME UidInv, DevTypeOK, CapsInv, NEW l, GoesOn(l), l.type # "xattr",
         DOMAIN tree \subseteq DOMAIN tree',
         \A p \in DOMAIN tree : tree'[p].caps = tree[p].caps,
         \A p \in DOMAIN tree' \ DOMAIN tree : tree'[p].caps = {}
  PROVE  CapsInv'
<1> SUFFICES ASSUME NEW p \in AllPaths
             PROVE  CapsSoFar(p)' = IF p \in DOMAIN tree' THEN tree'[p].caps ELSE {}
  BY DEF CapsInv
<1>1. CapsSoFar(p)' = CapsSoFar(p)
  BY CapsNext
<1>2. CapsSoFar(p) = IF p \in DOMAIN tree THEN tree[p].caps ELSE {}
  BY DEF CapsInv
<1> QED
  BY <1>1, <1>2

LEMMA LineTypes ==
  ASSUME UidInv, DevTypeOK, NEW types, NEW l, l = entry, At(types)
  PROVE  l \in DeviceLine /\ l.type \in types /\ l = devices[next] /\ next \in Lines
<1>1. next \in Lines /\ l = devices[next] /\ l.type \in types
  BY DEF At, entry, Lines
<1> QED
  BY <1>1, TableLines

LEMMA XattrStep ==
  ASSUME UidInv, DevTypeOK, Applying, SetXattr, script' # "failed", IsFile(tree, AllPaths, Attribute)
  PROVE  IsFile(tree', AllPaths, Attribute) /\ Applying'
<1>1. PICK l : l = entry
  OBVIOUS
<1>2. /\ l \in DeviceLine /\ l.type = "xattr" /\ l = devices[next] /\ next \in Lines
  BY <1>1, LineTypes DEF SetXattr
<1>3. l.cap \in STRING
  <2>1. l \notin Entry /\ l \notin [type : {"invalid", "comment"}]
    BY <1>2 DEF Entry, Nodes
  <2>2. l \in [type : {"xattr"}, cap : STRING]
    BY <1>2, <2>1 DEF DeviceLine
  <2> QED
    BY <2>2
<1>4. /\ full_name \in DOMAIN tree
      /\ tree' = [tree EXCEPT ![full_name].caps = @ \cup {l.cap}]
      /\ next' = next + 1 /\ UNCHANGED <<vars, devices, script, full_name, ret>>
  BY <1>1 DEF SetXattr, GoOn, Die
<1>5. GoesOn(l)
  BY <1>2, <1>4 DEF GoesOn
<1>6. \A a \in Attribute :
         LET b == [a EXCEPT !.caps = @ \cup {l.cap}]
         IN  /\ b \in Attribute /\ b.kind = a.kind /\ b.mode = a.mode /\ b.uid = a.uid
             /\ b.gid = a.gid /\ b.major = a.major /\ b.minor = a.minor
             /\ b.caps = a.caps \cup {l.cap}
  BY <1>3 DEF Attribute
<1>7. \A p \in DOMAIN tree : tree[p] \in Attribute /\ p \in AllPaths
  BY DEF IsFile
<1>8. /\ DOMAIN tree' = DOMAIN tree
      /\ \A p \in DOMAIN tree : tree'[p] = IF p = full_name THEN [tree[p] EXCEPT !.caps = @ \cup {l.cap}]
                                           ELSE tree[p]
  BY <1>4
<1>9. \A p \in DOMAIN tree :
         /\ tree'[p] \in Attribute /\ KeepsOwner(p) /\ tree'[p].kind = tree[p].kind
         /\ tree'[p].major = tree[p].major /\ tree'[p].minor = tree[p].minor
         /\ tree'[p].caps = tree[p].caps \cup {c \in {l.cap} : p = full_name}
  <2> SUFFICES ASSUME NEW p \in DOMAIN tree
               PROVE  /\ tree'[p] \in Attribute /\ KeepsOwner(p) /\ tree'[p].kind = tree[p].kind
                      /\ tree'[p].major = tree[p].major /\ tree'[p].minor = tree[p].minor
                      /\ tree'[p].caps = tree[p].caps \cup {c \in {l.cap} : p = full_name}
    OBVIOUS
  <2>1. CASE p = full_name
    <3> DEFINE b == [tree[p] EXCEPT !.caps = @ \cup {l.cap}]
    <3>1. {c \in {l.cap} : p = full_name} = {l.cap}
      BY <2>1
    <3>2. /\ b \in Attribute /\ b.kind = tree[p].kind /\ b.mode = tree[p].mode
          /\ b.uid = tree[p].uid /\ b.gid = tree[p].gid /\ b.major = tree[p].major
          /\ b.minor = tree[p].minor /\ b.caps = tree[p].caps \cup {l.cap}
      BY <1>6, <1>7
    <3>3. tree'[p] = b
      BY <1>8, <2>1
    <3> HIDE DEF b
    <3> QED
      BY <3>1, <3>2, <3>3 DEF KeepsOwner
  <2>2. CASE p # full_name
    <3>1. tree'[p] = tree[p] /\ {c \in {l.cap} : p = full_name} = {}
      BY <1>8, <2>2
    <3> QED
      BY <1>7, <3>1 DEF KeepsOwner
  <2> QED
    BY <2>1, <2>2
<1>10. IsFile(tree', AllPaths, Attribute)
  BY <1>7, <1>8, <1>9 DEF IsFile
<1>11. \A p : ~Covers(l, p)' /\ ~Creates(l, p)
  BY <1>2 DEF Covers, Creates, Nodes
<1>12. CarriedOut(l)'
  BY <1>2 DEF CarriedOut, Nodes
<1>13. Moved(l)
  BY <1>8, <1>9, <1>10, <1>11, <1>12 DEF Moved
<1>14. CapsInv'
  <2> SUFFICES ASSUME NEW p \in AllPaths
               PROVE  CapsSoFar(p)' = IF p \in DOMAIN tree' THEN tree'[p].caps ELSE {}
    BY DEF CapsInv
  <2>1. CapsSoFar(p)' = CapsSoFar(p) \cup {c \in {l.cap} : l.type = "xattr" /\ Follows(next, p)}
    BY <1>5, CapsNext
  <2>2. CapsSoFar(p) = IF p \in DOMAIN tree THEN tree[p].caps ELSE {}
    BY DEF Applying, CapsInv
  <2>3. Follows(next, p) <=> full_name = p
    BY DEF Applying, NameInv
  <2>4. p \in DOMAIN tree => tree'[p].caps = tree[p].caps \cup {c \in {l.cap} : p = full_name}
    BY <1>9
  <2> QED
    BY <1>2, <1>4, <1>8, <2>1, <2>2, <2>3, <2>4
<1>15. NameInv'
  BY <1>2, <1>4, <1>5, NameStep DEF Applying
<1> QED
  BY <1>5, <1>10, <1>13, <1>14, <1>15, ExistStep, OwnerStep, LinesStep DEF Applying

-----------------------------------------------------------------------------

(***************************************************************************)
(* The actions.                                                            *)
(***************************************************************************)
LEMMA TableStays ==
  ASSUME Next
  PROVE  table' = table
  BY DEF Next, NextPass, NextLine, AddGroup, AddExtraGroup, ExtraGroupsAdded, AddUser, AddMember,
         Fail, add_one_group, add_user_to_group, input

LEMMA AddingStep ==
  ASSUME DevInv, Adding
  PROVE  DevInv'
<1>1. script \notin {"makedevs", "done"}
  BY UsersThen DEF DevInv, DevTypeOK, Adding
<1>2. table' = table /\ UNCHANGED devvars
  BY TableStays DEF Adding
<1> QED
  BY <1>1, <1>2 DEF DevInv, DevTypeOK, devvars, Lines

LEMMA StartStep ==
  ASSUME UidInv, HomesInv, DevInv, StartScript
  PROVE  DevInv'
<1>1. /\ DevTypeOK /\ pass = "done" /\ script = "written" /\ script' = "makedevs"
      /\ UNCHANGED <<vars, devices, next, full_name, ret>>
  BY DEF StartScript, DevInv
<1>2. /\ IsFile(tree', AllPaths, Attribute)
      /\ \A p \in AllPaths : p \in DOMAIN tree' <=> Found(p)
      /\ \A p \in DOMAIN tree' : tree'[p].caps = {} /\ SetByScript(p)'
  BY <1>1, Started
<1>3. next' = 1 /\ full_name' = NoPath
  BY <1>1 DEF DevTypeOK
<1>4. DevTypeOK'
  BY <1>1, <1>2 DEF DevTypeOK, vars
<1>5. Handled' = {}
  <2>1. Lines = 1 .. Len(devices) /\ Len(devices) \in Nat
    BY <1>1, TableLines
  <2>2. \A j \in Lines : ~(j < 1)
    BY <2>1
  <2>3. Lines' = Lines
    BY <1>1 DEF Lines
  <2> QED
    BY <1>3, <2>2, <2>3 DEF Handled
<1>6. \A p : Found(p)' <=> Found(p)
  BY <1>1, SameThen
<1>7. ExistInv'
  BY <1>2, <1>5, <1>6 DEF ExistInv
<1>8. OwnerInv'
  BY <1>2, <1>5 DEF OwnerInv, SoFar
<1>9. NameInv'
  <2>1. \A p : ~Follows(next, p)'
    <3>1. next' - 1 = 0 /\ 1 .. 0 = {}
      BY <1>3
    <3> QED
      BY <3>1 DEF Follows
  <2> QED
    BY <1>3, <2>1 DEF NameInv, AllPaths
<1>10. CapsInv'
  BY <1>2, <1>5 DEF CapsInv, CapsSoFar
<1>11. LinesInv'
  BY <1>5 DEF LinesInv
<1> QED
  BY <1>4, <1>7, <1>8, <1>9, <1>10, <1>11 DEF DevInv, Applying

(* Makedevs fails now. *)
LEMMA DieStep ==
  ASSUME DevInv, Die
  PROVE  DevInv'
  BY DEF DevInv, DevTypeOK, Die, vars, Lines

(* It is to fail in the end. *)
LEMMA BadLineStep ==
  ASSUME DevInv, script = "makedevs", GoOn, ret' = "failure", full_name' \in AllPaths \cup {NoPath}
  PROVE  DevInv'
<1>1. DevTypeOK /\ next + 1 \in Nat \ {0}
  BY DEF DevInv, DevTypeOK
<1>2. /\ table' = table /\ pass' = pass /\ devices' = devices /\ script' = script
      /\ next' = next + 1
  BY DEF GoOn, vars
<1>3. DevTypeOK'
  BY <1>1, <1>2 DEF DevTypeOK
<1> QED
  BY <1>3 DEF DevInv

LEMMA OnwardType ==
  ASSUME DevTypeOK, script = "makedevs", NEW l, GoesOn(l), script' = script,
         ret' = "success", IsFile(tree', AllPaths, Attribute), full_name' \in AllPaths \cup {NoPath}
  PROVE  DevTypeOK'
<1>1. next + 1 \in Nat \ {0}
  BY DEF DevTypeOK
<1> QED
  BY <1>1 DEF DevTypeOK, GoesOn, vars

LEMMA CommentStep ==
  ASSUME UidInv, DevInv, Comment
  PROVE  DevInv'
<1>1. /\ DevTypeOK /\ script = "makedevs" /\ script' = script /\ At({"comment"})
      /\ UNCHANGED <<vars, devices, tree, full_name, ret>> /\ next' = next + 1
  BY DEF DevInv, Comment, GoOn, At
<1>2. PICK l : l = entry
  OBVIOUS
<1>3. l.type = "comment" /\ l = devices[next] /\ next \in Lines
  BY <1>1, <1>2, LineTypes
<1>4. CASE ret = "failure"
  <2>1. GoOn /\ ret' = "failure" /\ full_name' \in AllPaths \cup {NoPath}
    BY <1>1, <1>4 DEF GoOn, DevTypeOK
  <2> QED
    BY <1>1, <2>1, BadLineStep
<1>5. CASE ret = "success"
  <2>1. GoesOn(l)
    BY <1>1, <1>3 DEF GoesOn
  <2>2. Applying /\ IsFile(tree, AllPaths, Attribute)
    BY <1>1, <1>5 DEF DevInv, DevTypeOK
  <2>3. \A p : ~Covers(l, p)' /\ ~Creates(l, p)
    BY <1>3 DEF Covers, Creates, Nodes
  <2>4. CarriedOut(l)'
    BY <1>3 DEF CarriedOut, Nodes
  <2>5. Moved(l)
    BY <1>1, <2>2, <2>3, <2>4 DEF Moved, KeepsOwner
  <2>6. NameInv'
    BY <1>1, <1>3, <2>1, <2>2, NameStep DEF Applying
  <2>7. CapsInv'
    BY <1>1, <1>3, <2>1, <2>2, CapsKept DEF Applying
  <2>8. Applying'
    BY <1>1, <2>1, <2>2, <2>5, <2>6, <2>7, ExistStep, OwnerStep, LinesStep DEF Applying
  <2>9. DevTypeOK'
    BY <1>1, <1>5, <2>1, <2>2, OnwardType DEF DevTypeOK
  <2> QED
    BY <2>8, <2>9 DEF DevInv
<1> QED
  BY <1>1, <1>4, <1>5 DEF DevTypeOK

LEMMA LineStep ==
  ASSUME UidInv, DevInv, ApplyLine
  PROVE  DevInv'
<1>1. /\ DevTypeOK /\ Named({"d", "f", "F", "r"} \cup Nodes) /\ ret' \in {ret, "failure"}
  BY LineShape DEF DevInv
<1>2. PICK l : l = entry
  OBVIOUS
<1>3. /\ l.type \in {"d", "f", "F", "r"} \cup Nodes /\ l \in DeviceLine
      /\ l = devices[next] /\ next \in Lines
  BY <1>1, <1>2, LineTypes DEF Named
<1>4. /\ script = "makedevs" /\ script' = script /\ full_name' = l.name
      /\ UNCHANGED <<vars, devices>> /\ next' = next + 1
  BY <1>1, <1>2 DEF Named, GoOn, At
<1>5. l.name \in AllPaths
  BY <1>3, EntryType DEF FileTypes
<1>6. CASE ret' = "failure"
  <2>1. GoOn
    BY <1>1 DEF Named
  <2> QED
    BY <1>4, <1>5, <1>6, <2>1, BadLineStep
<1>7. CASE ret' = "success"
  <2>1. GoesOn(l) /\ ret = "success"
    BY <1>1, <1>3, <1>4, <1>7 DEF GoesOn
  <2>2. Applied(l)
    BY <1>1, <1>2, <1>7, LineApplied
  <2>3. Moved(l)
    BY <2>2, AppliedMoves
  <2>4. Applying
    BY <1>4, <2>1 DEF DevInv
  <2>5. NameInv'
    BY <1>1, <1>3, <1>4, <2>1, <2>4, NameStep DEF Applying, Naming
  <2>6. CapsInv'
    <3>1. /\ DOMAIN tree \subseteq DOMAIN tree'
          /\ \A p \in DOMAIN tree : tree'[p].caps = tree[p].caps
          /\ \A p \in DOMAIN tree' \ DOMAIN tree : tree'[p].caps = {}
      BY <2>2 DEF Applied, KeepsFile
    <3>2. l.type # "xattr"
      BY <1>3 DEF Nodes
    <3> QED
      BY <1>1, <2>1, <2>4, <3>1, <3>2, CapsKept DEF Applying
  <2>7. Applying'
    BY <1>1, <2>1, <2>3, <2>4, <2>5, <2>6, ExistStep, OwnerStep, LinesStep DEF Applying
  <2>8. DevTypeOK'
    BY <1>1, <1>4, <1>5, <1>7, <2>1, <2>3, OnwardType DEF Moved
  <2> QED
    BY <2>7, <2>8 DEF DevInv
<1> QED
  BY <1>1, <1>6, <1>7 DEF DevTypeOK

LEMMA ApplyingStays ==
  ASSUME UNCHANGED <<vars, devices, tree, next, full_name, ret>>
  PROVE  Applying <=> Applying'
  BY DEF Applying, ExistInv, OwnerInv, NameInv, CapsInv, LinesInv, Handled, Lines, SoFar,
         CapsSoFar, About, There, Found, HomeDirs, Homeowners, SetBy, SetByScript, OwnerIs,
         UidOf, GidOf, Follows, Creates, Covers, CarriedOut, NodesOf, Numbered, vars

LEMMA EndStep ==
  ASSUME UidInv, DevInv, EndOfTable
  PROVE  DevInv'
<1>1. /\ DevTypeOK /\ script = "makedevs" /\ next \notin Lines
      /\ script' = IF ret = "success" THEN "done" ELSE "failed"
      /\ UNCHANGED <<vars, devices, tree, next, full_name, ret>>
  BY DEF DevInv, EndOfTable, Lines
<1>2. DevTypeOK'
  BY <1>1 DEF DevTypeOK, Lines, vars
<1>3. CASE ret = "failure"
  BY <1>1, <1>2, <1>3 DEF DevInv
<1>4. CASE ret = "success"
  <2>1. Applying
    BY <1>1, <1>4 DEF DevInv
  <2>2. Applying <=> Applying'
    BY <1>1, ApplyingStays
  <2> QED
    BY <1>2, <2>1, <2>2 DEF DevInv
<1> QED
  BY <1>1, <1>3, <1>4 DEF DevTypeOK

LEMMA SetXattrStep ==
  ASSUME UidInv, DevInv, SetXattr
  PROVE  DevInv'
<1>1. CASE Die
  BY <1>1, DieStep
<1>2. CASE ~Die
  <2>1. /\ DevTypeOK /\ script = "makedevs" /\ At({"xattr"}) /\ GoOn
        /\ UNCHANGED <<full_name, ret>>
    BY <1>2 DEF SetXattr, DevInv, At
  <2>2. script' = script /\ script' # "failed" /\ full_name' \in AllPaths \cup {NoPath}
    BY <2>1 DEF GoOn, DevTypeOK
  <2>3. CASE ret = "failure"
    BY <2>1, <2>2, <2>3, BadLineStep
  <2>4. CASE ret = "success"
    <3>1. Applying /\ IsFile(tree, AllPaths, Attribute)
      BY <2>1, <2>4 DEF DevInv, DevTypeOK
    <3>2. IsFile(tree', AllPaths, Attribute) /\ Applying'
      BY <2>1, <2>2, <3>1, XattrStep
    <3>3. PICK l : l = entry
      OBVIOUS
    <3>4. l = devices[next] /\ next \in Lines
      BY <2>1, <3>3, LineTypes
    <3>5. GoesOn(l)
      BY <2>1, <3>4 DEF GoesOn, GoOn
    <3>6. DevTypeOK'
      BY <2>1, <2>2, <2>4, <3>2, <3>5, OnwardType
    <3> QED
      BY <3>2, <3>6 DEF DevInv
  <2> QED
    BY <2>1, <2>3, <2>4 DEF DevTypeOK
<1> QED
  BY <1>1, <1>2

LEMMA UnsupportedStep ==
  ASSUME UidInv, DevInv, InvalidLine \/ Unsupported
  PROVE  DevInv'
<1>1. CASE InvalidLine
  <2>1. script = "makedevs" /\ GoOn /\ ret' = "failure" /\ full_name' = full_name
    BY <1>1 DEF InvalidLine, At
  <2>2. full_name' \in AllPaths \cup {NoPath}
    BY <2>1 DEF DevInv, DevTypeOK
  <2> QED
    BY <2>1, <2>2, BadLineStep
<1>2. CASE Unsupported
  <2>1. PICK l : l = entry
    OBVIOUS
  <2>2. /\ script = "makedevs" /\ GoOn /\ ret' = "failure" /\ full_name' = l.name
        /\ At({"other"}) /\ DevTypeOK
    BY <1>2, <2>1 DEF Unsupported, Named, At, DevInv
  <2>3. l \in DeviceLine /\ l.type = "other"
    BY <2>1, <2>2, LineTypes
  <2>4. l.name \in AllPaths
    BY <2>3, EntryType DEF FileTypes
  <2> QED
    BY <2>2, <2>4, BadLineStep
<1> QED
  BY <1>1, <1>2

LEMMA DevStep == UidInv /\ HomesInv /\ DevInv /\ [DevicesNext]_allvars => DevInv'
<1> SUFFICES ASSUME UidInv, HomesInv, DevInv, [DevicesNext]_allvars
             PROVE  DevInv'
  OBVIOUS
<1>1. CASE Adding
  BY <1>1, AddingStep
<1>2. CASE StartScript
  BY <1>2, StartStep
<1>3. CASE Comment
  BY <1>3, CommentStep
<1>4. CASE InvalidLine \/ Unsupported
  BY <1>4, UnsupportedStep
<1>5. CASE SetXattr
  BY <1>5, SetXattrStep
<1>6. CASE UnknownOwner
  BY <1>6, DieStep DEF UnknownOwner
<1>7. CASE ApplyLine
  BY <1>7, LineStep
<1>8. CASE EndOfTable
  BY <1>8, EndStep
<1>9. CASE UNCHANGED allvars
  <2>1. UNCHANGED <<vars, devices, tree, next, full_name, ret>> /\ script' = script
    BY <1>9 DEF allvars, devvars
  <2>2. DevTypeOK'
    BY <2>1 DEF DevInv, DevTypeOK, Lines, vars
  <2>3. Applying <=> Applying'
    BY <2>1, ApplyingStays
  <2> QED
    BY <2>1, <2>2, <2>3 DEF DevInv
<1> QED
  BY <1>1, <1>2, <1>3, <1>4, <1>5, <1>6, <1>7, <1>8, <1>9 DEF DevicesNext, ApplyLine

LEMMA DevInit == DevicesInit => DevInv
<1> SUFFICES ASSUME DevicesInit PROVE DevInv
  OBVIOUS
<1>1. \A p \in DOMAIN Files : p \in AllPaths /\ Files[p] \in Attribute
  BY FilesAssumption, PathsOfTable DEF IsFile
<1>2. IsFile(tree, AllPaths, Attribute)
  BY <1>1 DEF DevicesInit, IsFile
<1> QED
  BY <1>2 DEF DevicesInit, DevInv, DevTypeOK

(* Once all lines are handled, those that are handled are all. *)
LEMMA DevEnd == UidInv /\ DevInv => TablesApplied
<1> SUFFICES ASSUME UidInv, DevInv, script = "done"
             PROVE  /\ \A p \in DOMAIN tree :
                          /\ \A j \in About(p) : (\A m \in About(p) : m <= j) => SetBy(devices[j], p)
                          /\ About(p) = {} => SetByScript(p)
                    /\ \A p \in DOMAIN tree : tree[p].caps = CapsOf(p)
                    /\ \A j \in Lines : CarriedOut(devices[j])
  BY DEF TablesApplied
<1>1. DevTypeOK /\ ret = "success" /\ Applying /\ next \notin Lines /\ next \in Nat \ {0}
  BY DEF DevInv, DevTypeOK
<1>2. Lines = 1 .. Len(devices) /\ Len(devices) \in Nat
  BY <1>1, TableLines
<1>3. Handled = Lines
  BY <1>1, <1>2 DEF Handled
<1>4. \A p : SoFar(p) = About(p)
  BY <1>3 DEF SoFar, About, There
<1>5. \A p : CapsSoFar(p) = CapsOf(p)
  BY <1>3 DEF CapsSoFar, CapsOf
<1>6. DOMAIN tree \subseteq AllPaths
  BY <1>1 DEF DevTypeOK, IsFile
<1>7. \A p \in DOMAIN tree : tree[p].caps = CapsOf(p)
  BY <1>1, <1>5, <1>6 DEF Applying, CapsInv
<1> QED
  BY <1>1, <1>3, <1>4, <1>7 DEF Applying, OwnerInv, LinesInv

(* An image is only made of a tree to which the tables were applied.       *)
THEOREM TablesAreApplied == DevicesSpec => []TablesApplied
<1>1. DevicesInit => UidInv /\ HomesInv /\ DevInv
  <2>1. Init => HomesInv
    BY DEF Init, HomesInv
  <2> QED
    BY <2>1, UidInit, DevInit DEF DevicesInit
<1>2. [DevicesNext]_allvars => [Next]_vars
  BY DEF DevicesNext, allvars, Adding, StartScript, Comment, InvalidLine, SetXattr, UnknownOwner,
         Directory, RegularFile, Recursive, MakeNodes, Unsupported, EndOfTable, Named, GoOn, Die
<1>3. UidInv /\ HomesInv /\ DevInv /\ [DevicesNext]_allvars => (UidInv /\ HomesInv /\ DevInv)'
  BY <1>2, UidStep, HomesStep, DevStep
<1> QED
  BY <1>1, <1>3, DevEnd, PTL DEF DevicesSpec
=============================================================================
