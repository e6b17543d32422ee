--------------------------- MODULE MkUsersProofs ---------------------------
(***************************************************************************)
(* Theorems about MkUsers: its types, that no two users share a uid, and   *)
(* that homes belong to the ids their users have, for all tables, skeletons *)
(* and ranges.                                                             *)
(***************************************************************************)
EXTENDS MkUsers, TLAPS, WellFoundedInduction

LEMMA LineType == TypeOK /\ AtLine => line \in Line
  BY TablesAssumption DEF TypeOK, AtLine, line

(* Lowest finds a member of the set, or nothing. *)
LEMMA LowestIn ==
  ASSUME NEW S
  PROVE  Lowest(S) = NoId \/ Lowest(S) \in S
  BY DEF Lowest

LEMMA PutFile ==
  ASSUME NEW f, NEW N, NEW V, IsFile(f, N, V), NEW n \in N, NEW v \in V
  PROVE  IsFile(Put(f, n, v), N, V)
  BY DEF IsFile, Put

LEMMA GenerateGid ==
  ASSUME TypeOK, NEW g, generate_gid(g) # NoId
  PROVE  generate_gid(g) \in Nat
<1>1. CASE g \in DOMAIN group
  BY <1>1 DEF generate_gid, TypeOK, IsFile
<1>2. CASE g \notin DOMAIN group
  <2> DEFINE S == {i \in MIN_GID .. MAX_GID : get_group(i) = {}}
  <2>1. generate_gid(g) \in S
    BY <1>2, LowestIn DEF generate_gid
  <2> QED
    BY <2>1, RangesAssumption
<1> QED
  BY <1>1, <1>2

LEMMA GenerateUid ==
  ASSUME TypeOK, NEW u, generate_uid(u) # NoId
  PROVE  /\ generate_uid(u) \in Nat
         /\ u \in DOMAIN passwd => generate_uid(u) = passwd[u].uid
         /\ u \notin DOMAIN passwd => get_username(generate_uid(u)) = {}
<1>1. CASE u \in DOMAIN passwd
  BY <1>1 DEF generate_uid, TypeOK, IsFile
<1>2. CASE u \notin DOMAIN passwd
  <2> DEFINE S == {i \in MIN_UID .. MAX_UID : get_username(i) = {}}
  <2>1. generate_uid(u) \in S
    BY <1>2, LowestIn DEF generate_uid
  <2> QED
    BY <1>2, <2>1, RangesAssumption
<1> QED
  BY <1>1, <1>2

(* The uid a user gets is nobody else's. *)
LEMMA UidFree ==
  ASSUME TypeOK, UidsUnique, AtLine, pass \in UserPasses, Concerns(pass, line),
         ~Invalid(line), Uid(line) # NoId
  PROVE  /\ Uid(line) \in Nat
         /\ \A v \in DOMAIN passwd : passwd[v].uid = Uid(line) => v = line.user
         /\ line.user \in DOMAIN passwd => Uid(line) = passwd[line.user].uid
<1> line \in Line
  BY LineType
<1>1. CASE line.uid = Automatic
  <2>1. Uid(line) = generate_uid(line.user)
    BY <1>1 DEF Uid
  <2>2. \A v \in DOMAIN passwd :
            passwd[v].uid = Uid(line) => v \in get_username(generate_uid(line.user))
    BY <2>1 DEF get_username
  <2> QED
    BY <2>1, <2>2, GenerateUid DEF UidsUnique
<1>2. CASE line.uid # Automatic
  <2>1. Uid(line) = line.uid
    BY <1>2 DEF Uid
  <2>2. line.uid \in Nat
    <3>1. line.uid \in Int
      BY DEF Line
    <3>2. line.uid >= 0
      BY <1>2 DEF Concerns, UserPasses
    <3> QED
      BY <3>1, <3>2
  <2>3. get_username(line.uid) \in {{}, {line.user}}
    BY <1>2 DEF Invalid
  <2>4. line.user \in DOMAIN passwd => passwd[line.user].uid = line.uid
    BY <1>2 DEF Invalid
  <2> QED
    BY <2>1, <2>2, <2>3, <2>4 DEF get_username
<1> QED
  BY <1>1, <1>2

-----------------------------------------------------------------------------

(***************************************************************************)
(* Types and uids.  UidsUnique is inductive on top of the types: a user is *)
(* added with its own uid or with one nobody has.  The gid a user gets is a *)
(* number because the group of a line is there when its user is added: that *)
(* is what the order of the passes is for.                                 *)
(***************************************************************************)
Placed(i) ==
    \/ table[i].gid >= 0 /\ (pass = "fixed_groups" => i < at)
    \/ /\ table[i].gid = Automatic /\ pass # "fixed_groups"
       /\ pass = "auto_groups" => i < at

MainGroups ==
    pass # "failed" =>
        \A i \in DOMAIN table : Placed(i) => table[i].group \in DOMAIN group

UidInv == TypeOK /\ UidsUnique /\ MainGroups

LEMMA UidInit == Init => UidInv
<1> SUFFICES ASSUME Init PROVE UidInv
  OBVIOUS
<1>1. /\ IsFile(skeleton.passwd, Users, [uid : Nat, gid : Nat])
      /\ IsFile(skeleton.group, Groups, [gid : Nat, members : SUBSET Users])
      /\ skeleton.hasGshadow \in BOOLEAN
      /\ IsFile(skeleton.gshadow, Groups, SUBSET Users)
      /\ \A u, v \in DOMAIN skeleton.passwd :
            skeleton.passwd[u].uid = skeleton.passwd[v].uid => u = v
  BY SkeletonsAssumption DEF Init
<1>2. TypeOK
  BY <1>1 DEF Init, TypeOK, Passes
<1>3. table \in Seq(Line) /\ at = 1 /\ pass = "fixed_groups"
  BY TablesAssumption DEF Init
<1>4. MainGroups
  BY <1>3 DEF MainGroups, Placed
<1> QED
  BY <1>1, <1>2, <1>4 DEF Init, UidInv, UidsUnique

(* Adding a group. *)
LEMMA GroupAdded ==
  ASSUME TypeOK, NEW g \in Groups, NEW gid \in Int, gid = Automatic \/ gid >= 0,
         gid = Automatic => generate_gid(g) # NoId, add_one_group(g, gid)
  PROVE  /\ IsFile(group', Groups, [gid : Nat, members : SUBSET Users])
         /\ IsFile(gshadow', Groups, SUBSET Users)
         /\ DOMAIN group' = DOMAIN group \cup {g}
<1> DEFINE new == IF gid = Automatic THEN generate_gid(g) ELSE gid
           members == IF g \in DOMAIN group THEN group[g].members ELSE {}
<1>1. new \in Nat
  BY GenerateGid
<1>2. members \in SUBSET Users
  BY DEF TypeOK, IsFile
<1>3. group' = Put(group, g, [gid |-> new, members |-> members])
  BY DEF add_one_group
<1>4. [gid |-> new, members |-> members] \in [gid : Nat, members : SUBSET Users]
  BY <1>1, <1>2
<1>5. IsFile(group', Groups, [gid : Nat, members : SUBSET Users])
  BY <1>3, <1>4, PutFile DEF TypeOK
<1>6. gshadow' \in {Put(gshadow, g, {}), gshadow} /\ {} \in SUBSET Users
  BY DEF add_one_group
<1>7. IsFile(gshadow', Groups, SUBSET Users)
  BY <1>6, PutFile DEF TypeOK
<1>8. DOMAIN group' = DOMAIN group \cup {g}
  BY <1>3 DEF Put
<1> QED
  BY <1>5, <1>7, <1>8

(* A step that fails keeps everything but the pass and, perhaps, one user. *)
LEMMA FailStep ==
  ASSUME UidInv, Fail,
         \/ UNCHANGED passwd
         \/ passwd' = [u \in DOMAIN passwd \ {line.user} |-> passwd[u]]
  PROVE  UidInv'
<1>1. IsFile(passwd', Users, [uid : Nat, gid : Nat])
  BY DEF UidInv, TypeOK, IsFile
<1>2. UidsUnique'
  BY DEF UidInv, UidsUnique
<1>3. TypeOK'
  BY <1>1 DEF UidInv, TypeOK, Fail, input
<1> QED
  BY <1>2, <1>3 DEF UidInv, MainGroups, Fail

(* The groups a user can be added to. *)
LEMMA GroupThere ==
  ASSUME UidInv, AtLine, pass \in UserPasses, ~Invalid(line)
  PROVE  /\ line.group \in DOMAIN group
         /\ group[line.group].gid \in Nat
<1> line \in Line
  BY LineType DEF UidInv
<1>1. line.gid \in Int
  BY DEF Line
<1>2. ~(line.gid < Automatic)
  BY DEF Invalid
<1>3. line.gid >= 0 \/ line.gid = Automatic
  BY <1>1, <1>2 DEF Automatic
<1>4. at \in DOMAIN table
  BY TablesAssumption DEF UidInv, TypeOK, AtLine
<1>5. Placed(at)
  BY <1>3 DEF Placed, line, UserPasses
<1>6. line.group \in DOMAIN group
  BY <1>4, <1>5 DEF UidInv, MainGroups, UserPasses, line
<1> QED
  BY <1>6 DEF UidInv, TypeOK, IsFile

(* The entry a user gets. *)
NewEntry(l) == [uid |-> Uid(l), gid |-> group[l.group].gid]

LEMMA UserAdded ==
  ASSUME UidInv, AtLine, pass \in UserPasses, Concerns(pass, line),
         ~Invalid(line), Uid(line) # NoId, passwd' = Put(passwd, line.user, NewEntry(line))
  PROVE  /\ NewEntry(line) \in [uid : Nat, gid : Nat]
         /\ line.user \in Users
         /\ IsFile(passwd', Users, [uid : Nat, gid : Nat])
         /\ UidsUnique'
<1> line \in Line
  BY LineType DEF UidInv
<1>1. Uid(line) \in Nat
  BY UidFree DEF UidInv
<1>2. NewEntry(line) \in [uid : Nat, gid : Nat]
  BY <1>1, GroupThere DEF NewEntry
<1>3. line.user \in Users
  <2>1. line.user \in Users \cup {NoUser}
    BY DEF Line
  <2>2. line.user # NoUser
    BY DEF Concerns, UserPasses
  <2> QED
    BY <2>1, <2>2
<1>4. IsFile(passwd', Users, [uid : Nat, gid : Nat])
  BY <1>2, <1>3, PutFile DEF UidInv, TypeOK
<1>5. UidsUnique'
  <2> SUFFICES ASSUME NEW u \in DOMAIN passwd', NEW v \in DOMAIN passwd',
                      passwd'[u].uid = passwd'[v].uid
               PROVE  u = v
    BY DEF UidsUnique
  <2>1. \A w \in DOMAIN passwd' :
            \/ w = line.user /\ passwd'[w].uid = Uid(line)
            \/ w # line.user /\ w \in DOMAIN passwd /\ passwd'[w] = passwd[w]
    BY DEF Put, NewEntry
  <2>2. \A w \in DOMAIN passwd : passwd[w].uid = Uid(line) => w = line.user
    BY UidFree DEF UidInv
  <2> QED
    BY <2>1, <2>2 DEF UidInv, UidsUnique
<1> QED
  BY <1>2, <1>3, <1>4, <1>5

LEMMA UidStep == UidInv /\ [Next]_vars => UidInv'
<1> SUFFICES ASSUME UidInv, [Next]_vars PROVE UidInv'
  OBVIOUS
<1> TypeOK /\ UidsUnique /\ MainGroups
  BY DEF UidInv
<1>t. table \in Seq(Line) /\ Len(table) \in Nat /\ DOMAIN table = 1 .. Len(table)
  BY TablesAssumption DEF TypeOK
<1>1. CASE NextPass
  <2>1. pass' \in Passes \cup {"done", "failed"}
    BY <1>1 DEF NextPass, Following, Passes
  <2>2. TypeOK' /\ UidsUnique'
    BY <1>1, <2>1 DEF NextPass, TypeOK, UidsUnique, input
  <2>3. \A i \in DOMAIN table : i < at
    <3>1. at \in Nat /\ at > Len(table)
      BY <1>1 DEF NextPass, TypeOK
    <3> QED
      BY <3>1, <1>t
  <2>4. /\ pass # "failed" /\ pass' # "fixed_groups"
        /\ pass = "fixed_groups" => pass' = "auto_groups"
        /\ table' = table /\ at' = 1 /\ group' = group
    BY <1>1 DEF NextPass, Following, Passes, input
  <2>5. \A i \in DOMAIN table : Placed(i)' => Placed(i)
    <3> SUFFICES ASSUME NEW i \in DOMAIN table, Placed(i)' PROVE Placed(i)
      OBVIOUS
    <3>1. i \in Nat /\ 1 <= i /\ i < at
      BY <1>t, <2>3
    <3> QED
      BY <2>4, <3>1 DEF Placed
  <2>6. MainGroups'
    BY <2>4, <2>5 DEF MainGroups
  <2> QED
    BY <2>2, <2>6 DEF UidInv
<1>2. CASE NextLine
  <2>1. at' = at + 1 /\ at \in Nat /\ pass' = pass /\ table' = table /\ group' = group
    BY <1>2 DEF NextLine, TypeOK, input
  <2>2. TypeOK' /\ UidsUnique'
    BY <1>2, <2>1 DEF NextLine, TypeOK, UidsUnique, input
  <2>3. \A i \in DOMAIN table : Placed(i)' => Placed(i)
    <3> SUFFICES ASSUME NEW i \in DOMAIN table, Placed(i)', ~Placed(i) PROVE FALSE
      OBVIOUS
    <3>1. i \in Nat
      BY <1>t
    <3>2. i = at /\ pass \in GroupPasses /\ Concerns(pass, line)
      BY <2>1, <3>1 DEF Placed, Concerns, line, GroupPasses
    <3> QED
      BY <1>2, <3>2 DEF NextLine, GroupPasses, UserPasses
  <2>4. MainGroups'
    BY <2>1, <2>3 DEF MainGroups
  <2> QED
    BY <2>2, <2>4 DEF UidInv
<1>3. CASE AddGroup
  <2> line \in Line
    BY <1>3, LineType DEF AddGroup
  <2>1. CASE Fail /\ UNCHANGED passwd
    BY <2>1, FailStep
  <2>2. CASE /\ ~(line.gid = Automatic /\ generate_gid(line.group) = NoId)
             /\ add_one_group(line.group, line.gid)
             /\ at' = at + 1
             /\ UNCHANGED <<input, passwd, chowned, pass, sub>>
    <3>1. line.group \in Groups /\ line.gid \in Int
      BY DEF Line
    <3>2. line.gid = Automatic \/ line.gid >= 0
      BY <1>3 DEF AddGroup, Concerns, GroupPasses
    <3>3. /\ IsFile(group', Groups, [gid : Nat, members : SUBSET Users])
          /\ IsFile(gshadow', Groups, SUBSET Users)
          /\ DOMAIN group' = DOMAIN group \cup {line.group}
      BY <2>2, <3>1, <3>2, GroupAdded
    <3>4. at' = at + 1 /\ at \in Nat /\ pass' = pass /\ table' = table
      BY <2>2 DEF TypeOK, input
    <3>5. TypeOK' /\ UidsUnique'
      BY <2>2, <3>3, <3>4 DEF TypeOK, UidsUnique, input
    <3>6. \A i \in DOMAIN table : Placed(i)' => Placed(i) \/ i = at
      <4> SUFFICES ASSUME NEW i \in DOMAIN table, Placed(i)' PROVE Placed(i) \/ i = at
        OBVIOUS
      <4>1. i \in Nat
        BY <1>t
      <4> QED
        BY <3>4, <4>1 DEF Placed
    <3>7. MainGroups'
      BY <3>3, <3>4, <3>6 DEF MainGroups, line
    <3> QED
      BY <3>5, <3>7 DEF UidInv
  <2> QED
    BY <1>3, <2>1, <2>2 DEF AddGroup
<1>4. CASE AddExtraGroup
  <2> line \in Line
    BY <1>4, LineType DEF AddExtraGroup
  <2> DEFINE g == line.groups[sub + 1]
  <2>1. CASE Fail /\ UNCHANGED passwd
    BY <2>1, FailStep
  <2>2. CASE /\ generate_gid(g) # NoId
             /\ add_one_group(g, Automatic)
             /\ sub' = sub + 1
             /\ UNCHANGED <<input, passwd, chowned, pass, at>>
    <3>1. g \in Groups
      <4>1. line.groups \in Seq(Groups)
        BY DEF Line
      <4>2. Len(line.groups) \in Nat /\ sub \in Nat /\ sub < Len(line.groups)
        BY <1>4, <4>1 DEF AddExtraGroup, TypeOK
      <4>3. sub + 1 \in 1 .. Len(line.groups)
        BY <4>2
      <4> QED
        BY <4>1, <4>3
    <3>2. Automatic \in Int
      BY DEF Automatic
    <3>3. /\ IsFile(group', Groups, [gid : Nat, members : SUBSET Users])
          /\ IsFile(gshadow', Groups, SUBSET Users)
          /\ DOMAIN group' = DOMAIN group \cup {g}
      BY <2>2, <3>1, <3>2, GroupAdded
    <3>4. TypeOK' /\ UidsUnique'
      BY <2>2, <3>3 DEF TypeOK, UidsUnique, input
    <3>5. MainGroups'
      BY <2>2, <3>3 DEF MainGroups, Placed, input
    <3> QED
      BY <3>4, <3>5 DEF UidInv
  <2> QED
    BY <1>4, <2>1, <2>2 DEF AddExtraGroup
<1>5. CASE ExtraGroupsAdded
  <2>1. /\ at' = at + 1 /\ at \in Nat /\ sub' = 0 /\ pass = "extra_groups"
        /\ pass' = pass /\ table' = table /\ group' = group
    BY <1>5 DEF ExtraGroupsAdded, TypeOK, input
  <2>2. TypeOK' /\ UidsUnique'
    BY <1>5, <2>1 DEF ExtraGroupsAdded, TypeOK, UidsUnique, input
  <2>3. MainGroups'
    BY <2>1 DEF MainGroups, Placed
  <2> QED
    BY <2>2, <2>3 DEF UidInv
<1>6. CASE AddUser
  <2>1. CASE Fail /\ UNCHANGED passwd
    BY <2>1, FailStep
  <2>2. CASE Fail /\ passwd' = [u \in DOMAIN passwd \ {line.user} |-> passwd[u]]
    BY <2>2, FailStep
  <2>3. CASE /\ ~(Invalid(line) \/ Uid(line) = NoId)
             /\ passwd' = Put(passwd, line.user, NewEntry(line))
             /\ chowned' = IF line.home = "none" THEN chowned
                           ELSE chowned \cup {[user |-> line.user, to |-> NewEntry(line)]}
             /\ sub' = 1
             /\ UNCHANGED <<input, group, gshadow, pass, at>>
    <3>1. /\ NewEntry(line) \in [uid : Nat, gid : Nat]
          /\ line.user \in Users
          /\ IsFile(passwd', Users, [uid : Nat, gid : Nat])
          /\ UidsUnique'
      BY <1>6, <2>3, UserAdded DEF AddUser
    <3>2. chowned' \subseteq [user : Users, to : [uid : Nat, gid : Nat]]
      <4>1. [user |-> line.user, to |-> NewEntry(line)]
                \in [user : Users, to : [uid : Nat, gid : Nat]]
        BY <3>1
      <4> QED
        BY <2>3, <4>1 DEF TypeOK
    <3>3. TypeOK'
      BY <2>3, <3>1, <3>2 DEF TypeOK, input
    <3>4. MainGroups'
      BY <2>3 DEF MainGroups, Placed, input
    <3> QED
      BY <3>1, <3>3, <3>4 DEF UidInv
  <2> QED
    BY <1>6, <2>1, <2>2, <2>3 DEF AddUser, NewEntry
<1>7. CASE AddMember
  <2>1. DOMAIN group' = DOMAIN group
    BY <1>7 DEF AddMember, add_user_to_group
  <2>2. line.user \in Users
    <3> line \in Line
      BY <1>7, LineType DEF AddMember
    <3>1. line.user \in Users \cup {NoUser}
      BY DEF Line
    <3>2. line.user # NoUser
      BY <1>7 DEF AddMember, Concerns, UserPasses
    <3> QED
      BY <3>1, <3>2
  <2> DEFINE g == line.groups[sub]
  <2>3. IsFile(group', Groups, [gid : Nat, members : SUBSET Users])
    <3>1. group' = [group EXCEPT ![g].members = @ \cup {line.user}]
      BY <1>7 DEF AddMember, add_user_to_group
    <3> HIDE DEF g
    <3>2. \A h \in DOMAIN group : group[h] \in [gid : Nat, members : SUBSET Users]
      BY DEF TypeOK, IsFile
    <3>3. \A h \in DOMAIN group' : group'[h] \in [gid : Nat, members : SUBSET Users]
      BY <2>2, <3>1, <3>2
    <3> QED
      BY <2>1, <3>3 DEF TypeOK, IsFile
  <2>4. IsFile(gshadow', Groups, SUBSET Users)
    <3>1. \/ gshadow' = gshadow
          \/ gshadow' = [gshadow EXCEPT ![g] = @ \cup {line.user}]
      BY <1>7 DEF AddMember, add_user_to_group
    <3> HIDE DEF g
    <3> QED
      BY <2>2, <3>1 DEF TypeOK, IsFile
  <2>5. TypeOK' /\ UidsUnique'
    BY <1>7, <2>3, <2>4 DEF AddMember, TypeOK, UidsUnique, input
  <2>6. MainGroups'
    BY <1>7, <2>1 DEF AddMember, MainGroups, Placed, input
  <2> QED
    BY <2>5, <2>6 DEF UidInv
<1>8. CASE UNCHANGED vars
  BY <1>8 DEF vars, input, UidInv, TypeOK, UidsUnique, MainGroups, Placed
<1> QED
  BY <1>1, <1>2, <1>3, <1>4, <1>5, <1>6, <1>7, <1>8 DEF Next

(* No two users ever share a uid, for all tables, skeletons whose users do  *)
(* not, and ranges.                                                        *)
THEOREM UniqueUids == Spec => []UidsUnique
<1>1. UidInv => UidsUnique
  BY DEF UidInv
<1> QED
  BY <1>1, UidInit, UidStep, PTL DEF Spec

(* The variables keep their types; in particular every user has a gid. *)
THEOREM TypeCorrect == Spec => []TypeOK
<1>1. UidInv => TypeOK
  BY DEF UidInv
<1> QED
  BY <1>1, UidInit, UidStep, PTL DEF Spec

-----------------------------------------------------------------------------

(***************************************************************************)
(* Homes.  Groups keep their gids once users are added, and a user who is  *)
(* added again gets what it had: check_user_validity sees to it that its   *)
(* group is the same.                                                      *)
(***************************************************************************)
HomesInv ==
    /\ pass \in GroupPasses \cup {"extra_groups"} => chowned = {}
    /\ pass # "failed" => \A c \in chowned :
          /\ c.user \in DOMAIN passwd /\ passwd[c.user] = c.to
          /\ \E g \in DOMAIN group : group[g].gid = c.to.gid

LEMMA HomesStep == UidInv /\ HomesInv /\ [Next]_vars => HomesInv'
<1> SUFFICES ASSUME UidInv, HomesInv, [Next]_vars PROVE HomesInv'
  OBVIOUS
<1>0. ASSUME Fail PROVE HomesInv'
  <2>1. pass' = "failed"
    BY <1>0 DEF Fail
  <2> QED
    BY <2>1 DEF HomesInv, GroupPasses
<1>1. CASE NextPass
  <2>1. /\ pass # "failed"
        /\ pass' \in GroupPasses \cup {"extra_groups"} => pass \in GroupPasses
    BY <1>1 DEF NextPass, Following, Passes, GroupPasses
  <2> QED
    BY <1>1, <2>1 DEF NextPass, HomesInv
<1>2. CASE NextLine
  BY <1>2 DEF NextLine, HomesInv
<1>3. CASE AddGroup
  <2>1. chowned = {}
    BY <1>3 DEF AddGroup, HomesInv
  <2>2. Fail \/ chowned' = chowned
    BY <1>3 DEF AddGroup
  <2> QED
    BY <1>0, <2>1, <2>2 DEF HomesInv
<1>4. CASE AddExtraGroup
  <2>1. chowned = {}
    BY <1>4 DEF AddExtraGroup, HomesInv
  <2>2. Fail \/ chowned' = chowned
    BY <1>4 DEF AddExtraGroup
  <2> QED
    BY <1>0, <2>1, <2>2 DEF HomesInv
<1>5. CASE ExtraGroupsAdded
  BY <1>5 DEF ExtraGroupsAdded, HomesInv
<1>6. CASE AddUser
  <2>1. CASE /\ ~(Invalid(line) \/ Uid(line) = NoId)
             /\ passwd' = Put(passwd, line.user, NewEntry(line))
             /\ chowned' = IF line.home = "none" THEN chowned
                           ELSE chowned \cup {[user |-> line.user, to |-> NewEntry(line)]}
             /\ sub' = 1
             /\ UNCHANGED <<input, group, gshadow, pass, at>>
    <3>1. /\ AtLine /\ pass \in UserPasses /\ Concerns(pass, line)
          /\ pass # "failed" /\ pass' = pass /\ group' = group
          /\ pass \notin GroupPasses \cup {"extra_groups"}
      BY <1>6, <2>1 DEF AddUser, UserPasses, GroupPasses
    <3>2. line.group \in DOMAIN group
      BY <2>1, <3>1, GroupThere
    <3>3. \A c \in chowned : c.user = line.user => c.to = NewEntry(line)
      <4> SUFFICES ASSUME NEW c \in chowned, c.user = line.user
                   PROVE  c.to = NewEntry(line)
        OBVIOUS
      <4>1. /\ line.user \in DOMAIN passwd /\ passwd[line.user] = c.to
            /\ \E g \in DOMAIN group : group[g].gid = c.to.gid
        BY <3>1 DEF HomesInv
      <4>2. Uid(line) = c.to.uid
        BY <2>1, <3>1, <4>1, UidFree DEF UidInv
      <4>3. get_group(c.to.gid) \in {{}, {line.group}}
        BY <2>1, <4>1 DEF Invalid
      <4>4. group[line.group].gid = c.to.gid
        BY <4>1, <4>3 DEF get_group
      <4>5. c.to \in [uid : Nat, gid : Nat]
        BY DEF UidInv, TypeOK
      <4> QED
        BY <4>2, <4>4, <4>5 DEF NewEntry
    <3>4. \A u \in DOMAIN passwd :
             u \in DOMAIN passwd' /\ (u # line.user => passwd'[u] = passwd[u])
      BY <2>1 DEF Put
    <3>5. line.user \in DOMAIN passwd' /\ passwd'[line.user] = NewEntry(line)
      BY <2>1 DEF Put
    <3>6. NewEntry(line).gid = group[line.group].gid
      BY DEF NewEntry
    <3>7. \A c \in chowned' :
             c \in chowned \/ (c.user = line.user /\ c.to = NewEntry(line))
      <4> DEFINE new == [user |-> line.user, to |-> NewEntry(line)]
      <4>1. new.user = line.user /\ new.to = NewEntry(line)
        OBVIOUS
      <4>2. chowned' \subseteq chowned \cup {new}
        BY <2>1
      <4> HIDE DEF new
      <4> QED
        BY <4>1, <4>2
    <3>8. \A c \in chowned' : c.user \in DOMAIN passwd' /\ passwd'[c.user] = c.to
      <4> SUFFICES ASSUME NEW c \in chowned'
                   PROVE  c.user \in DOMAIN passwd' /\ passwd'[c.user] = c.to
        OBVIOUS
      <4>1. CASE c.user = line.user
        BY <3>3, <3>5, <3>7, <4>1
      <4>2. CASE c.user # line.user
        <5>1. c.user \in DOMAIN passwd /\ passwd[c.user] = c.to
          BY <3>1, <3>7, <4>2 DEF HomesInv
        <5> QED
          BY <3>4, <4>2, <5>1
      <4> QED
        BY <4>1, <4>2
    <3>9. \A c \in chowned' : \E g \in DOMAIN group : group[g].gid = c.to.gid
      BY <3>1, <3>2, <3>6, <3>7 DEF HomesInv
    <3> QED
      BY <3>1, <3>8, <3>9 DEF HomesInv
  <2> QED
    BY <1>0, <1>6, <2>1 DEF AddUser, NewEntry
<1>7. CASE AddMember
  <2>1. /\ DOMAIN group' = DOMAIN group
        /\ \A g \in DOMAIN group : group'[g].gid = group[g].gid
    <3> DEFINE into == line.groups[sub]
    <3>1. group' = [group EXCEPT ![into].members = @ \cup {line.user}]
      BY <1>7 DEF AddMember, add_user_to_group
    <3> HIDE DEF into
    <3>2. \A g \in DOMAIN group : group[g] \in [gid : Nat, members : SUBSET Users]
      BY DEF UidInv, TypeOK, IsFile
    <3>3. DOMAIN group' = DOMAIN group
      BY <3>1
    <3>4. \A g \in DOMAIN group : group'[g].gid = group[g].gid
      BY <3>1, <3>2
    <3> QED
      BY <3>3, <3>4
  <2> QED
    BY <1>7, <2>1 DEF AddMember, HomesInv
<1>8. CASE UNCHANGED vars
  BY <1>8 DEF vars, HomesInv
<1> QED
  BY <1>1, <1>2, <1>3, <1>4, <1>5, <1>6, <1>7, <1>8 DEF Next

(* When mkusers succeeds, every chown it wrote gives the home to the ids    *)
(* that its user has in passwd, also when the table names the user twice.  *)
THEOREM HomesCorrect == Spec => []HomesOwned
<1>1. Init => HomesInv
  BY DEF Init, HomesInv
<1>2. HomesInv => HomesOwned
  BY DEF HomesInv, HomesOwned
<1> QED
  BY <1>1, <1>2, UidInit, UidStep, HomesStep, PTL DEF Spec
-----------------------------------------------------------------------------

(***************************************************************************)
(* What is asked for, and why a table is refused.                          *)
(*                                                                         *)
(* The gids of groups.  A gid is in the skeleton or in a line as long as   *)
(* only lines with a gid are handled, and later gids are free ones: so two *)
(* groups share a gid, and one with a gid of its own lacks it, only when   *)
(* the lines disagree.                                                     *)
(***************************************************************************)
SkeletonGid(g) ==
    \/ group[g].gid = skeleton.group[g].gid
    \/ \E m \in Entries : m.group = g /\ Differ(m.gid, skeleton.group[g].gid)

GidOrigin(h) ==
    \/ h \in DOMAIN skeleton.group /\ group[h].gid = skeleton.group[h].gid
    \/ \E m \in Entries : m.group = h /\ m.gid = group[h].gid

GroupsInv ==
    /\ pass = "fixed_groups" => \A h \in DOMAIN group : GidOrigin(h)
    /\ \A g, h \in DOMAIN group : group[g].gid = group[h].gid => g = h \/ GroupsDisagree
    /\ pass # "failed" =>
          \A i \in DOMAIN table : table[i].gid >= 0 /\ Placed(i) =>
             group[table[i].group].gid = table[i].gid \/ GroupsDisagree
    /\ \A g \in DOMAIN skeleton.group :
          g \in DOMAIN group /\ SkeletonGid(g)

(* Where a user's ids are from. *)
EntryOrigin(u) ==
    \/ u \in DOMAIN skeleton.passwd /\ passwd[u] = skeleton.passwd[u]
    \/ \E m \in UserLines : /\ m.user = u /\ m.group \in DOMAIN group
                            /\ passwd[u].gid = group[m.group].gid

UidOrigin(u) ==
    \/ u \in DOMAIN skeleton.passwd /\ passwd[u].uid = skeleton.passwd[u].uid
    \/ \E m \in UserLines : m.user = u /\ m.uid = passwd[u].uid

UsersInv ==
    /\ pass \in GroupPasses \cup {"extra_groups"} => passwd = skeleton.passwd
    /\ pass \in UserPasses => \A u \in DOMAIN passwd : EntryOrigin(u)
    /\ pass = "fixed_users" => \A u \in DOMAIN passwd : UidOrigin(u)

(* Where main is within a line. *)
SubInv ==
    /\ pass # "failed" /\ sub > 0 => AtLine
    /\ pass \in GroupPasses => sub = 0
    /\ pass = "extra_groups" /\ AtLine => sub <= Len(line.groups)
    /\ pass \in UserPasses /\ sub > 0 => Concerns(pass, line)

(* The additional group j of line i was created. *)
Created(i, j) ==
    \/ pass \in UserPasses \cup {"done"}
    \/ pass = "extra_groups" /\ (i < at \/ (i = at /\ j <= sub))

ExtraGroups ==
    \A i \in DOMAIN table : \A j \in DOMAIN table[i].groups : Created(i, j) =>
        /\ table[i].groups[j] \in DOMAIN group
        /\ hasGshadow => table[i].groups[j] \in DOMAIN gshadow

(* The user of line i was added (j = 0), and to its group j. *)
Past(i, j) == i < at \/ (i = at /\ j < sub)
Reached(i, j) ==
    \/ /\ Concerns("fixed_users", table[i]) /\ pass \in UserPasses \cup {"done"}
       /\ pass = "fixed_users" => Past(i, j)
    \/ /\ Concerns("auto_users", table[i]) /\ pass \in {"auto_users", "done"}
       /\ pass = "auto_users" => Past(i, j)

HasIds(l) ==
    /\ l.user \in DOMAIN passwd /\ l.group \in DOMAIN group
    /\ l.uid # Automatic => passwd[l.user].uid = l.uid
    /\ passwd[l.user].gid = group[l.group].gid
    /\ l.gid # Automatic => get_group(l.gid) = {l.group}

Listed(l, j) ==
    /\ l.user \in group[l.groups[j]].members
    /\ hasGshadow => l.user \in gshadow[l.groups[j]]

IdsInv == \A i \in DOMAIN table : Reached(i, 0) => HasIds(table[i])
SkeletonMembers ==
    \A g \in DOMAIN skeleton.group :
        g \in DOMAIN group /\ skeleton.group[g].members \subseteq group[g].members
MembersInv == \A i \in DOMAIN table : \A j \in DOMAIN table[i].groups :
                  Reached(i, j) => Listed(table[i], j)

-----------------------------------------------------------------------------

(* What a step does to the groups: it keeps their gids, gives one the gid   *)
(* of its line, or adds one with a gid that was free.                      *)
SameGids ==
    DOMAIN group' = DOMAIN group /\ \A h \in DOMAIN group : group'[h].gid = group[h].gid
NewGid(g, i) ==
    /\ DOMAIN group' = DOMAIN group \cup {g} /\ group'[g].gid = i
    /\ \A h \in DOMAIN group \ {g} : group'[h].gid = group[h].gid
LineGid == AtLine /\ pass = "fixed_groups" /\ line.gid >= 0 /\ NewGid(line.group, line.gid)
FreeGid ==
    /\ pass \in {"auto_groups", "extra_groups"}
    /\ \E g \in Groups : \E i \in Nat :
          g \notin DOMAIN group /\ get_group(i) = {} /\ NewGid(g, i)
MembersKept ==
    \A h \in DOMAIN group : h \in DOMAIN group' /\ group[h].members \subseteq group'[h].members

LEMMA GroupFile ==
  ASSUME TypeOK, NEW h \in DOMAIN group
  PROVE  group[h] \in [gid : Nat, members : SUBSET Users] /\ h \in Groups
  BY DEF TypeOK, IsFile

LEMMA UnchangedGroups == TypeOK /\ group' = group => SameGids /\ MembersKept
  BY DEF SameGids, MembersKept

LEMMA GroupPut ==
  ASSUME TypeOK, NEW g \in Groups, NEW gid \in Int, add_one_group(g, gid)
  PROVE  /\ MembersKept
         /\ gid # Automatic => NewGid(g, gid)
         /\ gid = Automatic => NewGid(g, generate_gid(g))
<1> DEFINE new == IF gid = Automatic THEN generate_gid(g) ELSE gid
           members == IF g \in DOMAIN group THEN group[g].members ELSE {}
           entry == [gid |-> new, members |-> members]
<1>1. entry.gid = new /\ entry.members = members
  OBVIOUS
<1>2. group' = Put(group, g, entry)
  BY DEF add_one_group
<1>3. g \in DOMAIN group => group[g].members = members
  OBVIOUS
<1>4. new = IF gid = Automatic THEN generate_gid(g) ELSE gid
  OBVIOUS
<1> HIDE DEF new, members, entry
<1>5. /\ DOMAIN group' = DOMAIN group \cup {g} /\ group'[g] = entry
      /\ \A h \in DOMAIN group \ {g} : group'[h] = group[h]
  BY <1>2 DEF Put
<1>6. MembersKept
  BY <1>1, <1>3, <1>5 DEF MembersKept
<1>7. NewGid(g, new)
  BY <1>1, <1>5 DEF NewGid
<1> QED
  BY <1>4, <1>6, <1>7

LEMMA Generated ==
  ASSUME TypeOK, NEW g \in Groups, pass \in {"auto_groups", "extra_groups"},
         generate_gid(g) # NoId, NewGid(g, generate_gid(g))
  PROVE  SameGids \/ FreeGid
<1>1. CASE g \in DOMAIN group
  BY <1>1 DEF generate_gid, NewGid, SameGids
<1>2. CASE g \notin DOMAIN group
  <2> DEFINE S == {i \in MIN_GID .. MAX_GID : get_group(i) = {}}
  <2>1. generate_gid(g) \in S
    BY <1>2, LowestIn DEF generate_gid
  <2>2. generate_gid(g) \in Nat
    BY GenerateGid
  <2> QED
    BY <1>2, <2>1, <2>2 DEF FreeGid
<1> QED
  BY <1>1, <1>2

LEMMA GroupsChange ==
  ASSUME UidInv, [Next]_vars
  PROVE  MembersKept /\ (SameGids \/ LineGid \/ FreeGid)
<1> TypeOK
  BY DEF UidInv
<1>0. ASSUME Fail PROVE group' = group
  BY <1>0 DEF Fail
<1>1. CASE group' = group
  BY <1>1, UnchangedGroups
<1>2. CASE AddGroup
  <2>1. CASE Fail
    BY <1>0, <1>1, <2>1
  <2>2. CASE ~Fail
    <3>1. /\ AtLine /\ pass \in GroupPasses /\ Concerns(pass, line)
          /\ ~(line.gid = Automatic /\ generate_gid(line.group) = NoId)
          /\ add_one_group(line.group, line.gid)
      BY <1>2, <2>2 DEF AddGroup
    <3>2. line \in Line
      BY <3>1, LineType
    <3>3. line.group \in Groups /\ line.gid \in Int
      BY <3>2 DEF Line
    <3>4. CASE line.gid = Automatic
      <4>1. pass = "auto_groups"
        BY <3>1, <3>4 DEF Concerns, GroupPasses, Automatic
      <4> QED
        BY <3>1, <3>3, <3>4, <4>1, GroupPut, Generated
    <3>5. CASE line.gid # Automatic
      <4>1. pass = "fixed_groups" /\ line.gid >= 0
        BY <3>1, <3>5 DEF Concerns, GroupPasses
      <4> QED
        BY <3>1, <3>3, <3>5, <4>1, GroupPut DEF LineGid
    <3> QED
      BY <3>4, <3>5
  <2> QED
    BY <2>1, <2>2
<1>3. CASE AddExtraGroup
  <2>1. CASE Fail
    BY <1>0, <1>1, <2>1
  <2>2. CASE ~Fail
    <3> DEFINE g == line.groups[sub + 1]
    <3>1. /\ AtLine /\ pass = "extra_groups" /\ sub < Len(line.groups)
          /\ generate_gid(g) # NoId /\ add_one_group(g, Automatic)
      BY <1>3, <2>2 DEF AddExtraGroup
    <3>2. line.groups \in Seq(Groups)
      BY <3>1, LineType DEF Line
    <3>3. sub + 1 \in 1 .. Len(line.groups)
      BY <3>1, <3>2 DEF TypeOK
    <3>4. g \in Groups
      BY <3>2, <3>3
    <3>5. Automatic \in Int
      BY DEF Automatic
    <3> HIDE DEF g
    <3> QED
      BY <3>1, <3>4, <3>5, GroupPut, Generated
  <2> QED
    BY <2>1, <2>2
<1>4. CASE AddMember
  <2> DEFINE into == line.groups[sub]
  <2>1. group' = [group EXCEPT ![into].members = @ \cup {line.user}]
    BY <1>4 DEF AddMember, add_user_to_group
  <2> HIDE DEF into
  <2>2. DOMAIN group' = DOMAIN group
    BY <2>1
  <2>3. \A h \in DOMAIN group : /\ group'[h].gid = group[h].gid
                                /\ group[h].members \subseteq group'[h].members
    BY <2>1, GroupFile
  <2> QED
    BY <2>2, <2>3 DEF SameGids, MembersKept
<1>5. ~AddGroup /\ ~AddExtraGroup /\ ~AddMember => group' = group
  BY <1>0 DEF Next, NextPass, NextLine, ExtraGroupsAdded, AddUser, vars
<1> QED
  BY <1>1, <1>2, <1>3, <1>4, <1>5


(* The input stays. *)
LEMMA InputKept ==
  ASSUME [Next]_vars
  PROVE  table' = table /\ skeleton' = skeleton /\ hasGshadow' = hasGshadow
  BY DEF Next, vars, input, NextPass, NextLine, Fail, AddGroup, AddExtraGroup,
         ExtraGroupsAdded, AddUser, AddMember

LEMMA ReasonsKept ==
  ASSUME [Next]_vars
  PROVE  /\ Entries' = Entries /\ UserLines' = UserLines
         /\ GroupsDisagree' = GroupsDisagree
<1>1. Entries' = Entries
  BY InputKept DEF Entries
<1> QED
  BY <1>1, InputKept DEF UserLines, GroupsDisagree, GidTaken

(* The lines there are. *)
LEMMA LineThere ==
  ASSUME TypeOK
  PROVE  /\ table \in Seq(Line) /\ Len(table) \in Nat /\ DOMAIN table = 1 .. Len(table)
         /\ \A i \in DOMAIN table : table[i] \in Line /\ table[i] \in Entries
         /\ AtLine => at \in DOMAIN table /\ line \in Entries /\ line \in Line /\ line = table[at]
<1>1. table \in Seq(Line) /\ at \in Nat \ {0}
  BY TablesAssumption DEF TypeOK
<1>2. AtLine => at \in DOMAIN table
  BY <1>1 DEF AtLine
<1> QED
  BY <1>1, <1>2 DEF Entries, line

LEMMA LineFields ==
  ASSUME NEW l \in Line
  PROVE  /\ l.user \in Users \cup {NoUser} /\ l.uid \in Int /\ l.group \in Groups
         /\ l.gid \in Int /\ l.groups \in Seq(Groups) /\ l.home \in Homes
  BY DEF Line

(* The group of a line is placed by adding it. *)
LEMMA FailPass == Fail => pass' = "failed"
  BY DEF Fail

LEMMA PlacedByAdding ==
  ASSUME UidInv, [Next]_vars, pass' # "failed", NEW i \in DOMAIN table, Placed(i)', ~Placed(i)
  PROVE  /\ i = at /\ AtLine /\ pass \in GroupPasses /\ Concerns(pass, line)
         /\ add_one_group(line.group, line.gid)
<1> TypeOK
  BY DEF UidInv
<1>t. /\ table' = table /\ DOMAIN table = 1 .. Len(table) /\ Len(table) \in Nat
      /\ at \in Nat /\ i \in Nat /\ (AtLine => line = table[at])
  BY InputKept, LineThere DEF TypeOK
<1>1. ~NextPass
  <2> SUFFICES ASSUME NextPass PROVE FALSE
    OBVIOUS
  <2>1. i < at /\ ~(i < at') /\ pass' = Following[pass] /\ pass \in Passes
    BY <1>t DEF NextPass
  <2> QED
    BY <1>t, <2>1 DEF Placed, Following, Passes
<1>2. pass' = pass
  BY <1>1, FailPass DEF Next, vars, NextLine, AddGroup, AddExtraGroup, ExtraGroupsAdded,
                        AddUser, AddMember
<1>3. pass \in GroupPasses /\ Concerns(pass, table[i]) /\ ~(i < at) /\ i < at'
  BY <1>t, <1>2 DEF Placed, Concerns, GroupPasses
<1>4. ~NextLine
  <2> SUFFICES ASSUME NextLine PROVE FALSE
    OBVIOUS
  <2>1. at' = at + 1 /\ AtLine /\ ~Concerns(pass, line)
    BY <1>3 DEF NextLine, GroupPasses, UserPasses
  <2>2. i = at
    BY <1>t, <1>3, <2>1
  <2> QED
    BY <1>t, <1>3, <2>1, <2>2
<1>5. CASE AddGroup
  <2>1. add_one_group(line.group, line.gid) /\ AtLine /\ at' = at + 1
    BY <1>5, FailPass DEF AddGroup
  <2>2. i = at
    BY <1>t, <1>3, <2>1
  <2> QED
    BY <1>t, <1>3, <2>1, <2>2
<1>6. ~AddExtraGroup /\ ~ExtraGroupsAdded /\ ~AddUser /\ ~AddMember /\ ~(UNCHANGED vars)
  BY <1>3 DEF AddExtraGroup, ExtraGroupsAdded, AddUser, AddMember, vars, GroupPasses, UserPasses
<1> QED
  BY <1>1, <1>4, <1>5, <1>6 DEF Next

(* A step reaches at most one line with a gid, the one it is at. *)
LEMMA PlacedStep ==
  ASSUME UidInv, [Next]_vars, pass' # "failed", NEW i \in DOMAIN table,
         table[i].gid >= 0, Placed(i)', ~Placed(i)
  PROVE  i = at /\ LineGid
<1> TypeOK
  BY DEF UidInv
<1>1. /\ i = at /\ AtLine /\ pass \in GroupPasses /\ Concerns(pass, line)
      /\ add_one_group(line.group, line.gid)
  BY PlacedByAdding
<1>2. line \in Line /\ line.gid # Automatic /\ line.gid >= 0
  BY <1>1, LineThere DEF Automatic
<1>3. pass = "fixed_groups"
  BY <1>1, <1>2 DEF Concerns, GroupPasses
<1> QED
  BY <1>1, <1>2, <1>3, GroupPut, LineFields DEF LineGid

LEMMA GroupsInvStep == UidInv /\ UidInv' /\ GroupsInv /\ [Next]_vars => GroupsInv'
<1> SUFFICES ASSUME UidInv, UidInv', GroupsInv, [Next]_vars PROVE GroupsInv'
  OBVIOUS
<1> TypeOK
  BY DEF UidInv
<1>c. table' = table /\ skeleton' = skeleton /\ Entries' = Entries
      /\ GroupsDisagree' = GroupsDisagree
  BY InputKept, ReasonsKept
<1>t. /\ \A i \in DOMAIN table : table[i] \in Line /\ table[i] \in Entries
      /\ AtLine => line \in Entries /\ line \in Line /\ line = table[at]
  BY LineThere
<1>g. SameGids \/ LineGid \/ FreeGid
  BY GroupsChange
<1>d. \A h \in DOMAIN group : h \in DOMAIN group'
  BY <1>g DEF SameGids, LineGid, FreeGid, NewGid
<1>1. ASSUME pass' = "fixed_groups", NEW h \in DOMAIN group'
      PROVE  GidOrigin(h)'
  <2>1. pass = "fixed_groups"
    BY <1>1 DEF Next, vars, NextPass, Following, Passes, NextLine, Fail, AddGroup,
                AddExtraGroup, ExtraGroupsAdded, AddUser, AddMember
  <2>2. CASE SameGids
    BY <1>c, <2>1, <2>2 DEF GroupsInv, GidOrigin, SameGids
  <2>3. CASE LineGid
    <3>1. CASE h = line.group
      BY <1>c, <1>t, <2>3, <3>1 DEF GidOrigin, LineGid, NewGid
    <3>2. CASE h # line.group
      BY <1>c, <2>1, <2>3, <3>2 DEF GroupsInv, GidOrigin, LineGid, NewGid
    <3> QED
      BY <3>1, <3>2
  <2> QED
    BY <1>g, <2>1, <2>2, <2>3 DEF FreeGid
<1>2. ASSUME NEW g \in DOMAIN group', NEW h \in DOMAIN group',
             group'[g].gid = group'[h].gid, g # h, ~GroupsDisagree
      PROVE  FALSE
  <2>1. CASE SameGids
    BY <1>2, <2>1 DEF GroupsInv, SameGids
  <2>2. CASE LineGid
    <3>1. ASSUME NEW k \in DOMAIN group, group[k].gid = line.gid, k # line.group
          PROVE  FALSE
      <4>1. GidOrigin(k)
        BY <2>2 DEF GroupsInv, LineGid
      <4>2. line.gid >= 0 /\ line \in Entries
        BY <1>t, <2>2 DEF LineGid
      <4>3. ASSUME NEW m \in Entries, m.group = k, m.gid = group[k].gid PROVE FALSE
        <5>1. GroupsContradict(line, m)
          BY <3>1, <4>2, <4>3 DEF GroupsContradict
        <5> QED
          BY <1>2, <4>2, <5>1 DEF GroupsDisagree
      <4>4. ASSUME k \in DOMAIN skeleton.group, group[k].gid = skeleton.group[k].gid
            PROVE  FALSE
        <5>1. GidTaken(line)
          BY <3>1, <4>4 DEF GidTaken
        <5> QED
          BY <1>2, <4>2, <5>1 DEF GroupsDisagree
      <4> QED
        BY <4>1, <4>3, <4>4 DEF GidOrigin
    <3>2. NewGid(line.group, line.gid)
      BY <2>2 DEF LineGid
    <3>3. CASE g # line.group /\ h # line.group
      BY <1>2, <3>2, <3>3 DEF GroupsInv, NewGid
    <3>4. CASE g = line.group
      BY <1>2, <3>1, <3>2, <3>4 DEF NewGid
    <3>5. CASE h = line.group
      BY <1>2, <3>1, <3>2, <3>5 DEF NewGid
    <3> QED
      BY <3>3, <3>4, <3>5
  <2>3. CASE FreeGid
    <3>1. PICK n \in Groups : \E i \in Nat :
              n \notin DOMAIN group /\ get_group(i) = {} /\ NewGid(n, i)
      BY <2>3 DEF FreeGid
    <3>2. PICK i \in Nat : n \notin DOMAIN group /\ get_group(i) = {} /\ NewGid(n, i)
      BY <3>1
    <3>3. \A k \in DOMAIN group : group[k].gid # i
      BY <3>2 DEF get_group
    <3> QED
      BY <1>2, <3>2, <3>3 DEF GroupsInv, NewGid
  <2> QED
    BY <1>g, <2>1, <2>2, <2>3
<1>3. ASSUME pass' # "failed", NEW i \in DOMAIN table, table[i].gid >= 0, Placed(i)',
             ~GroupsDisagree
      PROVE  group'[table[i].group].gid = table[i].gid
  <2>1. CASE ~Placed(i)
    <3>1. i = at /\ LineGid
      BY <1>3, <2>1, PlacedStep
    <3> QED
      BY <3>1 DEF LineGid, NewGid, line
  <2>2. CASE Placed(i)
    <3>0. pass # "failed"
      BY <1>3 DEF Next, vars, NextPass, Passes, NextLine, AtLine, AddGroup,
                  AddExtraGroup, ExtraGroupsAdded, AddUser, AddMember
    <3>1. table[i].group \in DOMAIN group /\ group[table[i].group].gid = table[i].gid
      BY <1>3, <2>2, <3>0 DEF GroupsInv, UidInv, MainGroups
    <3>2. CASE SameGids
      BY <3>1, <3>2 DEF SameGids
    <3>3. CASE LineGid
      <4>1. line.gid = table[i].gid \/ line.group # table[i].group
        <5> SUFFICES ASSUME line.gid # table[i].gid, line.group = table[i].group
                     PROVE  FALSE
          OBVIOUS
        <5>1. GroupsContradict(table[i], line)
          BY <1>3, <3>3 DEF GroupsContradict, Differ, LineGid
        <5> QED
          BY <1>t, <1>3, <3>3, <5>1 DEF GroupsDisagree, LineGid
      <4> QED
        BY <3>1, <3>3, <4>1 DEF LineGid, NewGid
    <3>4. CASE FreeGid
      BY <3>1, <3>4 DEF FreeGid, NewGid
    <3> QED
      BY <1>g, <3>2, <3>3, <3>4
  <2> QED
    BY <2>1, <2>2
<1>4. ASSUME NEW g \in DOMAIN skeleton.group
      PROVE  g \in DOMAIN group' /\ SkeletonGid(g)'
  <2>1. g \in DOMAIN group /\ SkeletonGid(g)
    BY DEF GroupsInv
  <2>2. skeleton.group[g].gid \in Nat
    BY SkeletonsAssumption DEF TypeOK, IsFile
  <2>3. CASE group'[g].gid = group[g].gid
    BY <1>c, <1>d, <2>1, <2>3 DEF SkeletonGid
  <2>4. CASE LineGid /\ g = line.group
    <3>1. group'[g].gid = line.gid /\ line \in Entries /\ line.gid \in Int /\ line.gid >= 0
      BY <1>t, <2>4, LineFields DEF LineGid, NewGid
    <3>2. line.gid = skeleton.group[g].gid \/ Differ(line.gid, skeleton.group[g].gid)
      BY <2>2, <3>1 DEF Differ
    <3> QED
      BY <1>c, <1>d, <2>1, <2>4, <3>1, <3>2 DEF SkeletonGid
  <2>5. group'[g].gid = group[g].gid \/ (LineGid /\ g = line.group)
    BY <1>g, <2>1 DEF SameGids, LineGid, FreeGid, NewGid
  <2> QED
    BY <2>3, <2>4, <2>5
<1>5. pass' = "fixed_groups" => \A h \in DOMAIN group' : GidOrigin(h)'
  BY <1>1
<1>6. \A g, h \in DOMAIN group' : group'[g].gid = group'[h].gid => g = h \/ GroupsDisagree'
  BY <1>c, <1>2
<1>7. pass' # "failed" =>
         \A i \in DOMAIN table : table[i].gid >= 0 /\ Placed(i)' =>
            group'[table[i].group].gid = table[i].gid \/ GroupsDisagree'
  BY <1>c, <1>3
<1> QED
  BY <1>c, <1>4, <1>5, <1>6, <1>7 DEF GroupsInv

(* A failing step only sets the pass and, perhaps, removes a user. *)
LEMMA SubStep == UidInv /\ SubInv /\ [Next]_vars => SubInv'
<1> SUFFICES ASSUME UidInv, SubInv, [Next]_vars PROVE SubInv'
  OBVIOUS
<1> TypeOK
  BY DEF UidInv
<1>t. table' = table /\ Len(table) \in Nat /\ sub \in Nat /\ at \in Nat
      /\ (AtLine => line \in Line)
  BY InputKept, LineThere DEF TypeOK
<1>0. ASSUME Fail PROVE SubInv'
  BY <1>0, FailPass DEF SubInv, AtLine, GroupPasses, UserPasses
<1>2. ASSUME sub' = 0 PROVE SubInv'
  <2>1. ASSUME AtLine' PROVE 0 <= Len(line'.groups)
    <3>1. table' \in Seq(Line) /\ at' \in 1 .. Len(table')
      BY <2>1, UidStep, TablesAssumption DEF UidInv, TypeOK, AtLine
    <3>2. line' \in Line
      BY <3>1 DEF line
    <3>3. line'.groups \in Seq(Groups)
      BY <3>2 DEF Line
    <3> QED
      BY <3>3
  <2> QED
    BY <1>2, <2>1 DEF SubInv
<1>1. CASE NextPass
  <2>1. sub' = 0
    BY <1>1, <1>t DEF NextPass, SubInv, AtLine, Passes
  <2> QED
    BY <1>2, <2>1
<1>3. CASE NextLine \/ ExtraGroupsAdded
  BY <1>2, <1>3 DEF NextLine, ExtraGroupsAdded
<1>4. CASE AddGroup
  BY <1>0, <1>2, <1>4 DEF AddGroup, SubInv
<1>5. CASE AddExtraGroup
  <2>1. CASE Fail
    BY <1>0, <2>1
  <2>2. CASE ~Fail
    <3>1. /\ AtLine /\ pass = "extra_groups" /\ sub < Len(line.groups) /\ sub' = sub + 1
          /\ at' = at /\ pass' = pass /\ line' = line
      BY <1>5, <1>t, <2>2 DEF AddExtraGroup, line
    <3>2. line.groups \in Seq(Groups)
      BY <1>t, <3>1 DEF Line
    <3>3. AtLine' /\ sub' <= Len(line'.groups)
      BY <1>t, <3>1, <3>2 DEF AtLine
    <3> QED
      BY <3>1, <3>3 DEF SubInv, GroupPasses, UserPasses
  <2> QED
    BY <2>1, <2>2
<1>6. CASE AddUser \/ AddMember
  <2>1. CASE Fail
    BY <1>0, <2>1
  <2>2. CASE ~Fail
    <3>1. /\ AtLine /\ pass \in UserPasses /\ Concerns(pass, line)
          /\ at' = at /\ pass' = pass /\ line' = line
      BY <1>6, <1>t, <2>2 DEF AddUser, AddMember, line
    <3>2. AtLine' /\ Concerns(pass', line')
      BY <1>t, <3>1 DEF AtLine
    <3> QED
      BY <3>1, <3>2 DEF SubInv, GroupPasses, UserPasses
  <2> QED
    BY <2>1, <2>2
<1>7. CASE UNCHANGED vars
  BY <1>7 DEF vars, SubInv, AtLine, line
<1> QED
  BY <1>1, <1>3, <1>4, <1>5, <1>6, <1>7 DEF Next

LEMMA UserLine ==
  ASSUME TypeOK, AtLine, pass \in UserPasses, Concerns(pass, line)
  PROVE  /\ line \in UserLines /\ line.user \in Users /\ line.uid \in Int /\ line.gid \in Int
         /\ line.uid >= 0 \/ line.uid = Automatic
         /\ line.uid >= 0 => pass = "fixed_users"
<1>1. line \in Line /\ line \in Entries
  BY LineThere
<1>2. line.user \in Users \cup {NoUser} /\ line.uid \in Int /\ line.gid \in Int
  BY <1>1, LineFields
<1>3. line.user # NoUser
  BY DEF Concerns, UserPasses
<1>4. line.uid >= 0 \/ line.uid = Automatic
  BY DEF Concerns, UserPasses
<1>5. line.uid >= 0 => pass = "fixed_users"
  BY <1>2 DEF Concerns, UserPasses, Automatic
<1>6. line.uid >= Automatic
  BY <1>2, <1>4 DEF Automatic
<1> QED
  BY <1>1, <1>2, <1>3, <1>4, <1>5, <1>6 DEF UserLines

(* Files only grow while groups are added. *)
LEMMA GshadowKept ==
  ASSUME UidInv, [Next]_vars
  PROVE  DOMAIN gshadow \subseteq DOMAIN gshadow'
<1>1. add_one_group(line.group, line.gid) => DOMAIN gshadow \subseteq DOMAIN gshadow'
  BY DEF add_one_group, Put
<1>2. add_one_group(line.groups[sub + 1], Automatic) => DOMAIN gshadow \subseteq DOMAIN gshadow'
  BY DEF add_one_group, Put
<1>3. AddMember => DOMAIN gshadow \subseteq DOMAIN gshadow'
  BY DEF AddMember, add_user_to_group
<1>4. gshadow' = gshadow => DOMAIN gshadow \subseteq DOMAIN gshadow'
  OBVIOUS
<1> QED
  BY <1>1, <1>2, <1>3, <1>4
     DEF Next, vars, NextPass, NextLine, Fail, AddGroup, AddExtraGroup, ExtraGroupsAdded, AddUser

(* An additional group is reached by creating it. *)
LEMMA CreatedByAdding ==
  ASSUME UidInv, SubInv, [Next]_vars, NEW i \in DOMAIN table, NEW j \in DOMAIN table[i].groups,
         Created(i, j)', ~Created(i, j)
  PROVE  add_one_group(table[i].groups[j], Automatic)
<1> TypeOK
  BY DEF UidInv
<1>t. /\ table' = table /\ DOMAIN table = 1 .. Len(table) /\ Len(table) \in Nat
      /\ at \in Nat /\ i \in Nat /\ sub \in Nat /\ table[i] \in Line
      /\ (AtLine => line = table[at] /\ line \in Line)
  BY InputKept, LineThere DEF TypeOK
<1>j. j \in 1 .. Len(table[i].groups) /\ Len(table[i].groups) \in Nat
  BY <1>t, LineFields
<1>1. ~Fail
  BY FailPass DEF Created, UserPasses
<1>2. ~NextPass
  <2> SUFFICES ASSUME NextPass PROVE FALSE
    OBVIOUS
  <2>1. /\ at' = 1 /\ sub' = sub /\ pass' = Following[pass] /\ pass \in Passes
        /\ ~AtLine /\ i < at
    BY <1>t DEF NextPass, AtLine
  <2>2. sub = 0
    BY <1>t, <2>1 DEF SubInv, Passes
  <2>3. ~(i < at') /\ ~(j <= sub')
    BY <1>t, <1>j, <2>1, <2>2
  <2>4. pass' \in UserPasses \cup {"done"}
    BY <2>3 DEF Created
  <2>5. pass \in UserPasses \cup {"extra_groups"}
    BY <2>1, <2>4 DEF Following, Passes, UserPasses
  <2> QED
    BY <2>1, <2>5 DEF Created
<1>3. CASE pass' = pass /\ pass = "extra_groups"
  <2>1. (i < at' \/ (i = at' /\ j <= sub')) /\ ~(i < at \/ (i = at /\ j <= sub))
    BY <1>3 DEF Created, UserPasses
  <2>2. ~NextLine
    <3> SUFFICES ASSUME NextLine PROVE FALSE
      OBVIOUS
    <3>1. at' = at + 1 /\ sub' = 0 /\ AtLine /\ line.groups = <<>>
      BY <1>3 DEF NextLine, Concerns, UserPasses
    <3>2. i = at
      BY <1>t, <1>j, <2>1, <3>1
    <3> QED
      BY <1>t, <1>j, <3>1, <3>2
  <2>3. ~ExtraGroupsAdded
    <3> SUFFICES ASSUME ExtraGroupsAdded PROVE FALSE
      OBVIOUS
    <3>1. at' = at + 1 /\ sub' = 0 /\ AtLine /\ sub = Len(line.groups)
      BY DEF ExtraGroupsAdded
    <3>2. i = at
      BY <1>t, <1>j, <2>1, <3>1
    <3> QED
      BY <1>t, <1>j, <2>1, <3>1, <3>2
  <2>4. CASE AddExtraGroup
    <3>1. AtLine /\ at' = at /\ sub' = sub + 1 /\ add_one_group(line.groups[sub + 1], Automatic)
      BY <1>1, <2>4 DEF AddExtraGroup
    <3>2. i = at /\ j = sub + 1
      BY <1>t, <1>j, <2>1, <3>1
    <3> QED
      BY <1>t, <3>1, <3>2
  <2>5. ~AddGroup /\ ~AddUser /\ ~AddMember /\ ~(UNCHANGED vars)
    BY <1>3, <2>1 DEF AddGroup, AddUser, AddMember, vars, GroupPasses, UserPasses
  <2> QED
    BY <1>2, <2>2, <2>3, <2>4, <2>5 DEF Next
<1>4. CASE pass' # pass
  BY <1>1, <1>2, <1>4 DEF Next, vars, NextLine, AddGroup, AddExtraGroup, ExtraGroupsAdded,
                          AddUser, AddMember
<1> QED
  BY <1>3, <1>4 DEF Created

LEMMA ExtraGroupsStep == UidInv /\ SubInv /\ ExtraGroups /\ [Next]_vars => ExtraGroups'
<1> SUFFICES ASSUME UidInv, SubInv, ExtraGroups, [Next]_vars,
                    NEW i \in DOMAIN table, NEW j \in DOMAIN table[i].groups, Created(i, j)'
             PROVE  /\ table[i].groups[j] \in DOMAIN group'
                    /\ hasGshadow => table[i].groups[j] \in DOMAIN gshadow'
  BY InputKept DEF ExtraGroups
<1>1. CASE Created(i, j)
  BY <1>1, GroupsChange, GshadowKept DEF ExtraGroups, MembersKept
<1>2. CASE ~Created(i, j)
  BY <1>2, CreatedByAdding DEF add_one_group, Put
<1> QED
  BY <1>1, <1>2

-----------------------------------------------------------------------------

(* The users' passes leave the gids alone and take nobody out of a group.  *)
LEMMA UserPassesKeep ==
  ASSUME UidInv, [Next]_vars, pass \in UserPasses \cup {"done"}
  PROVE  /\ SameGids /\ MembersKept
         /\ \A g \in DOMAIN gshadow : g \in DOMAIN gshadow' /\ gshadow[g] \subseteq gshadow'[g]
<1>1. SameGids /\ MembersKept
  BY GroupsChange DEF LineGid, FreeGid, UserPasses
<1>2. ASSUME NEW g \in DOMAIN gshadow
      PROVE  g \in DOMAIN gshadow' /\ gshadow[g] \subseteq gshadow'[g]
  <2>1. CASE AddMember /\ hasGshadow
    <3> DEFINE into == line.groups[sub]
    <3>1. gshadow' = [gshadow EXCEPT ![into] = @ \cup {line.user}]
      BY <2>1 DEF AddMember, add_user_to_group
    <3> HIDE DEF into
    <3>2. g \in DOMAIN gshadow' /\ (gshadow'[g] = gshadow[g] \/ gshadow'[g] = gshadow[g] \cup {line.user})
      BY <3>1
    <3> QED
      BY <3>2
  <2>2. CASE ~(AddMember /\ hasGshadow)
    <3>1. gshadow' = gshadow
      BY <2>2 DEF Next, vars, NextPass, NextLine, Fail, AddGroup, AddExtraGroup, ExtraGroupsAdded,
                  AddUser, AddMember, add_user_to_group, UserPasses, GroupPasses
    <3> QED
      BY <3>1
  <2> QED
    BY <2>1, <2>2
<1> QED
  BY <1>1, <1>2

(* A step adds the user of the line it is at, or puts it in one group. *)
UserPut ==
    /\ AtLine /\ pass \in UserPasses /\ Concerns(pass, line)
    /\ ~Invalid(line) /\ Uid(line) # NoId /\ passwd' = Put(passwd, line.user, NewEntry(line))

LEMMA UserPutOrKept ==
  ASSUME [Next]_vars, pass' # "failed"
  PROVE  passwd' = passwd \/ (UserPut /\ group' = group)
<1>1. CASE AddUser
  BY <1>1, FailPass DEF AddUser, UserPut, NewEntry
<1>2. CASE ~AddUser
  BY <1>2, FailPass DEF Next, vars, NextPass, NextLine, AddGroup, AddExtraGroup,
                        ExtraGroupsAdded, AddMember
<1> QED
  BY <1>1, <1>2

LEMMA ReachedStep ==
  ASSUME UidInv, SubInv, [Next]_vars, NEW i \in DOMAIN table,
         NEW j \in 0 .. Len(table[i].groups), Reached(i, j)', ~Reached(i, j)
  PROVE  /\ i = at /\ AtLine /\ pass \in UserPasses /\ Concerns(pass, line)
         /\ (j = 0 /\ UserPut /\ group' = group) \/ (j = sub /\ AddMember)
<1> TypeOK
  BY DEF UidInv
<1>t. /\ table' = table /\ DOMAIN table = 1 .. Len(table) /\ Len(table) \in Nat
      /\ at \in Nat /\ i \in Nat /\ sub \in Nat /\ table[i] \in Line
      /\ (AtLine => line = table[at] /\ line \in Line)
  BY InputKept, LineThere DEF TypeOK
<1>j. j \in Nat /\ j <= Len(table[i].groups) /\ Len(table[i].groups) \in Nat
  BY <1>t, LineFields
<1>f. pass' # "failed"
  BY DEF Reached, UserPasses
<1>r. /\ pass' \in UserPasses \cup {"done"}
      /\ \/ /\ Concerns("fixed_users", table[i])
            /\ pass' = "fixed_users" => Past(i, j)'
         \/ /\ Concerns("auto_users", table[i]) /\ pass' \in {"auto_users", "done"}
            /\ pass' = "auto_users" => Past(i, j)'
  BY <1>t DEF Reached, Concerns, UserPasses
<1>1. ~NextPass
  <2> SUFFICES ASSUME NextPass PROVE FALSE
    OBVIOUS
  <2>1. at' = 1 /\ sub' = sub /\ pass' = Following[pass] /\ pass \in Passes /\ ~AtLine /\ i < at
    BY <1>t DEF NextPass, AtLine
  <2>2. sub = 0
    BY <1>t, <2>1 DEF SubInv, Passes
  <2>3. Past(i, j) /\ ~Past(i, j)'
    BY <1>t, <1>j, <2>1, <2>2 DEF Past
  <2> QED
    BY <1>r, <2>1, <2>3 DEF Reached, Following, Passes, UserPasses
<1>2. pass' = pass
  BY <1>1, <1>f, FailPass DEF Next, vars, NextLine, AddGroup, AddExtraGroup, ExtraGroupsAdded,
                              AddUser, AddMember
<1>3. pass \in UserPasses /\ Concerns(pass, table[i]) /\ Past(i, j)' /\ ~Past(i, j)
  BY <1>r, <1>2 DEF Reached, UserPasses
<1>4. ~NextLine
  <2> SUFFICES ASSUME NextLine PROVE FALSE
    OBVIOUS
  <2>1. /\ at' = at + 1 /\ sub' = 0 /\ AtLine
        /\ (sub = 0 /\ ~Concerns(pass, line)) \/ sub > Len(line.groups)
    BY DEF NextLine
  <2>2. i = at
    BY <1>t, <1>j, <1>3, <2>1 DEF Past
  <2> QED
    BY <1>t, <1>j, <1>3, <2>1, <2>2 DEF Past
<1>5. CASE AddUser
  <2>1. AtLine /\ at' = at /\ sub' = 1 /\ passwd' = Put(passwd, line.user, NewEntry(line))
        /\ ~Invalid(line) /\ Uid(line) # NoId /\ group' = group
    BY <1>5, <1>f, FailPass DEF AddUser, NewEntry
  <2>2. i = at /\ j = 0
    BY <1>t, <1>j, <1>3, <2>1 DEF Past
  <2> QED
    BY <1>t, <1>3, <2>1, <2>2 DEF UserPut
<1>6. CASE AddMember
  <2>1. AtLine /\ at' = at /\ sub' = sub + 1
    BY <1>6 DEF AddMember
  <2>2. i = at /\ j = sub
    BY <1>t, <1>j, <1>3, <2>1 DEF Past
  <2> QED
    BY <1>t, <1>3, <1>6, <2>1, <2>2
<1>7. ~AddGroup /\ ~AddExtraGroup /\ ~ExtraGroupsAdded /\ ~(UNCHANGED vars)
  BY <1>3 DEF AddGroup, AddExtraGroup, ExtraGroupsAdded, vars, Past, GroupPasses, UserPasses
<1> QED
  BY <1>1, <1>4, <1>5, <1>6, <1>7 DEF Next

(* A user whose main group is there and who is added again keeps its ids.  *)
LEMMA AddedAgain ==
  ASSUME UidInv, UserPut, line.user \in DOMAIN passwd,
         \E g \in DOMAIN group : group[g].gid = passwd[line.user].gid
  PROVE  NewEntry(line).uid = passwd[line.user].uid /\ NewEntry(line).gid = passwd[line.user].gid
<1>1. Uid(line) = passwd[line.user].uid
  BY UidFree DEF UserPut, UidInv
<1>2. get_group(passwd[line.user].gid) \in {{}, {line.group}}
  BY DEF UserPut, Invalid
<1>3. group[line.group].gid = passwd[line.user].gid
  BY <1>2 DEF get_group
<1> QED
  BY <1>1, <1>3 DEF NewEntry

LEMMA IdsStep == UidInv /\ SubInv /\ IdsInv /\ [Next]_vars => IdsInv'
<1> SUFFICES ASSUME UidInv, SubInv, IdsInv, [Next]_vars,
                    NEW i \in DOMAIN table, Reached(i, 0)'
             PROVE  HasIds(table[i])'
  BY InputKept DEF IdsInv
<1> DEFINE l == table[i]
<1>t. table' = table /\ l \in Line /\ (AtLine => line = table[at])
  BY InputKept, LineThere DEF UidInv
<1>f. pass' # "failed"
  BY DEF Reached, UserPasses
<1>1. CASE Reached(i, 0)
  <2>1. HasIds(l)
    BY <1>1 DEF IdsInv
  <2>2. SameGids
    BY <1>1, UserPassesKeep DEF Reached, UserPasses
  <2>3. l.gid # Automatic => get_group(l.gid)' = {l.group}
    BY <1>t, <2>1, <2>2 DEF HasIds, SameGids, get_group
  <2>4. /\ l.user \in DOMAIN passwd'
        /\ passwd'[l.user].uid = passwd[l.user].uid
        /\ passwd'[l.user].gid = passwd[l.user].gid
    <3> HIDE DEF l
    <3>1. CASE passwd' = passwd
      BY <2>1, <3>1 DEF HasIds
    <3>2. CASE UserPut
      <4>1. /\ DOMAIN passwd' = DOMAIN passwd \cup {line.user}
            /\ passwd'[line.user] = NewEntry(line)
            /\ \A u \in DOMAIN passwd \ {line.user} : passwd'[u] = passwd[u]
        BY <3>2 DEF UserPut, Put
      <4>2. CASE l.user # line.user
        BY <2>1, <4>1, <4>2 DEF HasIds
      <4>3. CASE l.user = line.user
        <5>1. /\ line.user \in DOMAIN passwd
              /\ \E g \in DOMAIN group : group[g].gid = passwd[line.user].gid
          BY <2>1, <4>3 DEF HasIds
        <5> QED
          BY <3>2, <4>1, <4>3, <5>1, AddedAgain
      <4> QED
        BY <4>2, <4>3
    <3> QED
      BY <1>f, <3>1, <3>2, UserPutOrKept
  <2> QED
    BY <1>t, <2>1, <2>2, <2>3, <2>4 DEF HasIds, SameGids
<1>2. CASE ~Reached(i, 0)
  <2>0. Len(l.groups) \in Nat
    BY <1>t DEF Line
  <2>1. i = at /\ AtLine /\ pass \in UserPasses /\ ((UserPut /\ group' = group) \/ (0 = sub /\ AddMember))
    BY <1>2, <2>0, ReachedStep
  <2>2. ~(0 = sub /\ AddMember)
    BY DEF AddMember
  <2>3. UserPut /\ group' = group /\ l = line
    BY <1>t, <2>1, <2>2
  <2>4. line.group \in DOMAIN group /\ group[line.group].gid \in Nat
    BY <2>1, <2>3, GroupThere DEF UserPut
  <2>5. line.user \in DOMAIN passwd' /\ passwd'[line.user] = NewEntry(line)
    BY <2>3 DEF UserPut, Put
  <2>6. NewEntry(line).uid = Uid(line) /\ NewEntry(line).gid = group[line.group].gid
    BY DEF NewEntry
  <2>7. line.uid # Automatic => Uid(line) = line.uid
    BY DEF Uid
  <2>8. line.gid # Automatic => get_group(line.gid) = {line.group}
    <3> SUFFICES ASSUME line.gid # Automatic PROVE get_group(line.gid) = {line.group}
      OBVIOUS
    <3>1. get_group(line.gid) \in {{}, {line.group}} /\ group[line.group].gid = line.gid
      BY <2>3, <2>4 DEF UserPut, Invalid
    <3> QED
      BY <2>4, <3>1 DEF get_group
  <2>9. get_group(line.gid)' = get_group(line.gid')
    BY <2>3 DEF get_group
  <2>10. table'[i] = line /\ line = table[i]
    BY <1>t, <2>3
  <2> QED
    BY <2>3, <2>4, <2>5, <2>6, <2>7, <2>8, <2>10 DEF HasIds, get_group
<1> QED
  BY <1>1, <1>2

LEMMA MembersStep ==
  UidInv /\ SubInv /\ ExtraGroups /\ MembersInv /\ [Next]_vars => MembersInv'
<1> SUFFICES ASSUME UidInv, SubInv, ExtraGroups, MembersInv, [Next]_vars, NEW i \in DOMAIN table,
                    NEW j \in DOMAIN table[i].groups, Reached(i, j)'
             PROVE  Listed(table[i], j)'
  BY InputKept DEF MembersInv
<1> DEFINE l == table[i]
           g == l.groups[j]
<1>t. /\ table' = table /\ hasGshadow' = hasGshadow /\ l \in Line /\ (AtLine => line = table[at])
  BY InputKept, LineThere DEF UidInv
<1>j. j \in 0 .. Len(l.groups)
  BY <1>t DEF Line
<1>1. pass \in UserPasses \cup {"done"} =>
          g \in DOMAIN group /\ (hasGshadow => g \in DOMAIN gshadow)
  BY DEF ExtraGroups, Created
<1>2. CASE Reached(i, j)
  <2>1. Listed(l, j) /\ pass \in UserPasses \cup {"done"}
    BY <1>2 DEF MembersInv, Reached, UserPasses
  <2>2. /\ group[g].members \subseteq group'[g].members
        /\ hasGshadow => gshadow[g] \subseteq gshadow'[g]
    BY <1>1, <2>1, UserPassesKeep DEF MembersKept
  <2> QED
    BY <1>t, <2>1, <2>2 DEF Listed
<1>3. CASE ~Reached(i, j)
  <2>1. j # 0
    BY <1>t DEF Line
  <2>2. i = at /\ j = sub /\ AddMember /\ AtLine /\ pass \in UserPasses
    BY <1>3, <1>j, <2>1, ReachedStep
  <2>3. l = line /\ add_user_to_group(l.user, g)
    BY <1>t, <2>2 DEF AddMember
  <2>4. g \in DOMAIN group /\ (hasGshadow => g \in DOMAIN gshadow)
    BY <1>1, <2>2
  <2>5. group[g] \in [gid : Nat, members : SUBSET Users]
    BY <2>4, GroupFile DEF UidInv
  <2> HIDE DEF l, g
  <2>6. l.user \in group'[g].members
    BY <2>3, <2>4, <2>5 DEF add_user_to_group
  <2>7. hasGshadow => l.user \in gshadow'[g]
    BY <2>3, <2>4 DEF add_user_to_group
  <2> QED
    BY <1>t, <2>6, <2>7 DEF Listed, l, g
<1> QED
  BY <1>2, <1>3

LEMMA SkeletonMembersStep == UidInv /\ SkeletonMembers /\ [Next]_vars => SkeletonMembers'
<1> SUFFICES ASSUME UidInv, SkeletonMembers, [Next]_vars PROVE SkeletonMembers'
  OBVIOUS
<1> QED
  BY InputKept, GroupsChange DEF SkeletonMembers, MembersKept

(* The other direction: nobody is in a group without having been put there. *)
(* In group the members are kept from the skeleton on; in gshadow only     *)
(* until add_one_group is called for their group.                          *)
Touched(g) ==
    \/ \E i \in DOMAIN table : Placed(i) /\ table[i].group = g
    \/ \E i \in DOMAIN table : \E j \in DOMAIN table[i].groups :
          Created(i, j) /\ table[i].groups[j] = g

GroupMembers ==
    \A g \in DOMAIN group :
        /\ g \in DOMAIN skeleton.group \cup Added
        /\ group[g].members \subseteq AskedFor(g) \cup HadBefore(g)
GshadowMembers ==
    /\ DOMAIN skeleton.gshadow \subseteq DOMAIN gshadow
    /\ \A g \in DOMAIN gshadow :
          g \in Added \/ (g \in DOMAIN skeleton.gshadow /\ gshadow[g] = skeleton.gshadow[g])
    /\ pass # "failed" /\ hasGshadow =>
          \A g : Touched(g) => g \in DOMAIN gshadow /\ gshadow[g] \subseteq AskedFor(g)

(* What a step does to the members. *)
MemberAdded(u, g) ==
    /\ g \in Added /\ u \in AskedFor(g)
    /\ add_user_to_group(u, g)

LEMMA MembersChange ==
  ASSUME UidInv, [Next]_vars
  PROVE  \/ group' = group /\ gshadow' = gshadow
         \/ \E g \in Added : \E gid : add_one_group(g, gid)
         \/ \E u, g : MemberAdded(u, g)
<1> TypeOK
  BY DEF UidInv
<1>1. CASE AddGroup /\ ~Fail
  <2>1. add_one_group(line.group, line.gid) /\ Concerns(pass, line) /\ pass \in GroupPasses
        /\ line \in Entries /\ line.gid \in Int
    BY <1>1, LineThere, LineFields DEF AddGroup
  <2>2. line.gid >= Automatic
    BY <2>1 DEF Concerns, GroupPasses, Automatic
  <2>3. line.group \in Added
    BY <2>1, <2>2 DEF Added
  <2> QED
    BY <2>1, <2>3
<1>2. CASE AddExtraGroup /\ ~Fail
  <2>1. /\ add_one_group(line.groups[sub + 1], Automatic) /\ line \in Entries
        /\ sub \in Nat /\ sub < Len(line.groups) /\ line.groups \in Seq(Groups)
    BY <1>2, LineThere, LineFields DEF AddExtraGroup, TypeOK
  <2>2. sub + 1 \in DOMAIN line.groups
    BY <2>1
  <2>3. line.groups[sub + 1] \in Added
    BY <2>1, <2>2 DEF Added, AdditionalGroups
  <2> QED
    BY <2>1, <2>3
<1>3. CASE AddMember
  <2>1. /\ add_user_to_group(line.user, line.groups[sub]) /\ line \in UserLines /\ line \in Entries
        /\ sub \in 1 .. Len(line.groups) /\ line.groups \in Seq(Groups)
    BY <1>3, LineThere, LineFields, UserLine DEF AddMember
  <2>2. line.groups[sub] \in AdditionalGroups(line)
    BY <2>1 DEF AdditionalGroups
  <2>3. MemberAdded(line.user, line.groups[sub])
    BY <2>1, <2>2 DEF MemberAdded, Added, AskedFor
  <2> QED
    BY <2>3
<1> QED
  BY <1>1, <1>2, <1>3 DEF Next, vars, NextPass, NextLine, Fail, AddGroup, AddExtraGroup,
                          ExtraGroupsAdded, AddUser

LEMMA AskedForKept ==
  ASSUME [Next]_vars
  PROVE  /\ Added' = Added
         /\ \A g : AskedFor(g)' = AskedFor(g) /\ HadBefore(g)' = HadBefore(g)
  BY InputKept, ReasonsKept DEF Added, AskedFor, HadBefore

LEMMA GroupMembersStep == UidInv /\ GroupMembers /\ [Next]_vars => GroupMembers'
<1> SUFFICES ASSUME UidInv, GroupMembers, [Next]_vars, NEW g \in DOMAIN group'
             PROVE  /\ g \in DOMAIN skeleton.group \cup Added
                    /\ group'[g].members \subseteq AskedFor(g) \cup HadBefore(g)
  BY InputKept, AskedForKept DEF GroupMembers
<1>1. CASE group' = group
  BY <1>1 DEF GroupMembers
<1>2. ASSUME NEW h \in Added, NEW gid, add_one_group(h, gid)
      PROVE  /\ g \in DOMAIN skeleton.group \cup Added
             /\ group'[g].members \subseteq AskedFor(g) \cup HadBefore(g)
  <2>1. PICK entry :
          /\ group' = Put(group, h, entry)
          /\ entry.members = IF h \in DOMAIN group THEN group[h].members ELSE {}
    BY <1>2 DEF add_one_group
  <2> QED
    BY <2>1 DEF Put, GroupMembers
<1>3. ASSUME NEW u, NEW h, MemberAdded(u, h)
      PROVE  /\ g \in DOMAIN skeleton.group \cup Added
             /\ group'[g].members \subseteq AskedFor(g) \cup HadBefore(g)
  <2>1. /\ group' = [group EXCEPT ![h].members = @ \cup {u}]
        /\ u \in AskedFor(h) /\ g \in DOMAIN group
    BY <1>3 DEF MemberAdded, add_user_to_group
  <2>2. group[g] \in [gid : Nat, members : SUBSET Users]
    BY <2>1, GroupFile DEF UidInv
  <2>3. group'[g].members \subseteq group[g].members \cup (IF g = h THEN {u} ELSE {})
    BY <2>1, <2>2
  <2> QED
    BY <2>1, <2>3 DEF GroupMembers
<1> QED
  BY <1>1, <1>2, <1>3, MembersChange

LEMMA TouchedByAdding ==
  ASSUME UidInv, SubInv, [Next]_vars, pass' # "failed", NEW g, Touched(g)', ~Touched(g)
  PROVE  \E gid : add_one_group(g, gid)
<1> table' = table
  BY InputKept
<1>1. CASE \E i \in DOMAIN table : Placed(i)' /\ table[i].group = g
  <2>1. PICK i \in DOMAIN table : Placed(i)' /\ table[i].group = g /\ ~Placed(i)
    BY <1>1 DEF Touched
  <2>2. i = at /\ AtLine /\ add_one_group(line.group, line.gid)
    BY <2>1, PlacedByAdding
  <2> QED
    BY <2>1, <2>2 DEF line
<1>2. CASE \E i \in DOMAIN table : \E j \in DOMAIN table[i].groups :
              Created(i, j)' /\ table[i].groups[j] = g
  <2>1. PICK i \in DOMAIN table : \E j \in DOMAIN table[i].groups :
              Created(i, j)' /\ table[i].groups[j] = g
    BY <1>2
  <2>2. PICK j \in DOMAIN table[i].groups : Created(i, j)' /\ table[i].groups[j] = g
    BY <2>1
  <2>3. ~Created(i, j)
    BY <2>2 DEF Touched
  <2> QED
    BY <2>2, <2>3, CreatedByAdding
<1> QED
  BY <1>1, <1>2 DEF Touched

LEMMA GshadowMembersStep ==
  UidInv /\ SubInv /\ GshadowMembers /\ [Next]_vars => GshadowMembers'
<1> SUFFICES ASSUME UidInv, SubInv, GshadowMembers, [Next]_vars PROVE GshadowMembers'
  OBVIOUS
<1>k. /\ skeleton' = skeleton /\ hasGshadow' = hasGshadow /\ Added' = Added
      /\ \A g : AskedFor(g)' = AskedFor(g)
  BY InputKept, AskedForKept
<1>1. DOMAIN skeleton.gshadow \subseteq DOMAIN gshadow'
  BY GshadowKept DEF GshadowMembers
<1>2. ASSUME NEW g \in DOMAIN gshadow'
      PROVE  g \in Added \/ (g \in DOMAIN gshadow /\ gshadow'[g] = gshadow[g])
  <2>1. CASE gshadow' = gshadow
    BY <2>1
  <2>2. ASSUME NEW h \in Added, NEW gid, add_one_group(h, gid)
        PROVE  g \in Added \/ (g \in DOMAIN gshadow /\ gshadow'[g] = gshadow[g])
    BY <2>2 DEF add_one_group, Put
  <2>3. ASSUME NEW u, NEW h, MemberAdded(u, h)
        PROVE  g \in Added \/ (g \in DOMAIN gshadow /\ gshadow'[g] = gshadow[g])
    BY <2>3 DEF MemberAdded, add_user_to_group
  <2> QED
    BY <2>1, <2>2, <2>3, MembersChange
<1>3. ASSUME pass' # "failed", hasGshadow, NEW g, Touched(g)'
      PROVE  g \in DOMAIN gshadow' /\ gshadow'[g] \subseteq AskedFor(g)
  <2>0. pass # "failed"
    BY <1>3 DEF Next, NextPass, NextLine, AtLine, AddGroup, AddExtraGroup, ExtraGroupsAdded,
                AddUser, AddMember, vars, Passes
  <2>1. ASSUME NEW gid, add_one_group(g, gid)
        PROVE  g \in DOMAIN gshadow' /\ gshadow'[g] \subseteq AskedFor(g)
    BY <1>3, <2>1 DEF add_one_group, Put
  <2>2. CASE Touched(g)
    <3>1. g \in DOMAIN gshadow /\ gshadow[g] \subseteq AskedFor(g)
      BY <1>3, <2>0, <2>2 DEF GshadowMembers
    <3>2. CASE gshadow' = gshadow
      BY <3>1, <3>2
    <3>3. ASSUME NEW h \in Added, NEW gid, add_one_group(h, gid)
          PROVE  g \in DOMAIN gshadow' /\ gshadow'[g] \subseteq AskedFor(g)
      BY <2>1, <3>1, <3>3 DEF add_one_group, Put
    <3>4. ASSUME NEW u, NEW h, MemberAdded(u, h)
          PROVE  g \in DOMAIN gshadow' /\ gshadow'[g] \subseteq AskedFor(g)
      <4>1. gshadow' = [gshadow EXCEPT ![h] = @ \cup {u}] /\ u \in AskedFor(h)
        BY <1>3, <3>4 DEF MemberAdded, add_user_to_group
      <4>2. gshadow'[g] \subseteq gshadow[g] \cup (IF g = h THEN {u} ELSE {})
        BY <3>1, <4>1
      <4> QED
        BY <3>1, <4>1, <4>2
    <3> QED
      BY <3>2, <3>3, <3>4, MembersChange
  <2>3. CASE ~Touched(g)
    BY <1>3, <2>1, <2>3, TouchedByAdding
  <2> QED
    BY <2>2, <2>3
<1> QED
  BY <1>k, <1>1, <1>2, <1>3 DEF GshadowMembers

AskedInv ==
    /\ SubInv /\ ExtraGroups /\ IdsInv /\ MembersInv /\ SkeletonMembers
    /\ GroupMembers /\ GshadowMembers

LEMMA AskedInit == Init => AskedInv
<1> SUFFICES ASSUME Init PROVE AskedInv
  OBVIOUS
<1>1. /\ pass = "fixed_groups" /\ at = 1 /\ sub = 0 /\ group = skeleton.group
      /\ gshadow = skeleton.gshadow /\ table \in Seq(Line)
  BY TablesAssumption DEF Init
<1>2. SubInv
  BY <1>1 DEF SubInv, UserPasses
<1>3. \A i, j : ~Created(i, j) /\ ~Reached(i, j)
  BY <1>1 DEF Created, Reached, UserPasses
<1>4. \A i \in DOMAIN table : ~Placed(i)
  BY <1>1 DEF Placed
<1>5. \A g : ~Touched(g)
  BY <1>3, <1>4 DEF Touched
<1>6. GroupMembers
  BY <1>1 DEF GroupMembers, HadBefore
<1>7. GshadowMembers
  BY <1>1, <1>5 DEF GshadowMembers
<1> QED
  BY <1>1, <1>2, <1>3, <1>6, <1>7 DEF AskedInv, ExtraGroups, IdsInv, MembersInv, SkeletonMembers

LEMMA AskedEnd == UidInv /\ AskedInv => AsAsked
<1> SUFFICES ASSUME UidInv, AskedInv, pass = "done" PROVE AsAsked
  BY DEF AsAsked, IdsAsAsked, MembersListed
<1>1. ASSUME NEW l \in UserLines PROVE \E i \in DOMAIN table : l = table[i] /\ \A j : Reached(i, j)
  <2>1. PICK i \in DOMAIN table : l = table[i]
    BY DEF UserLines, Entries
  <2>2. l.uid \in Int /\ l.user # NoUser /\ l.uid >= -1
    BY <2>1, LineThere, LineFields DEF UidInv, UserLines, Automatic
  <2>3. Concerns("fixed_users", l) \/ Concerns("auto_users", l)
    BY <2>2 DEF Concerns, Automatic
  <2> QED
    BY <2>1, <2>3 DEF Reached
<1>2. \A l \in UserLines : HasIds(l)
  BY <1>1 DEF AskedInv, IdsInv
<1>3. \A l \in UserLines : \A j \in DOMAIN l.groups : Listed(l, j)
  BY <1>1 DEF AskedInv, MembersInv
<1>4. ASSUME NEW g, NEW u \in AskedFor(g)
      PROVE  u \in group[g].members /\ (hasGshadow => u \in gshadow[g])
  <2>1. PICK l \in UserLines : u = l.user /\ \E j \in DOMAIN l.groups : l.groups[j] = g
    BY DEF AskedFor, AdditionalGroups
  <2> QED
    BY <1>3, <2>1 DEF Listed
<1>5. ASSUME NEW g \in Added PROVE Touched(g)
  <2>1. CASE \E l \in Entries : g \in AdditionalGroups(l)
    <3>1. PICK i \in DOMAIN table : \E j \in DOMAIN table[i].groups : table[i].groups[j] = g
      BY <2>1 DEF Entries, AdditionalGroups
    <3> QED
      BY <3>1 DEF Touched, Created
  <2>2. CASE \E l \in Entries : l.gid >= Automatic /\ l.group = g
    <3>1. PICK i \in DOMAIN table : table[i].gid >= Automatic /\ table[i].group = g
      BY <2>2 DEF Entries
    <3>2. table[i].gid \in Int
      BY LineThere, LineFields DEF UidInv
    <3>3. table[i].gid >= 0 \/ table[i].gid = Automatic
      BY <3>1, <3>2 DEF Automatic
    <3> QED
      BY <3>1, <3>3 DEF Touched, Placed
  <2> QED
    BY <2>1, <2>2 DEF Added
<1>6. ASSUME NEW g, Touched(g) PROVE g \in DOMAIN group
  BY <1>6 DEF Touched, AskedInv, ExtraGroups, UidInv, MainGroups
<1>7. DOMAIN group = DOMAIN skeleton.group \cup Added
  BY <1>5, <1>6 DEF AskedInv, SkeletonMembers, GroupMembers
<1>8. ASSUME NEW g \in DOMAIN group PROVE group[g].members = AskedFor(g) \cup HadBefore(g)
  <2>1. AskedFor(g) \subseteq group[g].members
    BY <1>4
  <2>2. HadBefore(g) \subseteq group[g].members
    BY DEF HadBefore, AskedInv, SkeletonMembers
  <2> QED
    BY <2>1, <2>2 DEF AskedInv, GroupMembers
<1>9. ASSUME hasGshadow
      PROVE  /\ DOMAIN gshadow = DOMAIN skeleton.gshadow \cup Added
             /\ \A g \in DOMAIN gshadow :
                    gshadow[g] = IF g \in Added THEN AskedFor(g) ELSE skeleton.gshadow[g]
  <2>1. \A g \in Added : g \in DOMAIN gshadow /\ gshadow[g] \subseteq AskedFor(g)
    BY <1>5, <1>9 DEF AskedInv, GshadowMembers
  <2>2. \A g \in Added : gshadow[g] = AskedFor(g)
    BY <1>4, <1>9, <2>1
  <2> QED
    BY <2>1, <2>2 DEF AskedInv, GshadowMembers
<1> QED
  BY <1>2, <1>7, <1>8, <1>9 DEF AsAsked, IdsAsAsked, MembersListed, HasIds

(* When mkusers succeeds, each line has the ids it asks for, its group is   *)
(* the main group of its user and shares its gid with no other if it asked *)
(* for one; each group has the members that the lines and the skeleton     *)
(* give it and no others, and in gshadow a group that a line names has     *)
(* only those of the lines: what the skeleton's gshadow had there is gone. *)
THEOREM AllAsAsked == Spec => []AsAsked
<1>1. UidInv /\ AskedInv /\ [Next]_vars => AskedInv'
  BY SubStep, ExtraGroupsStep, IdsStep, MembersStep, SkeletonMembersStep, GroupMembersStep,
     GshadowMembersStep DEF AskedInv
<1> QED
  BY <1>1, UidInit, UidStep, AskedInit, AskedEnd, PTL DEF Spec

-----------------------------------------------------------------------------

(* There is no lowest free id only when there is no free one. *)
LEMMA LowestNone ==
  ASSUME NEW S \in SUBSET Nat, Lowest(S) = NoId
  PROVE  S = {}
<1> SUFFICES ASSUME S # {} PROVE FALSE
  OBVIOUS
<1> DEFINE R == OpToRel(<, Nat)
<1>0. IsWellFoundedOn(R, Nat)
  BY NatLessThanWellFounded
<1> HIDE DEF R
<1>1. PICK n \in S : \A m \in S : ~(<<m, n>> \in R)
  BY <1>0, WFMin
<1>2. \A m \in S : n <= m
  <2> SUFFICES ASSUME NEW m \in S PROVE n <= m
    OBVIOUS
  <2>1. m \in Nat /\ n \in Nat
    OBVIOUS
  <2>2. m < n => <<m, n>> \in R
    BY <2>1 DEF R, OpToRel
  <2>3. ~(m < n)
    BY <1>1, <2>2
  <2> QED
    BY <2>1, <2>3
<1>3. Lowest(S) \in S
  BY <1>2 DEF Lowest
<1> QED
  BY <1>3 DEF NoId

LEMMA NoGidFree ==
  ASSUME TypeOK, NEW g, generate_gid(g) = NoId
  PROVE  \A i \in MIN_GID .. MAX_GID : get_group(i) # {}
<1> DEFINE S == {i \in MIN_GID .. MAX_GID : get_group(i) = {}}
<1>1. g \notin DOMAIN group
  BY GroupFile DEF generate_gid, NoId
<1>2. Lowest(S) = NoId
  BY <1>1 DEF generate_gid
<1>3. S \in SUBSET Nat
  BY RangesAssumption
<1>4. S = {}
  BY <1>2, <1>3, LowestNone
<1> QED
  BY <1>4

LEMMA NoUidFree ==
  ASSUME TypeOK, NEW u, generate_uid(u) = NoId
  PROVE  \A i \in MIN_UID .. MAX_UID : get_username(i) # {}
<1> DEFINE S == {i \in MIN_UID .. MAX_UID : get_username(i) = {}}
<1>1. u \notin DOMAIN passwd
  BY DEF generate_uid, NoId, TypeOK, IsFile
<1>2. Lowest(S) = NoId
  BY <1>1 DEF generate_uid
<1>3. S \in SUBSET Nat
  BY RangesAssumption
<1>4. S = {}
  BY <1>2, <1>3, LowestNone
<1> QED
  BY <1>4

(* What a line is refused for, other than a lack of ids. *)
LineReason(l) == BadLine(l) \/ UserTaken(l) \/ \E m \in UserLines : UsersContradict(l, m)

LEMMA SkeletonIds ==
  ASSUME TypeOK, NEW u \in DOMAIN skeleton.passwd
  PROVE  skeleton.passwd[u].uid \in Nat /\ skeleton.passwd[u].gid \in Nat
  BY SkeletonsAssumption DEF TypeOK, IsFile

LEMMA InvalidForAReason ==
  ASSUME UidInv, GroupsInv, UsersInv, AtLine, pass \in UserPasses, Concerns(pass, line),
         Invalid(line), ~GroupsDisagree
  PROVE  LineReason(line)
<1> TypeOK
  BY DEF UidInv
<1> DEFINE l == line
<1>l. /\ l \in UserLines /\ l.user \in Users /\ l.uid \in Int /\ l.gid \in Int
      /\ l.uid >= 0 \/ l.uid = Automatic
      /\ l.uid >= 0 => pass = "fixed_users"
      /\ l \in Entries
  BY UserLine, LineThere
<1> SUFFICES ASSUME ~BadLine(l), ~UserTaken(l), \A m \in UserLines : ~UsersContradict(l, m)
             PROVE  FALSE
  BY DEF LineReason
<1>u. \A g, h \in DOMAIN group : group[g].gid = group[h].gid => g = h
  BY DEF GroupsInv
<1>e. ASSUME l.user \in DOMAIN passwd
      PROVE  /\ passwd[l.user].uid \in Nat /\ passwd[l.user].gid \in Nat
             /\ \/ /\ l.user \in DOMAIN skeleton.passwd
                   /\ passwd[l.user].gid = skeleton.passwd[l.user].gid
                \/ /\ l.group \in DOMAIN group
                   /\ passwd[l.user].gid = group[l.group].gid
  <2>1. EntryOrigin(l.user) /\ passwd[l.user] \in [uid : Nat, gid : Nat]
    BY <1>e DEF UsersInv, TypeOK, IsFile
  <2>2. \A m \in UserLines : m.user = l.user => m.group = l.group
    BY DEF UsersContradict
  <2> QED
    BY <2>1, <2>2 DEF EntryOrigin
<1>1. ASSUME l.gid # Automatic
      PROVE  l.group \in DOMAIN group /\ group[l.group].gid = l.gid /\ l.gid >= 0
  <2>1. l.gid >= 0
    BY <1>1, <1>l DEF BadLine, Automatic
  <2>2. at \in DOMAIN table /\ l = table[at]
    BY LineThere
  <2>3. Placed(at) /\ pass # "failed"
    BY <2>1, <2>2 DEF Placed, UserPasses
  <2> QED
    BY <2>1, <2>2, <2>3 DEF GroupsInv, UidInv, MainGroups
<1>2. l.gid # Automatic => /\ get_group(l.gid) \in {{}, {l.group}}
                           /\ group[l.group].gid = l.gid
  BY <1>1, <1>u DEF get_group
<1>3. ASSUME l.gid # Automatic, l.user \in DOMAIN passwd PROVE passwd[l.user].gid = l.gid
  <2>1. CASE l.user \in DOMAIN skeleton.passwd /\ passwd[l.user].gid = skeleton.passwd[l.user].gid
    <3>1. ~Differ(l.gid, skeleton.passwd[l.user].gid)
      BY <1>l, <2>1 DEF UserTaken
    <3> QED
      BY <1>1, <1>3, <2>1, <3>1, SkeletonIds DEF Differ
  <2> QED
    BY <1>1, <1>3, <1>e, <2>1
<1>4. ASSUME l.uid # Automatic PROVE get_username(l.uid) \in {{}, {l.user}}
  <2> SUFFICES ASSUME NEW v \in DOMAIN passwd, passwd[v].uid = l.uid, v # l.user PROVE FALSE
    BY DEF get_username
  <2>1. UidOrigin(v)
    BY <1>4, <1>l DEF UsersInv
  <2>2. CASE v \in DOMAIN skeleton.passwd /\ passwd[v].uid = skeleton.passwd[v].uid
    BY <2>2 DEF UserTaken
  <2>3. ASSUME NEW m \in UserLines, m.user = v, m.uid = passwd[v].uid PROVE FALSE
    BY <1>4, <1>l, <2>3 DEF UsersContradict
  <2> QED
    BY <2>1, <2>2, <2>3 DEF UidOrigin
<1>5. ASSUME l.uid # Automatic, l.user \in DOMAIN passwd PROVE passwd[l.user].uid = l.uid
  <2>1. UidOrigin(l.user)
    BY <1>5, <1>l DEF UsersInv
  <2>2. passwd[l.user].uid \in Nat
    BY <1>5, <1>e
  <2>3. CASE l.user \in DOMAIN skeleton.passwd /\ passwd[l.user].uid = skeleton.passwd[l.user].uid
    <3>1. ~Differ(l.uid, skeleton.passwd[l.user].uid)
      BY <2>3 DEF UserTaken
    <3> QED
      BY <1>5, <1>l, <2>2, <2>3, <3>1 DEF Differ
  <2>4. ASSUME NEW m \in UserLines, m.user = l.user, m.uid = passwd[l.user].uid
        PROVE  passwd[l.user].uid = l.uid
    <3>1. ~Differ(l.uid, m.uid)
      BY <2>4 DEF UsersContradict
    <3> QED
      BY <1>5, <1>l, <2>2, <2>4, <3>1 DEF Differ
  <2> QED
    BY <2>1, <2>3, <2>4 DEF UidOrigin
<1>6. ASSUME l.user \in DOMAIN passwd PROVE get_group(passwd[l.user].gid) \in {{}, {l.group}}
  <2> SUFFICES l.group \in DOMAIN group /\ group[l.group].gid = passwd[l.user].gid
    BY <1>u DEF get_group
  <2>1. CASE l.user \in DOMAIN skeleton.passwd /\ passwd[l.user].gid = skeleton.passwd[l.user].gid
    <3> DEFINE p == skeleton.passwd[l.user].gid
               g == skeleton.group
    <3>1. p \in {g[h].gid : h \in DOMAIN g \cap {l.group}}
      BY <2>1 DEF UserTaken
    <3>2. l.group \in DOMAIN g /\ g[l.group].gid = p
      BY <3>1
    <3>3. \A m \in Entries : m.group = l.group => ~Differ(m.gid, p)
      BY <2>1 DEF UserTaken
    <3>4. l.group \in DOMAIN group /\ SkeletonGid(l.group)
      BY <3>2 DEF GroupsInv
    <3> QED
      BY <2>1, <3>2, <3>3, <3>4 DEF SkeletonGid
  <2> QED
    BY <1>6, <1>e, <2>1
<1>7. ~(l.user = Root \/ l.gid < Automatic \/ l.gid = 0 \/ l.uid = 0)
  BY DEF BadLine
<1>8. ~(l.uid < Automatic)
  BY <1>l DEF Automatic
<1> HIDE DEF l
<1> QED
  BY <1>2, <1>3, <1>4, <1>5, <1>6, <1>7, <1>8 DEF Invalid, l

LEMMA UsersInvStep == UidInv /\ UsersInv /\ [Next]_vars => UsersInv'
<1> SUFFICES ASSUME UidInv, UsersInv, [Next]_vars PROVE UsersInv'
  OBVIOUS
<1> TypeOK
  BY DEF UidInv
<1>c. skeleton' = skeleton /\ UserLines' = UserLines
  BY InputKept, ReasonsKept
<1>1. ASSUME pass' \in GroupPasses \cup {"extra_groups"} PROVE passwd' = skeleton'.passwd
  <2>1. pass \in GroupPasses \cup {"extra_groups"} /\ pass' # "failed"
    BY <1>1 DEF Next, vars, NextPass, Following, Passes, NextLine, Fail, AddGroup, AddExtraGroup,
                ExtraGroupsAdded, AddUser, AddMember, GroupPasses, UserPasses
  <2>2. passwd' = passwd
    BY <2>1, UserPutOrKept DEF UserPut, UserPasses, GroupPasses
  <2> QED
    BY <1>c, <2>1, <2>2 DEF UsersInv
<1>2. ASSUME pass' \in UserPasses, pass \notin UserPasses
      PROVE  passwd = skeleton.passwd /\ passwd' = passwd
  <2>1. pass = "extra_groups" /\ pass' # "failed"
    BY <1>2 DEF Next, vars, NextPass, Following, Passes, NextLine, Fail, AddGroup, AddExtraGroup,
                ExtraGroupsAdded, AddUser, AddMember, GroupPasses, UserPasses
  <2>2. passwd' = passwd
    BY <2>1, UserPutOrKept DEF UserPut, UserPasses
  <2> QED
    BY <2>1, <2>2 DEF UsersInv
<1>3. ASSUME UserPut
      PROVE  /\ DOMAIN passwd' = DOMAIN passwd \cup {line.user}
             /\ passwd'[line.user] = NewEntry(line)
             /\ \A u \in DOMAIN passwd \ {line.user} : passwd'[u] = passwd[u]
             /\ line \in UserLines
  BY <1>3, UserLine DEF UserPut, Put
<1>4. ASSUME pass' \in UserPasses, NEW u \in DOMAIN passwd' PROVE EntryOrigin(u)'
  <2>1. CASE pass \notin UserPasses
    BY <1>2, <1>4, <1>c, <2>1 DEF EntryOrigin
  <2>2. CASE pass \in UserPasses
    <3>1. SameGids /\ pass' # "failed"
      BY <1>4, <2>2, UserPassesKeep DEF UserPasses
    <3>2. CASE u \in DOMAIN passwd /\ passwd'[u] = passwd[u]
      <4>1. EntryOrigin(u)
        BY <2>2, <3>2 DEF UsersInv
      <4> QED
        BY <1>c, <3>1, <3>2, <4>1 DEF EntryOrigin, SameGids
    <3>3. CASE UserPut /\ u = line.user
      <4>1. line.group \in DOMAIN group
        BY <3>3, GroupThere DEF UserPut
      <4>2. line \in UserLines /\ passwd'[u].gid = group[line.group].gid
        BY <1>3, <3>3 DEF NewEntry
      <4> QED
        BY <1>c, <3>1, <3>3, <4>1, <4>2 DEF EntryOrigin, SameGids
    <3> QED
      BY <1>3, <3>1, <3>2, <3>3, UserPutOrKept
  <2> QED
    BY <2>1, <2>2
<1>5. ASSUME pass' = "fixed_users", NEW u \in DOMAIN passwd' PROVE UidOrigin(u)'
  <2>0. pass' \in UserPasses
    BY <1>5 DEF UserPasses
  <2>1. CASE pass \notin UserPasses
    BY <1>2, <1>c, <2>0, <2>1 DEF UidOrigin
  <2>2. CASE pass \in UserPasses
    <3>1. pass = "fixed_users" /\ pass' # "failed"
      BY <1>5, <2>2 DEF Next, vars, NextPass, Following, Passes, NextLine, Fail, AddGroup,
                        AddExtraGroup, ExtraGroupsAdded, AddUser, AddMember, UserPasses
    <3>2. CASE u \in DOMAIN passwd /\ passwd'[u] = passwd[u]
      <4>1. UidOrigin(u)
        BY <3>1, <3>2 DEF UsersInv
      <4> QED
        BY <1>c, <3>2, <4>1 DEF UidOrigin
    <3>3. CASE UserPut /\ u = line.user
      <4>1. line \in UserLines /\ passwd'[u].uid = Uid(line)
        BY <1>3, <3>3 DEF NewEntry
      <4>2. Uid(line) = line.uid
        BY <3>1, <3>3 DEF UserPut, Concerns, Uid, Automatic
      <4> QED
        BY <1>c, <3>3, <4>1, <4>2 DEF UidOrigin
    <3> QED
      BY <1>3, <3>1, <3>2, <3>3, UserPutOrKept
  <2> QED
    BY <2>1, <2>2
<1> QED
  BY <1>1, <1>4, <1>5 DEF UsersInv

LEMMA FailsStep ==
  UidInv /\ GroupsInv /\ UsersInv /\ FailsForAReason /\ [Next]_vars => FailsForAReason'
<1> SUFFICES ASSUME UidInv, GroupsInv, UsersInv, FailsForAReason, [Next]_vars, pass' = "failed"
             PROVE  \/ Exhausted' \/ GroupsDisagree'
                    \/ \E l \in UserLines' : LineReason(l)'
  BY DEF FailsForAReason, LineReason
<1> TypeOK
  BY DEF UidInv
<1>c. /\ skeleton' = skeleton /\ UserLines' = UserLines /\ Entries' = Entries
      /\ GroupsDisagree' = GroupsDisagree
  BY InputKept, ReasonsKept
<1>l. \A l : LineReason(l)' <=> LineReason(l)
  BY <1>c DEF LineReason, UserTaken
<1>1. CASE pass = "failed"
  <2>1. UNCHANGED vars
    BY <1>1 DEF Next, NextPass, NextLine, AtLine, AddGroup, AddExtraGroup, ExtraGroupsAdded,
                AddUser, AddMember, Passes
  <2>2. Exhausted' = Exhausted
    BY <2>1 DEF vars, Exhausted, get_username, get_group
  <2> QED
    BY <1>1, <1>c, <1>l, <2>2 DEF FailsForAReason, LineReason
<1>2. CASE pass # "failed"
  <2>0. ASSUME UNCHANGED passwd, Fail, Exhausted PROVE Exhausted'
    BY <2>0 DEF Fail, Exhausted, get_username, get_group
  <2>1. CASE AddGroup
    <3>1. Fail /\ UNCHANGED passwd /\ generate_gid(line.group) = NoId
      BY <1>2, <2>1 DEF AddGroup
    <3> QED
      BY <2>0, <3>1, NoGidFree DEF Exhausted
  <2>2. CASE AddExtraGroup
    <3>1. Fail /\ UNCHANGED passwd /\ generate_gid(line.groups[sub + 1]) = NoId
      BY <1>2, <2>2 DEF AddExtraGroup
    <3> QED
      BY <2>0, <3>1, NoGidFree DEF Exhausted
  <2>3. CASE AddUser
    <3>0. AtLine /\ pass \in UserPasses /\ Concerns(pass, line)
      BY <2>3 DEF AddUser
    <3>u. /\ line \in UserLines /\ line.uid \in Int
          /\ line.uid >= 0 \/ line.uid = Automatic
      BY <3>0, UserLine
    <3>1. CASE Invalid(line)
      <4>1. GroupsDisagree \/ LineReason(line)
        BY <3>0, <3>1, InvalidForAReason
      <4> QED
        BY <1>c, <1>l, <3>u, <4>1
    <3>2. CASE ~Invalid(line) /\ Uid(line) = NoId
      <4>1. Fail /\ UNCHANGED passwd
        BY <2>3, <3>2 DEF AddUser
      <4>2. line.uid = Automatic
        BY <3>2, <3>u DEF Uid, NoId, Automatic
      <4>3. generate_uid(line.user) = NoId
        BY <3>2, <4>2 DEF Uid
      <4> QED
        BY <2>0, <4>1, <4>3, NoUidFree DEF Exhausted
    <3>3. CASE line.home \in {"slash", "relative"}
      <4>1. LineReason(line)
        BY <3>3 DEF LineReason, BadLine
      <4> QED
        BY <1>c, <1>l, <3>u, <4>1
    <3>4. Invalid(line) \/ Uid(line) = NoId \/ line.home \in {"slash", "relative"}
      BY <1>2, <2>3 DEF AddUser
    <3> QED
      BY <3>1, <3>2, <3>3, <3>4
  <2>4. ~NextPass /\ ~NextLine /\ ~ExtraGroupsAdded /\ ~AddMember /\ ~(UNCHANGED vars)
    BY <1>2 DEF NextPass, Following, Passes, NextLine, ExtraGroupsAdded, AddMember, vars
  <2> QED
    BY <2>1, <2>2, <2>3, <2>4 DEF Next
<1> QED
  BY <1>1, <1>2

LEMMA FailsInit ==
  ASSUME SkeletonGidsUnique
  PROVE  Init => GroupsInv /\ UsersInv /\ FailsForAReason
<1> SUFFICES ASSUME Init PROVE GroupsInv /\ UsersInv /\ FailsForAReason
  OBVIOUS
<1>1. /\ pass = "fixed_groups" /\ at = 1 /\ skeleton \in Skeletons
      /\ group = skeleton.group /\ passwd = skeleton.passwd
  BY DEF Init
<1>2. table \in Seq(Line)
  BY TablesAssumption DEF Init
<1>3. \A i \in DOMAIN table : table[i].gid >= 0 => ~Placed(i)
  BY <1>1, <1>2 DEF Placed
<1>4. \A g, h \in DOMAIN group : group[g].gid = group[h].gid => g = h
  BY <1>1 DEF SkeletonGidsUnique
<1>5. GroupsInv
  BY <1>1, <1>3, <1>4 DEF GroupsInv, GidOrigin, SkeletonGid
<1> QED
  BY <1>1, <1>5 DEF UsersInv, UserPasses, FailsForAReason

(* mkusers refuses a table only when a line is malformed, lines contradict  *)
(* each other or the skeleton, or no id is left: the order of the passes   *)
(* never makes it refuse one that could be carried out.  Of the skeleton   *)
(* it needs that no two of its groups share a gid.                         *)
THEOREM RefusesForAReason ==
  ASSUME SkeletonGidsUnique
  PROVE  Spec => []FailsForAReason
<1>1. Init => UidInv /\ GroupsInv /\ UsersInv /\ FailsForAReason
  BY UidInit, FailsInit
<1>2. UidInv /\ GroupsInv /\ UsersInv /\ FailsForAReason /\ [Next]_vars
      => (UidInv /\ GroupsInv /\ UsersInv /\ FailsForAReason)'
  BY UidStep, GroupsInvStep, UsersInvStep, FailsStep
<1> QED
  BY <1>1, <1>2, PTL DEF Spec
=============================================================================
