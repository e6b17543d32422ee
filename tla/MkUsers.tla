------------------------------- MODULE MkUsers -------------------------------
(***************************************************************************)
(* support/scripts/mkusers: adds the users of a table to the passwd, group *)
(* and gshadow files of a root filesystem, which the skeleton has filled   *)
(* already.  It goes over the table five times: groups with a fixed gid,   *)
(* groups with an automatic one, additional groups, users with a fixed uid *)
(* and users with an automatic one.                                        *)
(*                                                                         *)
(* Passwords, shells and comments are left out, and so is shadow, in which *)
(* nothing but the password differs from passwd; and so are the order of a *)
(* group's members and the commas between them.                            *)
(***************************************************************************)
EXTENDS Integers, Sequences

CONSTANTS
    Users, Groups,     \* names
    Root,              \* the user no table may name
    NoUser,            \* "-", in a line that only creates a group
    Tables,            \* the tables considered, sequences of lines
    Skeletons,         \* the files found in the root filesystem
    MIN_UID, MAX_UID, MIN_GID, MAX_GID

Automatic == -1  \* a uid or gid to be computed
NoId == -1  \* there is none left

Homes == {"none", "slash", "absolute", "relative"}
Line == [user : Users \cup {NoUser}, uid : Int, group : Groups, gid : Int,
         groups : Seq(Groups), home : Homes]

(* What is in a file under a name: the maps of SUBSET Names to Values. *)
IsFile(f, Names, Values) ==
    /\ DOMAIN f \subseteq Names
    /\ \A n \in DOMAIN f : f[n] \in Values

ASSUME NamesAssumption == Root \in Users /\ NoUser \notin Users
ASSUME RangesAssumption ==
    /\ MIN_UID \in Nat \ {0} /\ MAX_UID \in Nat
    /\ MIN_GID \in Nat \ {0} /\ MAX_GID \in Nat
ASSUME TablesAssumption == Tables \subseteq Seq(Line)
ASSUME SkeletonsAssumption ==
    \A s \in Skeletons :
        /\ IsFile(s.passwd, Users, [uid : Nat, gid : Nat])
        /\ IsFile(s.group, Groups, [gid : Nat, members : SUBSET Users])
        /\ s.hasGshadow \in BOOLEAN
        /\ IsFile(s.gshadow, Groups, SUBSET Users)
        /\ \A u, v \in DOMAIN s.passwd : s.passwd[u].uid = s.passwd[v].uid => u = v

(* The groups of the skeleton differ in their gids, as those of             *)
(* system/skeleton/etc/group do; only FailsForAReason depends on it.       *)
SkeletonGidsUnique ==
    \A s \in Skeletons : \A g, h \in DOMAIN s.group :
        s.group[g].gid = s.group[h].gid => g = h

VARIABLES
    skeleton, table, \* the input
    passwd, group, gshadow,
    hasGshadow,      \* /etc/gshadow exists
    chowned,         \* the chown commands for the fakeroot script
    pass,            \* the loop of main
    at,              \* the line it is at
    sub              \* within the line: 0, or the additional group it is at

vars == <<skeleton, table, passwd, group, gshadow, hasGshadow, chowned, pass, at, sub>>
input == <<skeleton, table, hasGshadow>>

(* printf >> file, of an entry that was removed before. *)
Put(f, n, v) == [m \in DOMAIN f \cup {n} |-> IF m = n THEN v ELSE f[m]]

get_username(uid) == {u \in DOMAIN passwd : passwd[u].uid = uid}
get_group(gid)    == {g \in DOMAIN group : group[g].gid = gid}
Lowest(free) ==
    LET least == {i \in free : \A j \in free : i <= j}
    IN  IF least = {} THEN NoId ELSE CHOOSE i \in least : TRUE

generate_gid(g) ==
    IF g \in DOMAIN group THEN group[g].gid
    ELSE Lowest({i \in MIN_GID .. MAX_GID : get_group(i) = {}})

MutGenerateUidOfGroup(u) == \* asks the wrong file what is in use
    IF u \in DOMAIN passwd THEN passwd[u].uid
    ELSE Lowest({i \in MIN_UID .. MAX_UID : get_group(i) = {}})

MutGenerateUidAnew(u) == \* does not ask whether the user has one
    Lowest({i \in MIN_UID .. MAX_UID : get_username(i) = {}})

generate_uid(u) ==
    IF u \in DOMAIN passwd THEN passwd[u].uid
    ELSE Lowest({i \in MIN_UID .. MAX_UID : get_username(i) = {}})

(* What check_user_validity refuses; with the groups as they are in the     *)
(* files now, after those of the table were put there.                     *)
Invalid(l) ==
    \/ l.user = Root
    \/ l.gid < Automatic \/ l.gid = 0
    \/ /\ l.gid # Automatic
       /\ \/ get_group(l.gid) \notin {{}, {l.group}}
          \/ l.group \in DOMAIN group /\ group[l.group].gid # l.gid
          \/ l.user \in DOMAIN passwd /\ passwd[l.user].gid # l.gid
    \/ l.uid < Automatic \/ l.uid = 0
    \/ /\ l.uid # Automatic
       /\ \/ get_username(l.uid) \notin {{}, {l.user}}
          \/ l.user \in DOMAIN passwd /\ passwd[l.user].uid # l.uid
    \/ l.user \in DOMAIN passwd /\ get_group(passwd[l.user].gid) \notin {{}, {l.group}}

Passes == {"fixed_groups", "auto_groups", "extra_groups", "fixed_users", "auto_users"}
GroupPasses == {"fixed_groups", "auto_groups"}
UserPasses == {"fixed_users", "auto_users"}

MutFollowing == \* additional groups are created when the users are there
    [p \in Passes |-> CASE p = "fixed_groups" -> "auto_groups"
                        [] p = "auto_groups"  -> "fixed_users"
                        [] p = "fixed_users"  -> "auto_users"
                        [] p = "auto_users"   -> "extra_groups"
                        [] OTHER              -> "done"]

MutFollowingAuto == \* users in the order of computing, then those with a uid
    [p \in Passes |-> CASE p = "fixed_groups" -> "auto_groups"
                        [] p = "auto_groups"  -> "extra_groups"
                        [] p = "extra_groups" -> "auto_users"
                        [] p = "auto_users"   -> "fixed_users"
                        [] OTHER              -> "done"]

Following ==
    [p \in Passes |-> CASE p = "fixed_groups" -> "auto_groups"
                        [] p = "auto_groups"  -> "extra_groups"
                        [] p = "extra_groups" -> "fixed_users"
                        [] p = "fixed_users"  -> "auto_users"
                        [] OTHER              -> "done"]

(* The lines that a pass does not leave out with "continue".  A uid or gid  *)
(* below -1 is in no pass.                                                 *)
Concerns(p, l) ==
    \/ p = "fixed_groups" /\ l.gid >= 0
    \/ p = "auto_groups"  /\ l.gid = Automatic
    \/ p = "extra_groups" /\ l.groups # <<>>
    \/ p = "fixed_users"  /\ l.user # NoUser /\ l.uid >= 0
    \/ p = "auto_users"   /\ l.user # NoUser /\ l.uid = Automatic

Init ==
    /\ skeleton \in Skeletons /\ table \in Tables
    /\ passwd = skeleton.passwd /\ group = skeleton.group
    /\ gshadow = skeleton.gshadow /\ hasGshadow = skeleton.hasGshadow
    /\ chowned = {}
    /\ pass = "fixed_groups" /\ at = 1 /\ sub = 0

line == table[at]
AtLine == pass \in Passes /\ at <= Len(table)

NextPass ==
    /\ pass \in Passes /\ at > Len(table)
    /\ pass' = Following[pass] /\ at' = 1
    /\ UNCHANGED <<input, passwd, group, gshadow, chowned, sub>>

NextLine ==
    /\ AtLine
    /\ \/ sub = 0 /\ ~Concerns(pass, line)
       \/ pass \in UserPasses /\ sub > Len(line.groups)
    /\ at' = at + 1 /\ sub' = 0
    /\ UNCHANGED <<input, passwd, group, gshadow, chowned, pass>>

Fail ==
    /\ pass' = "failed"
    /\ UNCHANGED <<input, group, gshadow, chowned, at, sub>>

add_one_group(g, gid) ==
    LET new     == IF gid = Automatic THEN generate_gid(g) ELSE gid
        members == IF g \in DOMAIN group THEN group[g].members ELSE {}
    IN  /\ group' = Put(group, g, [gid |-> new, members |-> members])
        /\ gshadow' = IF hasGshadow THEN Put(gshadow, g, {}) ELSE gshadow

(* The main group of a line. *)
AddGroup ==
    /\ AtLine /\ pass \in GroupPasses /\ Concerns(pass, line)
    /\ IF line.gid = Automatic /\ generate_gid(line.group) = NoId
       THEN Fail /\ UNCHANGED passwd
       ELSE /\ add_one_group(line.group, line.gid)
            /\ at' = at + 1
            /\ UNCHANGED <<input, passwd, chowned, pass, sub>>

(* One of its additional groups, with whatever gid it has or gets. *)
AddExtraGroup ==
    /\ AtLine /\ pass = "extra_groups" /\ Concerns(pass, line)
    /\ sub < Len(line.groups)
    /\ IF generate_gid(line.groups[sub + 1]) = NoId
       THEN Fail /\ UNCHANGED passwd
       ELSE /\ add_one_group(line.groups[sub + 1], Automatic)
            /\ sub' = sub + 1
            /\ UNCHANGED <<input, passwd, chowned, pass, at>>

ExtraGroupsAdded ==
    /\ AtLine /\ pass = "extra_groups" /\ sub > 0 /\ sub = Len(line.groups)
    /\ at' = at + 1 /\ sub' = 0
    /\ UNCHANGED <<input, passwd, group, gshadow, chowned, pass>>

Uid(l) == IF l.uid = Automatic THEN generate_uid(l.user) ELSE l.uid

(* A user; one with this name that is there already is removed first. *)
AddUser ==
    /\ AtLine /\ pass \in UserPasses /\ Concerns(pass, line) /\ sub = 0
    /\ IF Invalid(line) \/ Uid(line) = NoId
       THEN Fail /\ UNCHANGED passwd
       ELSE IF line.home \in {"slash", "relative"}
       THEN Fail /\ passwd' = [u \in DOMAIN passwd \ {line.user} |-> passwd[u]]
       ELSE LET entry == [uid |-> Uid(line), gid |-> group[line.group].gid]
            IN  /\ passwd' = Put(passwd, line.user, entry)
                /\ chowned' = IF line.home = "none" THEN chowned
                              ELSE chowned \cup {[user |-> line.user, to |-> entry]}
                /\ sub' = 1
                /\ UNCHANGED <<input, group, gshadow, pass, at>>

add_user_to_group(u, g) ==
    /\ group' = [group EXCEPT ![g].members = @ \cup {u}]
    /\ gshadow' = IF hasGshadow THEN [gshadow EXCEPT ![g] = @ \cup {u}] ELSE gshadow

AddMember ==
    /\ AtLine /\ pass \in UserPasses /\ Concerns(pass, line)
    /\ sub \in 1 .. Len(line.groups)
    /\ add_user_to_group(line.user, line.groups[sub])
    /\ sub' = sub + 1
    /\ UNCHANGED <<input, passwd, chowned, pass, at>>

Next == NextPass \/ NextLine \/ AddGroup \/ AddExtraGroup \/ ExtraGroupsAdded
        \/ AddUser \/ AddMember
Spec == Init /\ [][Next]_vars

-----------------------------------------------------------------------------

TypeOK ==
    /\ skeleton \in Skeletons /\ table \in Tables
    /\ IsFile(passwd, Users, [uid : Nat, gid : Nat])
    /\ IsFile(group, Groups, [gid : Nat, members : SUBSET Users])
    /\ IsFile(gshadow, Groups, SUBSET Users)
    /\ hasGshadow \in BOOLEAN
    /\ chowned \subseteq [user : Users, to : [uid : Nat, gid : Nat]]
    /\ pass \in Passes \cup {"done", "failed"}
    /\ at \in Nat \ {0} /\ sub \in Nat

Entries == {table[i] : i \in DOMAIN table}
UserLines == {l \in Entries : l.user # NoUser /\ l.uid >= Automatic}

(* mkusers lines 117-119: no two users ever share a uid, whichever of the   *)
(* table, the skeleton and the computation it comes from.                  *)
UidsUnique ==
    \A u, v \in DOMAIN passwd : passwd[u].uid = passwd[v].uid => u = v

(* docs/manual/makeusers-syntax.txt: when mkusers succeeds, every line has  *)
(* the ids it asks for, its group is the user's main group, and one whose  *)
(* gid was asked for shares it with no other.                              *)
IdsAsAsked ==
    pass = "done" => \A l \in UserLines :
        /\ l.uid # Automatic => passwd[l.user].uid = l.uid
        /\ passwd[l.user].gid = group[l.group].gid
        /\ l.gid # Automatic => get_group(l.gid) = {l.group}

(* Lines 361-365: the homes belong to the ids their users have in the end.  *)
HomesOwned ==
    pass = "done" => \A c \in chowned : passwd[c.user] = c.to

(* The additional groups of a line, all groups that add_one_group is called *)
(* for, and the users that lines put in a group.                           *)
AdditionalGroups(l) == {l.groups[j] : j \in DOMAIN l.groups}
Added ==
    {l.group : l \in {m \in Entries : m.gid >= Automatic}}
    \cup UNION {AdditionalGroups(l) : l \in Entries}
AskedFor(g) == {l.user : l \in {m \in UserLines : g \in AdditionalGroups(m)}}
HadBefore(g) == UNION {skeleton.group[h].members : h \in DOMAIN skeleton.group \cap {g}}

(* Lines 229-238, 267-282 and 406-416: in the end each group has the        *)
(* members that the lines and the skeleton give it, and no others.  For    *)
(* gshadow, which "must be in sync with /etc/group" (lines 38-39), this is  *)
(* so of the lines only: add_one_group fetches the members there were from *)
(* group and writes them back to group alone, so a group that any line     *)
(* names loses the members that the skeleton's gshadow gave it.            *)
MembersListed ==
    pass = "done" =>
        /\ DOMAIN group = DOMAIN skeleton.group \cup Added
        /\ \A g \in DOMAIN group : group[g].members = AskedFor(g) \cup HadBefore(g)
        /\ hasGshadow =>
              /\ DOMAIN gshadow = DOMAIN skeleton.gshadow \cup Added
              /\ \A g \in DOMAIN gshadow :
                    gshadow[g] = IF g \in Added THEN AskedFor(g) ELSE skeleton.gshadow[g]

(* What a table that mkusers accepts asks for is what there is in the end.  *)
AsAsked == IdsAsAsked /\ MembersListed

(***************************************************************************)
(* The reasons there are to refuse a table.                                *)
(***************************************************************************)
BadLine(l) ==
    l.user = Root \/ l.uid = 0 \/ l.gid < Automatic \/ l.gid = 0 \/ l.home \in {"slash", "relative"}

(* Two ids that differ although both were asked for. *)
Differ(i, j) == i >= 0 /\ j >= 0 /\ i # j

(* Two lines ask for different things of a user, or for the same uid. *)
UsersContradict(l, m) ==
    \/ l.user = m.user /\ (Differ(l.uid, m.uid) \/ l.group # m.group)
    \/ l.user # m.user /\ l.uid = m.uid /\ l.uid >= 0

(* A user or its uid is in the skeleton already, as something else; or the *)
(* gid the user has there is not what the table gives to its group.        *)
UserTaken(l) ==
    LET p == skeleton.passwd
        g == skeleton.group
    IN  \/ l.user \in DOMAIN p /\ Differ(l.uid, p[l.user].uid)
        \/ \E v \in DOMAIN p \ {l.user} : l.uid = p[v].uid
        \/ l.user \in DOMAIN p /\ p[l.user].gid \notin
              {g[h].gid : h \in DOMAIN g \cap {l.group}}
        \/ l.user \in DOMAIN p /\ \E m \in Entries :
              m.group = l.group /\ Differ(m.gid, p[l.user].gid)

(* Two lines, of users or only of groups, disagree about a gid. *)
GroupsContradict(l, m) ==
    \/ l.group = m.group /\ Differ(l.gid, m.gid)
    \/ l.group # m.group /\ l.gid = m.gid /\ l.gid >= 0

(* The gid a line asks for is another group's in the skeleton. *)
GidTaken(l) == \E h \in DOMAIN skeleton.group \ {l.group} : l.gid = skeleton.group[h].gid

GroupsDisagree == \E l \in Entries : GidTaken(l) \/ \E m \in Entries : GroupsContradict(l, m)

Exhausted ==
    \/ \A i \in MIN_UID .. MAX_UID : get_username(i) # {}
    \/ \A i \in MIN_GID .. MAX_GID : get_group(i) # {}

(* Lines 387-390 and 418-421: the order of the passes lets a table in which *)
(* one line fixes what another one leaves open succeed.  mkusers fails only *)
(* when a line is malformed, contradicts another or the skeleton, or no id *)
(* is left.                                                                *)
FailsForAReason ==
    pass = "failed" =>
        \/ Exhausted
        \/ GroupsDisagree
        \/ \E l \in UserLines :
              BadLine(l) \/ UserTaken(l) \/ \E m \in UserLines : UsersContradict(l, m)
=============================================================================
