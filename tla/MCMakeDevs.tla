----------------------------- MODULE MCMakeDevs -----------------------------
(***************************************************************************)
(* Instances of MkUsers and MakeDevs for TLC.  All users tables of up to    *)
(* three lines drawn from a small set, on three skeletons, with two ids to  *)
(* compute and one beyond, are followed by one device table; and one of     *)
(* them by all device tables of up to three lines.                         *)
(***************************************************************************)
EXTENDS MakeDevs

CONSTANTS root, ann, bob, users, wheel

MCUsers  == {root, ann, bob}
MCGroups == {root, users, wheel}

User(u, uid, g, gid, gs, home) ==
    [user |-> u, uid |-> uid, group |-> g, gid |-> gid, groups |-> gs, home |-> home]

AnnAtHome == User(ann, -1, users, -1, <<>>, "absolute")
MCLines ==
    {User(u, uid, users, gid, <<>>, "absolute") :
        u \in {ann, bob}, uid \in {-1, 1, 5}, gid \in {-1, 2}}
    \cup {User(ann, -1, wheel, -1, <<users>>, "none"), User(bob, 2, wheel, 1, <<users, wheel>>, "none"),
          User(bob, -1, wheel, -1, <<wheel>>, "absolute"),
          User(NoUser, -1, wheel, -1, <<>>, "none"), User(NoUser, -1, wheel, 2, <<>>, "none"),
          User(NoUser, -1, users, 10, <<>>, "none"),
          User(root, -1, root, -1, <<>>, "none"), User(ann, 0, users, -1, <<>>, "none"),
          User(ann, -2, users, -1, <<>>, "none"), User(bob, -1, users, -2, <<>>, "none"),
          User(bob, -1, users, -1, <<>>, "relative")}

MCTables == UNION {[1 .. n -> MCLines] : n \in 0 .. 3}

Bare == [passwd |-> root :> [uid |-> 0, gid |-> 0],
         group |-> root :> [gid |-> 0, members |-> {}],
         hasGshadow |-> FALSE, gshadow |-> <<>>]
WithWheel == [Bare EXCEPT !.group = @ @@ (wheel :> [gid |-> 10, members |-> {root}])]
WithAnn == [passwd |-> Bare.passwd @@ (ann :> [uid |-> 2, gid |-> 10]),
            group |-> WithWheel.group @@ (users :> [gid |-> 1, members |-> {ann}]),
            hasGshadow |-> TRUE,
            gshadow |-> (root :> {}) @@ (wheel :> {root}) @@ (users :> {})]
MCSkeletons == {Bare, WithWheel, WithAnn}
ASSUME MCSkeletonGidsUnique == SkeletonGidsUnique

MCFileNames == {"bin", "su", "dev", "hda", "pts", "home", "ann", "bob", "root"}
P(n) == <<Part(n)>>
Q(n, m) == <<Part(n), Part(m)>>
MCFiles == (P("bin") :> Attributes("dir", "755", 7, 7, 0, 0))
           @@ (Q("bin", "su") :> Attributes("file", "755", 7, 7, 0, 0))
           @@ (P("dev") :> Attributes("dir", "755", 7, 7, 0, 0))
           @@ (P("home") :> Attributes("dir", "755", 7, 7, 0, 0))
           @@ (Q("home", "ann") :> Attributes("dir", "755", 7, 7, 0, 0))
           @@ (Q("home", "ann") \o P("su") :> Attributes("file", "640", 7, 7, 0, 0))
MCHome == (root :> P("root")) @@ (ann :> Q("home", "ann")) @@ (bob :> Q("home", "bob"))

Device(type, name, mode, u, g) ==
    [type |-> type, name |-> name, mode |-> mode, user |-> u, group |-> g,
     major |-> 3, minor |-> 0, start |-> 0, increment |-> 0, count |-> 0]
Su == Device("f", Q("bin", "su"), "4755", root, users)
Disk == Device("b", Q("dev", "hda"), "640", 0, 0)
Batch == [Disk EXCEPT !.minor = 1, !.start = 1, !.increment = 2, !.count = 2]
MCDeviceLines ==
    {Su, Device("f", Q("bin", "su"), Keep, ann, users), Device("F", Q("bin", "hda"), "755", 0, 0),
     Device("f", P("dev"), "755", 0, 0), Device("F", P("dev"), "700", ann, users), Device("r", P("home"), "700", 7, 7),
     Device("r", P("home"), "700", bob, 0), Device("r", P("dev"), Keep, ann, 0),
     Device("d", Q("dev", "pts") \o P("hda"), Keep, ann, users), Device("d", Q("bin", "su"), "700", 0, 0),
     Device("d", Q("bin", "su") \o P("hda"), "755", 0, 0),
     Device("d", Q("home", "ann") \o Q("dev", "pts"), "755", 0, 0),
     Disk, Batch, [Batch EXCEPT !.start = 2, !.minor = 0], Device("c", Q("dev", "pts"), "666", 0, wheel),
     Device("other", P("dev"), "755", 0, 0), [type |-> "xattr", cap |-> "x"], [type |-> "xattr", cap |-> "y"],
     [type |-> "invalid"], [type |-> "comment"]}
MCModes == {"755", "4755", "640", "666", "700"}
AnnsHome == Device("d", Q("home", "ann"), "700", ann, users)
MCDeviceTables ==
    [t \in MCTables |-> IF t = <<AnnAtHome>> THEN UNION {[1 .. n -> MCDeviceLines] : n \in 0 .. 3}
                        ELSE {<<Su, AnnsHome>>}]
=============================================================================
