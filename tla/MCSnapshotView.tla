--------------------------- MODULE MCSnapshotView ---------------------------
EXTENDS SnapshotView

At(path, query, frag) == [path |-> path, raw |-> FALSE, query |-> query, frag |-> frag]

\* An image with two versions and a fragment, a style sheet that refers to it, an
\* icon whose path has a space, and two other images that a LIKE pattern takes for the
\* first one: "img-23" for img%23%, and by case "IMG?v1" for img?%.  The rows 2 and 5
\* hold equal content.
MCUrlOf == <<At("img-23", Null, Null), At("img", "v1", Null), At("img", "v2", Null),
             At("IMG", "v1", Null), At("img", Null, "f"), At("css", Null, Null),
             At("icon", Null, Null), At("img", Null, Null)>>
MCLike23 == {<<At("img", Null, Null), At("img-23", Null, Null)>>}
MCLikeCase == {<<At("img", Null, Null), At("IMG", "v1", Null)>>}
MCFileOf == <<"file23", "fileA", "fileB", "fileI", "fileA", "fileC", "fileD", "fileE">>
MCSubUrl == [r \in 1 .. 8 |-> IF r = 6 THEN At("img", "v3", Null) ELSE Null]
MCRes == 1 .. 8
MCAsked == {At("img", "v3", Null), At("img", "v2", "g"), At("img", Null, Null),
            At("css", Null, Null), [At("icon", Null, Null) EXCEPT !.raw = TRUE]}
MCLinksOf == [s \in Snap |-> CASE s = "s1" -> {2, 3, 6}
                              [] s = "s2" -> {1, 2, 7, 8}
                              [] s = "s3" -> {1, 3, 4, 5, 6}]
MCShared == [t \in Token |-> [page |-> "p1", snap |-> "s1"]]
=============================================================================
