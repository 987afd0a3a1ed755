--------------------------- MODULE MCVersionUpgrade ---------------------------
(* A small update graph for VersionUpgrade. *)
EXTENDS VersionUpgrade

\* 1.0, 1.1, 2.0 and 2.1; the second channel has the first minor version's releases as
\* a step to the second minor version, and a release 2.1 with known risks.
MCMinor == <<1, 1, 2, 2>>
MCChannels == {"stable-1", "stable-2"}
MCGraph == [c \in Channels |-> IF c = "stable-1" THEN {<<1, 2>>}
                               ELSE {<<1, 3>>, <<2, 3>>, <<1, 4>>}]

\* The installed release again, the others in the channel they are in, and one in a
\* channel it is not in.
UC(v, c) == [version |-> v, channel |-> c, image |-> None]
ByVersion == {UC(v, "stable-1") : v \in 1..2} \cup {UC(v, "stable-2") : v \in 2..4}
ByImage == {[version |-> None, channel |-> "stable-1", image |-> 3]}
AnyWay == ByVersion \cup ByImage

=============================================================================
