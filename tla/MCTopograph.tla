---------------------------- MODULE MCTopograph -----------------------------
EXTENDS Topograph

Object(t, monads, f) == [ot |-> t, monads |-> monads, f |-> f]

MCCandidates ==
    {Object("Word", {1}, "a"), Object("Word", {2, 3}, "b"), Object("Word", {4}, "a"),
     Object("Word", {2}, "a"), Object("Word", {3}, "b"),
     Object("Word", {6}, "b"), Object("Word", {5, 6}, "a"),
     Object("Phrase", {1, 2}, "a"), Object("Phrase", {1, 4}, "b"),
     Object("Phrase", {2, 3, 4, 5}, "a"), Object("Phrase", {2, 3, 5, 6}, "b"),
     Object("Phrase", {6}, "a")}

MCSubstrates == {1 .. 6, {1, 2, 3, 5, 6}, {2, 3, 4}}

String(s) == [unordered |-> FALSE, alts |-> <<s>>]
Or(s, t) == [unordered |-> FALSE, alts |-> <<s, t>>]
Unordered(s) == [unordered |-> TRUE, alts |-> <<s>>]

W == [Block("object") EXCEPT !.ot = "Word"]
P == [Block("object") EXCEPT !.ot = "Phrase"]
Wa == [W EXCEPT !.want = "a"]
Wb == [W EXCEPT !.want = "b"]
Pa == [P EXCEPT !.want = "a"]
Within(b, bs) == [b EXCEPT !.inner = <<bs>>]
NotExist(b) == [b EXCEPT !.kind = "notexist", !.retrieve = FALSE]
Rel(b, rel, ms) == [b EXCEPT !.rel = rel, !.ms = ms]
Star(b, star) == [b EXCEPT !.star = star]
Excl(b) == [b EXCEPT !.excl = TRUE]
Hidden(b) == [b EXCEPT !.retrieve = FALSE]
At(b, fl) == [b EXCEPT !.fl = fl]
Gap == Block("gap")
OptGap == Block("optgap")
Power(low, high) == [Block("power") EXCEPT !.low = low, !.high = high]
AnyPower == Block("power")
Group(bs) == [Block("group") EXCEPT !.alts = bs.alts]

MCTopographs == <<
    String(<<W, W>>),
    String(<<Within(P, String(<<Wa>>))>>),
    String(<<Within(P, String(<<Within(P, String(<<Wb>>)), Wa>>))>>),
    String(<<Within(P, String(<<At(W, "first"), Excl(W), At(W, "last")>>))>>),
    String(<<Within(Pa, String(<<W, AnyPower, P>>))>>),
    String(<<W, Power(0, 1), P>>),
    String(<<Within(P, String(<<W, Within(Gap, String(<<W>>)), Hidden(W)>>))>>),
    String(<<Rel(P, "overlap", "substrate")>>),
    String(<<Within(Rel(P, "starts_in", "substrate"), String(<<Rel(W, "overlap", "universe")>>))>>),
    String(<<NotExist(Wa), P>>),
    String(<<W, NotExist(P)>>),
    String(<<Within(P, String(<<NotExist(Wb)>>))>>),
    String(<<Star(W, 2 .. 3), P>>),
    String(<<Star(W, {0, 2}), P>>),
    Or(<<W, W>>, <<P, OptGap, Wb>>),
    String(<<Excl(Group(Or(<<W>>, <<P>>))), W>>),
    Unordered(<<W, Within(P, Unordered(<<Wa, Wb>>))>>),
    String(<<W, AnyPower, Group(Or(<<Wa>>, <<P, W>>))>>),
    String(<<Within(Rel(P, "overlap", "substrate"), String(<<W>>))>>),
    String(<<W, Within(OptGap, String(<<W>>)), P>>),
    String(<<NotExist(Wb), NotExist(Pa), W>>),
    String(<<W, AnyPower, Star(Wa, {0, 1}), NotExist(Pa)>>),
    String(<<NotExist(Within(P, String(<<Wa>>))), W>>),
    String(<<Star(Group(String(<<W, AnyPower, P>>)), 1 .. 2)>>),
    Or(<<W>>, <<Within(P, String(<<Rel(W, "overlap", "universe")>>))>>),
    String(<<W, NotExist(Rel(P, "overlap", "substrate"))>>) >>

MCQueries ==
    [q \in DOMAIN MCTopographs |-> [blocks |-> MCTopographs[q], max_range |-> IF q = 6 THEN 1 ELSE MAX_MONAD]]

\* A query with an object that overlaps after a power block, for which
\* PowerSeparates does not hold.
MCPowerQuery ==
    <<[blocks |-> String(<<W, Power(1, 3), Rel(P, "overlap", "substrate")>>),
       max_range |-> MAX_MONAD]>>
=============================================================================
