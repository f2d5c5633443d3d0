----------------------------- MODULE Topograph ------------------------------
(***************************************************************************)
(* How a topographic MQL query is executed: compiling (weed, type), the    *)
(* choice of a strategy, the prefetching of an inst for every object block *)
(* (aggregateQuery), the start monads at which a block string is tried     *)
(* (getSMI) and the matching itself (the R_ functions of mql_R.cpp).       *)
(*                                                                         *)
(* Sets of monads are plain sets: SetOfMonads.tla shows that the class     *)
(* implements them.  A list of straws is the set of its straws: its order, *)
(* and a straw found twice, are not told apart.  An object is its type,    *)
(* its monads and the value of one feature.                                *)
(*                                                                         *)
(* A blocks is a record [unordered, alts]: alts is the sequence of the     *)
(* alternatives of a block string with OR, each a sequence of blocks; an   *)
(* unordered group has one alternative.  The blocks within an object block *)
(* or a gap are inner: << >> or << a blocks >>.                            *)
(***************************************************************************)
EXTENDS Integers, Sequences, FiniteSets, FiniteSetsExt, Functions

CONSTANTS
    MaxMonad,       \* the largest monad of the model (bound)
    MaxObjects,     \* how many objects a database has (bound)
    Candidates,     \* the objects that may be created
    IsMultiple,     \* the object types WITH MULTIPLE RANGE OBJECTS
    Queries,        \* the sequence of queries
    Substrates      \* the sets of monads given in IN

VARIABLES
    db,             \* the objects
    run             \* the query that is executed

vars == <<db, run>>

MAX_MONAD == MaxMonad + 1

First(S) == IF S = {} THEN MAX_MONAD ELSE Min(S)
Last(S) == IF S = {} THEN 0 ELSE Max(S)
Hull(S) == First(S)..Last(S)
getGaps(S) == Hull(S) \ S

\* A gap of fewer than n monads is filled.
fillGaps(S, n) ==
    S \cup {m \in getGaps(S) : \E l, r \in S : l < m /\ m < r /\ r - l - 1 < n}

R_restrict(S, m) == {x \in S : x >= m}

\* The monads all_m_1: between min_m and max_m.
all_m_1 == Hull(UNION {o.monads : o \in db})

getLargestObjectLength(t) ==
    Last({Last(o.monads) - First(o.monads) + 1 : o \in {x \in db : x.ot = t}})

-----------------------------------------------------------------------------
(* Compiling                                                               *)

RECURSIVE NonNOTEXIST(_)
NonNOTEXIST(b) ==
    IF b.kind = "group"
      THEN \E j \in DOMAIN b.alts : \E i \in DOMAIN b.alts[j] : NonNOTEXIST(b.alts[j][i])
      ELSE b.kind # "notexist"

hasOnlyNOTEXIST(alts) ==
    \A j \in DOMAIN alts : \A i \in DOMAIN alts[j] : ~NonNOTEXIST(alts[j][i])

\* Whether a NOTEXIST block comes after another kind of block of the block
\* string.  The flag goes from left to right, through the groups and, never
\* reset, from one alternative of an OR to the next.
RECURSIVE WeedAlts(_, _, _), Weed(_)
WeedAlts(alts, met, only) ==
    [j \in DOMAIN alts |-> [i \in DOMAIN alts[j] |->
       LET seen == \/ met
                   \/ \E k \in 1 .. (j - 1) : \E x \in DOMAIN alts[k] : NonNOTEXIST(alts[k][x])
                   \/ \E x \in 1 .. (i - 1) : NonNOTEXIST(alts[j][x])
       IN  [alts[j][i] EXCEPT
              !.after = seen, !.only = only,
              !.alts = WeedAlts(@, seen, only),
              !.inner = [k \in DOMAIN @ |-> Weed(@[k])]]]]

Weed(bs) == [bs EXCEPT !.alts = WeedAlts(@, FALSE, hasOnlyNOTEXIST(@))]

GapOrPower == {"gap", "optgap", "power"}

Block(kind) ==
    [kind |-> kind, ot |-> "", rel |-> "part_of", ms |-> "substrate",
     fl |-> "none", want |-> "any", inner |-> <<>>, alts |-> <<>>,
     star |-> {}, low |-> 0, high |-> MaxMonad, excl |-> FALSE,
     retrieve |-> TRUE, after |-> FALSE, only |-> FALSE, inst |-> {},
     cs |-> {}, bad |-> FALSE, implied |-> FALSE]

NoRetrieveOptGap == [Block("optgap") EXCEPT !.retrieve = FALSE, !.implied = TRUE]

\* Every block of a blocks, groups left to F.
MapAlts(alts, F(_)) ==
    [j \in DOMAIN alts |-> [i \in DOMAIN alts[j] |-> F(alts[j][i])]]
MapBlocks(bs, F(_)) == [bs EXCEPT !.alts = MapAlts(@, F)]
MapInner(inner, F(_)) == [k \in DOMAIN inner |-> F(inner[k])]

BlocksOf(alts) == UNION {Range(alts[j]) : j \in DOMAIN alts}

\* In a context of multiple ranges an optional gap is put between two
\* neighbours without "!", unless one of them is a gap or a power block.
RECURSIVE TypeBlock(_, _)
TypeString(s, multi) ==
    LET typed[i \in DOMAIN s] ==
          IF i = 1 THEN <<TypeBlock(s[1], multi)>>
            ELSE typed[i - 1]
                 \o (IF /\ multi /\ ~s[i - 1].excl
                        /\ {s[i - 1].kind, s[i].kind} \cap GapOrPower = {}
                       THEN <<NoRetrieveOptGap>> ELSE <<>>)
                 \o <<TypeBlock(s[i], multi)>>
    IN  typed[Len(s)]

TypeBlocks(bs, multi) ==
    IF bs.unordered
      THEN MapBlocks(bs, LAMBDA b : TypeBlock(b, multi))
      ELSE [bs EXCEPT !.alts = [j \in DOMAIN @ |-> TypeString(@[j], multi)]]

TypeBlock(b, multi) ==
    [b EXCEPT
       !.alts = [j \in DOMAIN @ |-> TypeString(@[j], multi)],
       !.inner = MapInner(@, LAMBDA bs : TypeBlocks(bs, b.ot \in IsMultiple))]

Compile(q) == TypeBlocks(Weed(q), TRUE)

-----------------------------------------------------------------------------
(* Prefetching                                                             *)

RECURSIVE HasObjectBlock(_)
HasObjectBlock(b) ==
    IF b.kind = "group" THEN \E x \in BlocksOf(b.alts) : HasObjectBlock(x)
                        ELSE b.kind = "object"

\* The strategy "innermost first" needs an object block in every tail of
\* every block string, a constraint on every innermost object block, and
\* neither NOTEXIST, star nor blocks within a gap.
RECURSIVE InnermostBlock(_), InnermostBlocks(_)
InnermostBlock(b) ==
    /\ b.star = {}
    /\ CASE b.kind = "group" -> InnermostBlocks(b)
         [] b.kind = "object" -> IF b.inner = <<>> THEN b.want # "any"
                                                   ELSE InnermostBlocks(b.inner[1])
         [] b.kind = "notexist" -> FALSE
         [] b.kind \in {"gap", "optgap"} -> b.inner = <<>>
         [] b.kind = "power" -> TRUE

InnermostBlocks(bs) ==
    \A j \in DOMAIN bs.alts : \A i \in DOMAIN bs.alts[j] :
       /\ InnermostBlock(bs.alts[j][i])
       /\ \E k \in i .. Len(bs.alts[j]) : HasObjectBlock(bs.alts[j][k])

ObjectsFor(b) == {o \in db : o.ot = b.ot /\ b.want \in {"any", o.f}}

\* The monads f..l are not asked for in SQL if they come within a fifth of the
\* whole text of both its ends; objects are then thrown away as they are read.
bUseMonadConstraints(f, l) ==
    LET fifth == (Last(all_m_1) - First(all_m_1)) \div 5
    IN  f > First(all_m_1) + fifth \/ l < Last(all_m_1) - fifth

bDoAdd(b, o, f, l) ==
    /\ First(o.monads) >= f
    /\ (IF b.rel = "part_of" THEN Last(o.monads) ELSE First(o.monads)) <= l

doGetInst(b, f, l) ==
    {o \in ObjectsFor(b) : IF bUseMonadConstraints(f, l) THEN First(o.monads) \in f .. l
                                                         ELSE bDoAdd(b, o, f, l)}

R_inst(b, CS, op) ==
    IF op = "overlap"
      THEN {o \in ObjectsFor(b) :
              o.monads \cap (IF b.ms = "universe" THEN Hull(CS) ELSE CS) # {}}
      ELSE doGetInst(b, First(CS), Last(CS))

Monads(inst) == UNION {o.monads : o \in inst}

\* Mutant of bigUnion: the last monad is left out.
bigUnionShort(inst) == First(Monads(inst)) .. (Last(Monads(inst)) - 1)
bigUnion(inst) == Hull(Monads(inst))
almostRealBigUnion(inst) == UNION {Hull(o.monads) : o \in inst}

RECURSIVE OutermostFirst(_, _)

\* Every object block gets the inst for CS, its inner blocks that for the
\* range of its inst.  SetOfMonads(first, last) throws for the universe of an
\* empty CS (bad).
WithInst(b, CS, inst) ==
    [b EXCEPT
       !.inst = inst,
       !.bad = b.ms = "universe" /\ CS = {},
       !.inner = MapInner(@, LAMBDA bs :
                    MapBlocks(bs, LAMBDA x : OutermostFirst(x, bigUnion(inst))))]

OutermostFirst(b, CS) ==
    IF b.kind \in {"object", "notexist"}
      THEN WithInst(b, CS, R_inst(b, CS, b.rel))
      ELSE [b EXCEPT
              !.alts = MapAlts(@, LAMBDA x : OutermostFirst(x, CS)),
              !.inner = IF CS = {} THEN @
                          ELSE MapInner(@, LAMBDA bs :
                                  MapBlocks(bs, LAMBDA x : OutermostFirst(x, CS)))]

CSOf(alts) == UNION {b.cs : b \in BlocksOf(alts)}

\* The innermost object blocks get the objects that overlap Su, the others
\* those that overlap what was found within them (cs); gaps shorter than the
\* longest object on the way down are filled.
RECURSIVE InnermostFirst(_, _, _)
Fetched(b, CS, inst, lola) ==
    [b EXCEPT !.inst = inst, !.cs = CS \cup fillGaps(almostRealBigUnion(inst), lola)]

FetchWithin(b, inner, lola) ==
    LET CS == fillGaps(CSOf(inner.alts), lola)
    IN  Fetched([b EXCEPT !.inner = <<inner>>], CS, R_inst(b, CS, "overlap"), lola)

FetchObjects(b, Su, lola) ==
    IF b.inner = <<>>
      THEN Fetched(b, {}, R_inst(b, fillGaps(Su, lola), "overlap"), lola)
      ELSE FetchWithin(b, MapBlocks(b.inner[1], LAMBDA x : InnermostFirst(x, Su, lola)), lola)

FetchGroup(b, alts) == [b EXCEPT !.alts = alts, !.cs = CSOf(alts)]

InnermostFirst(b, Su, above) ==
    CASE b.kind = "object" -> FetchObjects(b, Su, Max({above, getLargestObjectLength(b.ot)}))
      [] b.kind = "group" -> FetchGroup(b, MapAlts(b.alts, LAMBDA x : InnermostFirst(x, Su, above)))
      [] OTHER -> b

aggregateQuery(bs, Su) ==
    IF InnermostBlocks(bs)
      THEN MapBlocks(bs, LAMBDA b : InnermostFirst(b, Su, 0))
      ELSE MapBlocks(bs, LAMBDA b : OutermostFirst(b, Su))

RECURSIVE Throws(_)
Throws(b) ==
    \/ b.bad
    \/ \E x \in BlocksOf(b.alts) : Throws(x)
    \/ \E k \in DOMAIN b.inner : \E x \in BlocksOf(b.inner[k].alts) : Throws(x)

-----------------------------------------------------------------------------
(* Start monads: the monads an iterator gives (starts), the set that       *)
(* getSu() answers (su), and whether making the iterator throws            *)
(* BadMonadsException (bad), as a range whose ends are exchanged does.  A  *)
(* context c is the universe U, the substrate Su and the largest range mr  *)
(* of a power block.                                                       *)

MonadSetSMI(S, Sm) == [su |-> S, starts |-> R_restrict(S, Sm), bad |-> FALSE]

\* Mutant of InstSMI: the keys start after Sm.
InstSMIAfter(inst, Uping, Suping, Sm) ==
    LET keys == {m \in {First(o.monads) : o \in inst} : m >= First(Uping)}
    IN  [su |-> Suping, bad |-> FALSE,
         starts |-> {m \in keys : m > Sm /\ (m <= Last(Uping) \/ m = First(keys))}]

\* The iterator starts at the first key in the universe, and goes on to the
\* keys from Sm on; only the keys after the first are compared with the end
\* of the universe.
InstSMI(inst, Uping, Suping, Sm) ==
    LET keys == {m \in {First(o.monads) : o \in inst} : m >= First(Uping)}
    IN  [su |-> Suping, bad |-> FALSE,
         starts |-> {m \in keys : m >= Sm /\ (m <= Last(Uping) \/ m = First(keys))}]

\* Mutant of ObjectStarts: one start monad for NOTEXIST, whoever asks.
ObjectStartsOne(b, Suping, lower, cameFromBlockString) ==
    CASE b.kind = "object" -> InstSMI(b.inst, Hull(Suping), Suping, lower)
      [] b.kind = "notexist" /\ b.only -> MonadSetSMI({lower}, lower)
      [] OTHER -> MonadSetSMI(Suping, lower)

ObjectStarts(b, Suping, lower, cameFromBlockString) ==
    CASE b.kind = "object" -> InstSMI(b.inst, Hull(Suping), Suping, lower)
      [] b.kind = "notexist" /\ b.only /\ cameFromBlockString -> MonadSetSMI({lower}, lower)
      [] OTHER -> MonadSetSMI(Suping, lower)

\* The ranges that are added to the substrate, or that it is intersected with.
Ranges(b, Su, lower, upper) ==
    CASE b.rel = "overlap" /\ Su # {} -> {<<lower, First(Su)>>, <<Last(Su), upper>>}
      [] b.rel # "overlap" /\ Su = {} -> {}
      [] OTHER -> {<<lower, upper>>}

Spanned(ranges) == UNION {r[1] .. r[2] : r \in ranges}

SMIBetween(c, b, lower, upper, cameFromBlockString) ==
    LET ranges == Ranges(b, c.Su, lower, upper)
        Suping == IF b.rel = "overlap" THEN c.Su \cup Spanned(ranges)
                                       ELSE c.Su \cap Spanned(ranges)
    IN  [ObjectStarts(b, Suping, lower, cameFromBlockString) EXCEPT
           !.bad = \E r \in ranges : r[1] > r[2]]

\* Where an object block may start: in Su from Sm on or, as an object that
\* overlaps Su may start before it, as far back as the longest object goes.
ObjectBlockSMI(c, Sm, b, cameFromBlockString) ==
    SMIBetween(c, b,
        IF b.rel = "overlap" THEN Max({1, Sm - getLargestObjectLength(b.ot)})
                             ELSE Max({First(all_m_1), Sm}),
        IF c.Su = {} THEN Last(all_m_1) ELSE Min({Last(all_m_1), Last(c.Su)}),
        cameFromBlockString)

RECURSIVE BlockStringSMI(_, _, _)
BlockString1SMI(c, Sm, b) ==
    CASE 0 \in b.star -> MonadSetSMI(c.Su, Sm)
      [] 0 \notin b.star /\ b.kind = "group" -> BlockStringSMI(c, Sm, b.alts)
      [] 0 \notin b.star /\ b.kind = "optgap" -> MonadSetSMI(c.U, Sm)
      [] 0 \notin b.star /\ b.kind = "gap" -> MonadSetSMI(getGaps(c.Su), Sm)
      [] OTHER -> ObjectBlockSMI(c, Sm, b, TRUE)

\* With OR, all monads of the sets of the alternatives, whatever Sm is.
BlockStringSMI(c, Sm, alts) ==
    IF Len(alts) = 1
      THEN BlockString1SMI(c, Sm, alts[1][1])
      ELSE LET smis == {BlockString1SMI(c, Sm, alts[j][1]) : j \in DOMAIN alts}
               su == UNION {i.su : i \in smis}
           IN  [su |-> su, starts |-> su, bad |-> \E i \in smis : i.bad]

-----------------------------------------------------------------------------
(* Matching                                                                *)

\* A straw has its matched objects and its last monad.  A set of straws with
\* Thrown is none: an exception was thrown on the way to it.
Empty(Sm) == [mos |-> <<>>, last |-> Sm - 1]
Thrown == [mos |-> <<>>, last |-> -1]
StrawOf(o, sheaf, ret) ==
    [mos |-> <<[of |-> o, sheaf |-> sheaf, ret |-> ret]>>, last |-> Last(o.monads)]
Prepend(s, t) == [mos |-> s.mos \o t.mos, last |-> t.last]

\* The straws of pairs of a straw and what is found after it.
PrependAll(s, found) ==
    IF s = Thrown \/ Thrown \in found THEN {Thrown} ELSE {Prepend(s, t) : t \in found}
Continued(pairs) == UNION {PrependAll(p[1], p[2]) : p \in pairs}

Filtered(straws) ==
    {SelectSeq(s.mos, LAMBDA mo : mo.ret) : s \in straws} \ {<<>>}

GapObject(monads) == [ot |-> "gap", monads |-> monads, f |-> "any"]

MSRCExec(b, monads, c) ==
    LET S == IF b.ms = "universe" THEN c.U ELSE c.Su
    IN  CASE b.rel = "part_of" -> monads \subseteq S
          [] b.rel = "overlap" -> monads \cap S # {}
          [] b.rel = "starts_in" -> First(monads) \in S

FirstLastObeyed(b, monads, c) ==
    /\ b.fl \in {"first", "both"} => First(monads) = First(c.Su)
    /\ b.fl \in {"last", "both"} => Last(monads) = Last(c.Su)

RECURSIVE R_blocks(_, _), R_block_string(_, _, _)

\* The sheaf of the blocks inside an object or a gap.
R_opt_blocks(b, monads) ==
    IF b.inner = <<>>
      THEN [failed |-> FALSE, threw |-> FALSE, straws |-> {}]
      ELSE R_blocks([U |-> Hull(monads), Su |-> monads, mr |-> MAX_MONAD], b.inner[1])

\* The straws of the objects that were tried, each with the sheaf within it.
ObjectStraws(tried, b) ==
    IF \E t \in tried : t[2].threw
      THEN {Thrown}
      ELSE {StrawOf(t[1], t[2].straws, b.retrieve) : t \in {u \in tried : ~u[2].failed}}

R_object_block(c, Sm, b) ==
    LET objects == {o \in b.inst : /\ First(o.monads) = Sm
                                   /\ FirstLastObeyed(b, o.monads, c)
                                   /\ MSRCExec(b, o.monads, c)}
    IN  ObjectStraws({<<o, R_opt_blocks(b, o.monads)>> : o \in objects}, b)

\* Nothing is found at any monad, or an exception comes before something is.
NothingFound(found, Sm) ==
    LET there == {m \in DOMAIN found : found[m] # {}}
    IN  IF there = {} THEN {Empty(Sm)} ELSE found[First(there)] \cap {Thrown}

\* A NOTEXIST block after other blocks looks from Sm on, and otherwise
\* everywhere in the context, up to the first object it finds.
R_NOTEXIST(c, Sm, b) ==
    LET d == IF b.after THEN [c EXCEPT !.U = R_restrict(@, Sm), !.Su = R_restrict(@, Sm)]
                        ELSE c
        from == IF b.after THEN Sm ELSE First(c.U)
        smi == ObjectBlockSMI(d, from, b, FALSE)
    IN  IF smi.bad THEN {Thrown}
          ELSE NothingFound([m \in smi.starts |-> R_object_block(d, m, b)], Sm)

gapExists(Su, Sm) == Sm \in getGaps(Su) /\ Sm - 1 \in Su
GapAt(Su, Sm) == Sm .. (First(R_restrict(Su, Sm)) - 1)

R_gap(c, Sm, b) ==
    IF gapExists(c.Su, Sm)
      THEN LET somn == GapAt(c.Su, Sm)
           IN  ObjectStraws({<<GapObject(somn), R_opt_blocks(b, somn)>>}, b)
      ELSE IF b.kind = "optgap" THEN {Empty(Sm)} ELSE {}

R_block_string0(c, Sm, b) ==
    CASE b.kind = "group" -> R_block_string(c, Sm, b.alts)
      [] b.kind = "object" -> R_object_block(c, Sm, b)
      [] b.kind = "notexist" -> R_NOTEXIST(c, Sm, b)
      [] OTHER -> R_gap(c, Sm, b)

\* The repetitions of a block without a star are one.  The loop of the code
\* ends when no straw is left or the count is past the set; the straws of a
\* count that is not in the set are not kept.
R_block_string1(c, Sm, b) ==
    LET star == IF b.star = {} THEN {1} ELSE b.star
        los[n \in 0 .. Max(star)] ==
          IF n = 0 THEN {Empty(Sm)}
            ELSE Continued({<<s, R_block_string0(c, s.last + 1, b)>> : s \in los[n - 1]})
    IN  UNION {los[n] : n \in star}

\* After the straw s, a power block p lets the next block start at upperLimit at
\* the latest.
skipHigh(c, p) == Min({p.high, c.mr})
skipFrom(c, s, p) == s.last + 1 + Min({p.low, skipHigh(c, p)})

\* Mutant of upperLimit: one monad too many may be skipped.
upperLimitPlusOne(c, s, p) == Min({s.last + 2 + skipHigh(c, p), Last(c.Su)})
upperLimit(c, s, p) == Min({s.last + 1 + skipHigh(c, p), Last(c.Su)})

\* Mutant of nothingLeft: blocks are looked for behind the end of the context.
somethingLeft(c, m) == FALSE
nothingLeft(c, m) == R_restrict(c.U, m) = {} \/ R_restrict(c.Su, m) = {}

\* Where the block b that follows may start.
PowerSMI(c, s, p, b) ==
    LET smi == BlockString1SMI(c, skipFrom(c, s, p), b)
    IN  IF nothingLeft(c, skipFrom(c, s, p)) THEN MonadSetSMI({}, s.last)
          ELSE [smi EXCEPT !.starts = {m \in @ : m <= upperLimit(c, s, p)}]

\* The straws of the first i blocks of s.
R_block_string2(c, Sm, s) ==
    LET SMIAfter(t, i) ==
          IF i > 1 /\ s[i - 1].kind = "power"
            THEN PowerSMI(c, t, s[i - 1], s[i])
            ELSE MonadSetSMI({t.last + 1}, t.last)
        Found(smi, i) == IF smi.bad THEN {Thrown}
                           ELSE UNION {R_block_string1(c, m, s[i]) : m \in smi.starts}
        los[i \in 0 .. Len(s)] ==
          CASE i = 0 -> {Empty(Sm)}
            [] i > 0 /\ s[i].kind = "power" -> los[i - 1]
            [] OTHER -> Continued({<<t, Found(SMIAfter(t, i), i)>> : t \in los[i - 1]})
    IN  los[Len(s)]

R_block_string(c, Sm, alts) ==
    UNION {R_block_string2(c, Sm, alts[j]) : j \in DOMAIN alts}

\* All blocks of an unordered group must be found.
GroupSheaf(los) ==
    [failed |-> \E i \in DOMAIN los : los[i] = {},
     threw |-> \E i \in DOMAIN los : Thrown \in los[i],
     straws |-> {s.mos : s \in UNION Range(los)}]

R_unordered_group(c, blocks) ==
    LET Found(smi, b) == IF smi.bad THEN {Thrown}
                           ELSE UNION {R_object_block(c, m, b) : m \in smi.starts}
        los == [i \in DOMAIN blocks |->
                  Found(ObjectBlockSMI(c, First(c.Su), blocks[i], TRUE), blocks[i])]
    IN  GroupSheaf(los)

BlocksSheaf(los) == [failed |-> los = {}, threw |-> Thrown \in los, straws |-> Filtered(los)]

R_blocks(c, bs) ==
    IF bs.unordered
      THEN R_unordered_group(c, bs.alts[1])
      ELSE LET Found(smi) == IF smi.bad THEN {Thrown}
                               ELSE UNION {R_block_string(c, m, bs.alts) : m \in smi.starts}
           IN  BlocksSheaf(Found(BlockStringSMI(c, First(c.Su), bs.alts)))

-----------------------------------------------------------------------------
(* Executing a query: myMonads and myExec, then R_topograph with one step  *)
(* per start monad.  A callback may stop the query when the sheaf starts   *)
(* and after every list of straws it is given.                             *)

Idle == [phase |-> "idle"]

Init == db = {} /\ run = Idle

CreateObject(o) ==
    /\ run.phase = "idle"
    /\ o \notin db /\ Cardinality(db) < MaxObjects
    /\ db' = db \cup {o}
    /\ UNCHANGED run

Context(r) == [U |-> Hull(r.Su), Su |-> r.Su, mr |-> Queries[r.q].max_range]

Started(q, Su, plan) ==
    [phase |-> "matching", q |-> q, Su |-> Su, plan |-> plan, todo |-> {},
     found |-> {}, failed |-> FALSE, stopped |-> FALSE]

\* A query in monads of which the database has none fails at once.
ExecuteInNothing(q, S) ==
    /\ run.phase = "idle"
    /\ S \cap all_m_1 = {}
    /\ run' = [Started(q, {}, Queries[q].blocks) EXCEPT !.phase = "done", !.failed = TRUE]
    /\ UNCHANGED db

\* The callback stops the query: a failed sheaf.
Stop(r) == [r EXCEPT !.phase = "done", !.failed = TRUE, !.stopped = TRUE]

\* BadMonadsException ends the query without a sheaf: myExec does not catch it.
Throw(r) == [r EXCEPT !.phase = "threw"]

PrefetchThrows(r) == \E b \in BlocksOf(r.plan.alts) : Throws(b)

\* The query is compiled, the insts are fetched, and the start monads are
\* known.  The callback hears of the sheaf before the start monads are known.
Begin(r) ==
    \/ PrefetchThrows(r) /\ run' = Throw(r)
    \/ /\ ~PrefetchThrows(r)
       /\ IF r.plan.unordered THEN run' = r
            ELSE \E smi \in {BlockStringSMI(Context(r), First(r.Su), r.plan.alts)} :
                    \/ run' = IF smi.bad THEN Throw(r) ELSE [r EXCEPT !.todo = smi.starts]
                    \/ run' = Stop([r EXCEPT !.todo = smi.starts])

Execute(q, S) ==
    /\ run.phase = "idle"
    /\ S \cap all_m_1 # {}
    /\ Begin(Started(q, S \cap all_m_1,
                     aggregateQuery(Compile(Queries[q].blocks), S \cap all_m_1)))
    /\ UNCHANGED db

Matching == run.phase = "matching"

NextStartMonad ==
    /\ Matching /\ run.todo # {}
    /\ \E los \in {R_block_string(Context(run), Min(run.todo), run.plan.alts)} :
          LET r == [run EXCEPT !.todo = @ \ {Min(@)}, !.found = @ \cup los]
          IN  \/ run' = IF Thrown \in los THEN Throw(run) ELSE r
              \/ los # {} /\ Thrown \notin los /\ run' = Stop(r)
    /\ UNCHANGED db

Finish ==
    /\ Matching /\ ~run.plan.unordered /\ run.todo = {}
    /\ run' = [run EXCEPT !.phase = "done", !.failed = run.found = {}]
    /\ UNCHANGED db

\* A topograph that is an unordered group: the callback hears only its end.
MatchUnorderedGroup ==
    /\ Matching /\ run.plan.unordered
    /\ LET sheaf == R_unordered_group(Context(run), run.plan.alts[1])
       IN  run' = IF sheaf.threw THEN Throw(run)
                    ELSE [run EXCEPT !.phase = "done", !.failed = sheaf.failed,
                            !.found = {[mos |-> mos, last |-> 0] : mos \in sheaf.straws}]
    /\ UNCHANGED db

\* The next statement.
Return ==
    /\ run.phase \in {"done", "threw"}
    /\ run' = Idle
    /\ UNCHANGED db

Next ==
    \/ \E o \in Candidates : CreateObject(o)
    \/ \E q \in DOMAIN Queries, S \in Substrates : ExecuteInNothing(q, S) \/ Execute(q, S)
    \/ NextStartMonad \/ Finish \/ MatchUnorderedGroup \/ Return

Spec == Init /\ [][Next]_vars

-----------------------------------------------------------------------------
(* What a query means: the spans of monads its blocks match, wherever they *)
(* start.  No strategy, no insts, no start monads.                         *)

Span(from, straw) == [from |-> from, mos |-> straw.mos, last |-> straw.last]
Join(S, T, Reach(_, _)) ==
    {Span(s.from, Prepend(s, t)) : <<s, t>> \in {p \in S \X T : Reach(p[1].last + 1, p[2].from)}}

RECURSIVE SpansOfAlts(_, _, _), Meaning(_, _)

InnerMeaning(b, monads) ==
    IF b.inner = <<>>
      THEN [failed |-> FALSE, straws |-> {}]
      ELSE Meaning([U |-> Hull(monads), Su |-> monads, mr |-> MAX_MONAD], b.inner[1])

\* The objects of set O, each with the meaning of the blocks in it.
SpansOf(O, b) ==
    LET tried == {<<o, InnerMeaning(b, o.monads)>> : o \in O}
    IN  {Span(First(t[1].monads), StrawOf(t[1], t[2].straws, b.retrieve)) :
           t \in {u \in tried : ~u[2].failed}}

Sought(c, b) ==
    {o \in ObjectsFor(b) : MSRCExec(b, o.monads, c) /\ FirstLastObeyed(b, o.monads, c)}

GapStarts(Su) == {m \in getGaps(Su) : m - 1 \in Su}

After(c, m) == [c EXCEPT !.U = R_restrict(@, m), !.Su = R_restrict(@, m)]

\* met: a block that is not NOTEXIST comes before it in its block string.
SpansOfBlock(c, met, b) ==
    CASE b.kind = "group" -> SpansOfAlts(c, met, b.alts)
      [] b.kind = "notexist" ->
           {Span(m, Empty(m)) : m \in
              {x \in 1 .. MAX_MONAD :
                 SpansOf(Sought(IF met THEN After(c, x) ELSE c, b), b) = {}}}
      [] b.kind \in {"object", "gap", "optgap"} ->
           SpansOf(IF b.kind = "object" THEN Sought(c, b)
                     ELSE {GapObject(GapAt(c.Su, m)) : m \in GapStarts(c.Su)}, b)
           \cup {Span(m, Empty(m)) : m \in
                   {x \in 1 .. MAX_MONAD : b.kind = "optgap" /\ x \notin GapStarts(c.Su)}}

Starred(b, S) ==
    LET star == IF b.star = {} THEN {1} ELSE b.star
        powers[n \in 1 .. Max(star)] ==
          IF n = 1 THEN S ELSE Join(powers[n - 1], S, LAMBDA m, k : m = k)
    IN  (IF 0 \in b.star THEN {Span(m, Empty(m)) : m \in 1 .. MAX_MONAD} ELSE {})
        \cup UNION {powers[n] : n \in star \ {0}}

SpansOfString(c, met, s) ==
    LET Near(i, m, n) == /\ n - m \in s[i].low .. Min({s[i].high, c.mr})
                         /\ n <= Last(c.Su)
        metBefore(i) == \/ met
                        \/ \E k \in 1 .. (i - 1) : NonNOTEXIST(s[k]) /\ ~s[k].implied
        spans[i \in DOMAIN s] ==
          IF s[i].kind = "power" THEN spans[i - 1]
            ELSE LET S == Starred(s[i], SpansOfBlock(c, metBefore(i), s[i]))
                 IN  IF i = 1 THEN S
                       ELSE Join(spans[i - 1], S, LAMBDA m, n :
                              IF s[i - 1].kind = "power" THEN Near(i - 1, m, n) ELSE m = n)
    IN  spans[Len(s)]

SpansOfAlts(c, met, alts) == UNION {SpansOfString(c, met, alts[j]) : j \in DOMAIN alts}

Meaning(c, bs) ==
    IF bs.unordered
      THEN LET S == [i \in DOMAIN bs.alts[1] |->
                       SpansOf(Sought(c, bs.alts[1][i]), bs.alts[1][i])]
           IN  [failed |-> \E i \in DOMAIN S : S[i] = {},
                straws |-> {s.mos : s \in UNION Range(S)}]
      ELSE LET S == SpansOfAlts(c, FALSE, bs.alts)
           IN  [failed |-> S = {}, straws |-> Filtered(S)]

Typed(r) == TypeBlocks(Queries[r.q].blocks, TRUE)
MeaningOf(r) == Meaning(Context(r), Typed(r))
Matches(r) == SpansOfAlts(Context(r), FALSE, Typed(r).alts)

\* The straws a caller has seen.
Sheaf(r) == IF r.plan.unordered THEN {s.mos : s \in r.found} ELSE Filtered(r.found)

Ended == run.phase = "done" /\ run.Su # {}

\* Whatever the strategy, the insts and the start monads are, a query finds
\* only what it means ...
NothingInvented ==
    Ended /\ ~run.failed => Sheaf(run) \subseteq MeaningOf(run).straws

\* ... and all of it.
NothingMissed ==
    Ended /\ ~run.stopped /\ ~run.failed => MeaningOf(run).straws \subseteq Sheaf(run)

\* The sheaf is a failed one only if nothing matches or the callback stopped
\* the query.
FailsForNoMatch ==
    Ended /\ ~run.stopped => (run.failed <=> MeaningOf(run).failed)

\* A caller that stops has been given every match that can only start before
\* the start monad that would have been next.
DeliveredInOrder ==
    run.phase \in {"matching", "done"} /\ run.Su # {} /\ ~run.plan.unordered =>
       LET matches == Matches(run)
           found == Filtered(run.found)
       IN  Filtered(matches) \ Filtered({s \in matches : s.from >= First(run.todo)})
              \subseteq found

\* A block, not the first of its block string, that looks with overlap: it can
\* be asked for at a monad far behind the beginning of the context.
OverlapBehind(s) == \E i \in 2 .. Len(s) : s[i].rel = "overlap"

\* A block that looks in the universe of a set without monads: the objects it is
\* within are none.
UniverseOfNothing(c, b) ==
    /\ b.inner # <<>>
    /\ \E x \in BlocksOf(b.inner[1].alts) : x.ms = "universe"
    /\ Sought(c, b) = {}

\* The bounds between which objects are looked for are not exchanged, however
\* near the end of the text or of an object a block is asked for:
\* BadMonadsException ends a query only for one of two reasons.
RangesInOrder ==
    run.phase = "threw" =>
       LET alts == Queries[run.q].blocks.alts
       IN  \/ \E s \in Range(alts) : OverlapBehind(s)
           \/ \E b \in BlocksOf(alts) : UniverseOfNothing(Context(run), b)

\* A query can be run when no object of a block was found, as the comment at
\* mql_query.cpp:4412 says of the insts of the blocks in it.  The code does not
\* keep to it: the universe of no object throws.
RunsWithEmptyInsts == run.phase = "threw" => ~PrefetchThrows(run)

\* NEWS:1243 says of [foo] .. BETWEEN 1 AND 3 [bar] that it finds the bars that
\* are separated from a foo by that many monads: two objects side by side in a
\* straw, with a power block between them, are as far apart as it says.  They
\* are not if the second one looks with overlap.
PowerSeparates ==
    \A q \in DOMAIN Queries :
       LET s == Queries[q].blocks.alts[1]
       IN  run.phase = "done" /\ run.q = q /\ Len(s) = 3 /\ s[2].kind = "power" =>
              \A t \in run.found :
                 First(t.mos[2].of.monads) - Last(t.mos[1].of.monads) - 1
                    \in s[2].low .. s[2].high
=============================================================================
