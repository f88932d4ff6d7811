------------------------ MODULE FirewallRules_proofs ------------------------
(* The properties of FirewallRules, for any addresses, applications and      *)
(* sizes of the tables.                                                      *)
EXTENDS FirewallRules, FiniteSetTheorems, WellFoundedInduction, TLAPS

RuleIds == 1 .. Len(rules)

\* The address that a row is about.
AddrOf(row) == rules[row.rule]

\* The switch is between the block list and the table.
Switching(action) ==
    main.at \in {"read", "replace"} /\ main.op = "switch" /\ main.action = action

\* What the main thread is doing.  The rule it found or made is that of the
\* address, or two made a rule for it at the same time, or none was made.
MainJob ==
    /\ main.at \in {"idle", "read", "replace", "guess", "insert", "find", "create",
                    "list", "unlist"}
    /\ main.at = "idle" => main = Idle
    /\ main.at # "idle" => loaded /\ main.addr \in Addrs /\ main.app \in Apps
    /\ main.at \in {"read", "replace"} => main.op \in {"switch", "add"} /\ main.action \in Actions
    /\ main.at \in {"guess", "insert", "find", "create", "list"} => main.op = "add"
    /\ main.op = "add" => main.action = "deny"
    /\ main.at = "insert" => main.rule \in 1 .. Len(rules) + 1
    /\ main.at \in {"read", "replace", "find", "create", "list"} =>
          \/ main.rule \in RuleIds /\ rules[main.rule] = main.addr
          \/ /\ main.rule \in RuleIds /\ main.op = "add"
             /\ main.addr \in raced /\ rules[main.rule] \in raced
          \/ main.rule \in lost /\ main.op = "add" /\ Pair \in unsaved
    /\ main.at = "replace" => main.id \in RowsOf(main.app, main.rule)

\* What the executor is doing.  The row it read is still that of its app and
\* its rule, unless it was deleted.
TaskJob ==
    /\ task.at \in {"idle", "insert", "scan", "create", "read", "replace"}
    /\ task.at # "idle" => task.addr \in Addrs
    /\ task.at \in {"create", "read", "replace"} => task.app \in Apps
    /\ task.at \in {"scan", "create", "read", "replace"} => task.rule \in RuleIds
    /\ task.at = "replace" =>
          /\ task.id \in 1 .. lastConn
          /\ task.action \in Actions
          /\ task.id \in RowsOf(task.app, task.rule) \/ conns[task.id] = NoRow

\* An address has one rule and an app one row for it, unless two wrote or the
\* id was used before.
Tables ==
    /\ \A c \in ConnIds : conns[c] # NoRow => c <= lastConn
    /\ \A r, s \in RuleIds : rules[r] = rules[s] => r = s \/ rules[r] \in raced
    /\ \A c, d \in ConnIds :
          conns[c] # NoRow /\ conns[c].app = conns[d].app /\ conns[c].rule = conns[d].rule =>
              c = d \/ conns[c].rule \in lost \/ AddrOf(conns[c]) \in raced

\* Without the tables there is nothing on the screens and in the list.
Loaded ==
    /\ ~loaded => screen = {} /\ covered = <<>> /\ \A p \in Pairs : blocking[p] = 0
    /\ \A p \in Pairs : blocking[p] > 1 => p \in doubled

DenyKept ==
    /\ \A p \in denied : Blocked(p) \/ (Switching("allow") /\ p = Pair)
    /\ Switching("deny") => Blocked(Pair)

\* AgreeDeny in the middle of a command.
DenyAgrees ==
    /\ loaded => \A c \in DenyRows :
          \/ Disturbed(AddrOf(conns[c]))
          \/ Blocked(PairOf(conns[c]))
          \/ PairOf(conns[c]) \in unsaved
          \/ PairOf(conns[c]) = Pair /\ (Switching("allow") \/ main.op = "add")
    /\ main.at = "unlist" =>
          \A c \in DenyRows : PairOf(conns[c]) = Pair => Disturbed(main.addr)

\* AgreeAllow in the middle of a command.
AllowAgrees ==
    /\ \A p \in Pairs : Blocked(p) =>
          \/ Disturbed(p[1])
          \/ p \in doubled
          \/ p \in unsaved
          \/ \E c \in DenyRows : PairOf(conns[c]) = p
          \/ p = Pair /\ (Switching("deny") \/ main.at = "unlist" \/ main.op = "add")
    /\ Switching("allow") /\ Blocked(Pair) => Pair \in doubled
    /\ main.at = "list" =>
          \/ Disturbed(main.addr)
          \/ Pair \in unsaved
          \/ \E c \in DenyRows : PairOf(conns[c]) = Pair

\* The rows on the screens have rules, and connections unless another screen
\* was above them.
ScreensShow ==
    /\ \A row \in screen :
          /\ RulesOf(row.addr) # {}
          /\ \/ stale \/ main.at = "unlist" \/ row.addr \in raced
             \/ \E c \in ConnIds : conns[c].app = row.app /\ conns[c].rule \in RulesOf(row.addr)
    /\ \A k \in 1 .. Len(covered) : \A row \in covered[k] : RulesOf(row.addr) # {}

IInv ==
    /\ TypeOK /\ MainJob /\ TaskJob /\ Tables /\ Loaded /\ RowsHaveRule
    /\ DenyKept /\ DenyAgrees /\ AllowAgrees /\ ScreensShow /\ SwitchFindsRow

USE RulesAssumption
USE DEF Pair, PairOf, AddrOf, Blocked, RuleIds, Switching, DenyRows

-----------------------------------------------------------------------------
(* Lemmas about the tables and the jobs.                                   *)

Below == {p \in Nat \X Nat : p[1] < p[2]}

LEMMA BelowWellFounded == IsWellFoundedOn(Below, Nat)
  BY NatLessThanWellFounded DEF OpToRel, Below

\* First: a set of ids has a least one.
LEMMA FirstIsMember ==
  ASSUME NEW ids, ids \subseteq Nat, ids # {}
  PROVE  First(ids) \in ids
<1>1. PICK c \in ids : \A d \in ids : <<d, c>> \notin Below
  BY BelowWellFounded, WFMin
<1>2. ASSUME NEW d \in ids PROVE c <= d
  <2>1. <<d, c>> \in Nat \X Nat /\ ~(<<d, c>>[1] < <<d, c>>[2])
    BY <1>1 DEF Below
  <2> QED BY <2>1
<1> QED BY <1>1, <1>2 DEF First

LEMMA FirstRule ==
  ASSUME NEW x, RulesOf(x) # {}
  PROVE  First(RulesOf(x)) \in RulesOf(x)
  BY FirstIsMember DEF RulesOf

LEMMA FirstRow ==
  ASSUME NEW a, NEW r, RowsOf(a, r) # {}
  PROVE  First(RowsOf(a, r)) \in RowsOf(a, r)
  BY FirstIsMember DEF RowsOf, ConnIds

\* A job of which one stage ends.
LEMMA Entered ==
  ASSUME NEW j \in Jobs, NEW k,
         NEW stage \in {"read", "replace", "insert", "find", "create", "list"},
         k = [j EXCEPT !.at = stage]
  PROVE  /\ k \in Jobs
         /\ k.at = stage /\ k.op = j.op /\ k.addr = j.addr /\ k.app = j.app
         /\ k.action = j.action /\ k.rule = j.rule /\ k.id = j.id
  BY DEF Jobs

\* An insert keeps the rules that there were.
LEMMA Appended ==
  ASSUME rules \in Seq(Addrs), NEW x \in Addrs, rules' = Append(rules, x)
  PROVE  /\ rules' \in Seq(Addrs)
         /\ Len(rules') = Len(rules) + 1
         /\ rules'[Len(rules) + 1] = x
         /\ \A r \in RuleIds : rules'[r] = rules[r]
  OBVIOUS

LEMMA IdleIsJob == Idle \in Jobs /\ Idle.at = "idle" /\ Idle.op = "none"
  BY DEF Idle, Jobs

\* The rows with deny have rules and pairs.
LEMMA DenyPairs ==
  ASSUME TypeOK
  PROVE  \A c \in DenyRows : /\ conns[c].rule \in RuleIds /\ conns[c] # NoRow
                             /\ PairOf(conns[c]) \in Pairs
  BY DEF TypeOK, Row, NoRow, Pairs

LEMMA AddressKnown ==
  ASSUME TypeOK, NEW r
  PROVE  /\ AddressOf(r) \subseteq Addrs
         /\ r \in RuleIds => rules[r] \in AddressOf(r)
  BY DEF TypeOK, AddressOf

\* A row is about its address, which is disturbed if the id was lost.
LEMMA LostDisturbs ==
  ASSUME NEW r \in RuleIds, r \in lost \/ rules[r] \in raced
  PROVE  Disturbed(rules[r])
  BY DEF Disturbed, RulesOf

LEMMA DisturbedKept ==
  ASSUME UNCHANGED <<rules, raced, lost>>
  PROVE  \A x : Disturbed(x)' <=> Disturbed(x)
  BY DEF Disturbed, RulesOf

\* Nothing that happens to an address is forgotten.
LEMMA StaysDisturbed ==
  ASSUME rules \in Seq(Addrs), rules' \in Seq(Addrs), Len(rules) <= Len(rules'),
         \A r \in RuleIds : rules'[r] = rules[r],
         raced \subseteq raced', lost \subseteq lost'
  PROVE  \A x : Disturbed(x) => Disturbed(x)'
<1>1. Len(rules) \in Nat /\ Len(rules') \in Nat
  OBVIOUS
<1>2. \A x : RulesOf(x) \subseteq RulesOf(x)'
  BY <1>1 DEF RulesOf
<1> QED BY <1>2 DEF Disturbed

\* The rows shown of an app have rules and connections.
LEMMA ShownRows ==
  ASSUME TypeOK, NEW a \in Apps, NEW row \in Shown(a)
  PROVE  /\ row \in ScreenRows
         /\ RulesOf(row.addr) # {}
         /\ \E c \in ConnIds : conns[c].app = row.app /\ conns[c].rule \in RulesOf(row.addr)
<1>1. PICK c \in ConnIds :
        /\ conns[c].app = a /\ conns[c].rule <= Len(rules)
        /\ row = [addr |-> rules[conns[c].rule], app |-> a, action |-> conns[c].action]
  BY DEF Shown
<1>2. conns[c].rule \in RuleIds /\ conns[c].action \in Actions
  BY <1>1 DEF TypeOK, Row, NoRow
<1>3. rules[conns[c].rule] \in Addrs
  BY <1>2 DEF TypeOK
<1> QED BY <1>1, <1>2, <1>3 DEF ScreenRows, RulesOf

LEMMA NothingCovered == <<>> \in Seq(SUBSET ScreenRows) /\ Len(<<>>) = 0
  OBVIOUS

\* The list after pairs were added.
LEMMA PairsAdded ==
  ASSUME TypeOK, NEW n \in [Pairs -> Nat], AddPairs(n)
  PROVE  /\ blocking' \in [Pairs -> 0 .. MaxPairs]
         /\ \A p \in Pairs : blocking'[p] = blocking[p] + n[p]
         /\ \A p \in Pairs : n[p] > 0 /\ blocking'[p] > 1 => p \in doubled'
         /\ doubled \subseteq doubled' /\ doubled' \subseteq Pairs
<1>1. \A p \in Pairs : blocking[p] \in Nat /\ n[p] \in Nat
  BY DEF TypeOK
<1>2. blocking' \in [Pairs -> 0 .. MaxPairs]
  BY <1>1 DEF AddPairs
<1> QED BY <1>1, <1>2 DEF AddPairs, TypeOK

LEMMA OnceAdded ==
  ASSUME TypeOK, NEW p \in Pairs, AddPairs(Once(p))
  PROVE  /\ blocking' \in [Pairs -> 0 .. MaxPairs]
         /\ blocking'[p] = blocking[p] + 1
         /\ \A q \in Pairs \ {p} : blocking'[q] = blocking[q]
         /\ blocking'[p] > 1 => p \in doubled'
         /\ doubled \subseteq doubled' /\ doubled' \subseteq Pairs
<1>1. Once(p) \in [Pairs -> Nat] /\ \A q \in Pairs : Once(p)[q] = IF q = p THEN 1 ELSE 0
  BY DEF Once
<1>2. blocking \in [Pairs -> 0 .. MaxPairs]
  BY DEF TypeOK
<1> QED BY <1>1, <1>2, PairsAdded

\* The list after a pair was taken out.
LEMMA PairRemoved ==
  ASSUME TypeOK, NEW p \in Pairs, RemovePair(p)
  PROVE  /\ blocking' \in [Pairs -> 0 .. MaxPairs]
         /\ blocking'[p] = IF blocking[p] > 0 THEN blocking[p] - 1 ELSE 0
         /\ \A q \in Pairs \ {p} : blocking'[q] = blocking[q]
         /\ doubled' = IF blocking[p] <= 1 THEN doubled \ {p} ELSE doubled
<1>1. blocking \in [Pairs -> 0 .. MaxPairs]
  BY DEF TypeOK
<1> QED BY <1>1 DEF RemovePair

\* A new connection: no other row changes, and the tables keep their invariant.
LEMMA ConnInserted ==
  ASSUME IInv, NEW a \in Apps, NEW r \in Nat \ {0}, r \in RuleIds \/ r \in lost,
         NEW action \in Actions, InsertConn(a, r, action), UNCHANGED <<rules, lost>>
  PROVE  /\ conns' \in [ConnIds -> Row] /\ lastConn' \in 0 .. MaxConn /\ lastConn' = lastConn + 1
         /\ lastConn + 1 \in ConnIds /\ conns[lastConn + 1] = NoRow
         /\ conns'[lastConn + 1] = [app |-> a, rule |-> r, action |-> action]
         /\ \A c \in ConnIds : c # lastConn + 1 => conns'[c] = conns[c]
         /\ raced \subseteq raced' /\ raced' \subseteq Addrs
         /\ \A x : Disturbed(x) => Disturbed(x)'
         /\ Tables' /\ RowsHaveRule'
<1> DEFINE new == [app |-> a, rule |-> r, action |-> action]
<1>1. lastConn + 1 \in ConnIds /\ lastConn' = lastConn + 1 /\ lastConn' \in 0 .. MaxConn
  BY DEF IInv, TypeOK, InsertConn, ConnIds
<1>2. new \in Row /\ new.app = a /\ new.rule = r
  BY DEF IInv, TypeOK, Row
<1>3. /\ conns' \in [ConnIds -> Row]
      /\ conns'[lastConn + 1] = new
      /\ \A c \in ConnIds : c # lastConn + 1 => conns'[c] = conns[c]
  BY <1>1, <1>2 DEF IInv, TypeOK, InsertConn
<1>4. conns[lastConn + 1] = NoRow
  BY <1>1 DEF IInv, TypeOK, Tables
<1>5. /\ raced \subseteq raced' /\ raced' \subseteq Addrs
      /\ RowsOf(a, r) # {} => r \in lost \/ rules[r] \in raced'
  BY AddressKnown DEF IInv, TypeOK, InsertConn
<1>6. \A x : Disturbed(x) => Disturbed(x)'
  BY <1>5 DEF Disturbed, RulesOf
<1>7. Tables'
  <2>1. \A c \in ConnIds : conns'[c] # NoRow => c <= lastConn'
    BY <1>1, <1>3 DEF IInv, TypeOK, Tables, ConnIds
  <2>2. (\A s, t \in RuleIds : rules[s] = rules[t] => s = t \/ rules[s] \in raced)'
    BY <1>5 DEF IInv, Tables
  <2>3. ASSUME NEW c \in ConnIds, NEW d \in ConnIds, conns'[c] # NoRow, c # d,
               conns'[c].app = conns'[d].app, conns'[c].rule = conns'[d].rule
        PROVE  conns'[c].rule \in lost \/ rules[conns'[c].rule] \in raced'
    <3>1. CASE c = lastConn + 1
      BY <1>2, <1>3, <1>5, <2>3, <3>1 DEF RowsOf
    <3>2. CASE d = lastConn + 1
      BY <1>2, <1>3, <1>5, <2>3, <3>2 DEF RowsOf
    <3>3. CASE c # lastConn + 1 /\ d # lastConn + 1
      BY <1>3, <1>5, <2>3, <3>3 DEF IInv, Tables
    <3> QED BY <3>1, <3>2, <3>3
  <2> QED BY <2>1, <2>2, <2>3 DEF Tables, ConnIds
<1>8. RowsHaveRule'
  BY <1>2, <1>3 DEF IInv, TypeOK, RowsHaveRule
<1> QED BY <1>1, <1>3, <1>4, <1>5, <1>6, <1>7, <1>8

\* A new rule: the others keep their ids, and the tables keep their invariant.
\* The rows that had the id before are rows of a disturbed address.
LEMMA RuleInserted ==
  ASSUME IInv, NEW x \in Addrs, rules' = Append(rules, x), UNCHANGED <<conns, lastConn, lost>>,
         raced \subseteq raced', RulesOf(x) # {} => x \in raced'
  PROVE  /\ rules' \in Seq(Addrs) /\ Len(rules') = Len(rules) + 1
         /\ rules'[Len(rules) + 1] = x
         /\ \A r \in RuleIds : rules'[r] = rules[r]
         /\ \A y : Disturbed(y) => Disturbed(y)'
         /\ DenyRows \subseteq DenyRows'
         /\ \A c \in DenyRows : PairOf(conns[c])' = PairOf(conns[c])
         /\ \A c \in DenyRows' : c \in DenyRows \/ Disturbed(AddrOf(conns[c]))'
         /\ Tables' /\ RowsHaveRule'
<1>1. /\ rules' \in Seq(Addrs) /\ Len(rules') = Len(rules) + 1 /\ Len(rules) \in Nat
      /\ rules'[Len(rules) + 1] = x
      /\ \A r \in RuleIds : rules'[r] = rules[r]
  BY Appended DEF IInv, TypeOK
<1>2. \A c \in ConnIds : conns[c] # NoRow =>
         conns[c].rule \in Nat \ {0} /\ (conns[c].rule \in RuleIds \/ conns[c].rule \in lost)
  BY DEF IInv, TypeOK, Row, RowsHaveRule
<1>3. \A y : Disturbed(y) => Disturbed(y)'
  BY <1>1, StaysDisturbed DEF IInv, TypeOK
<1>4. ASSUME NEW c \in DenyRows
      PROVE  c \in DenyRows' /\ PairOf(conns[c])' = PairOf(conns[c])
  <2>1. TypeOK /\ conns' = conns /\ c \in ConnIds /\ conns[c].action = "deny"
    BY DEF IInv
  <2>2. conns[c].rule \in RuleIds
    BY <2>1, DenyPairs
  <2>3. conns[c].rule <= Len(rules')
    BY <1>1, <2>2
  <2> QED BY <1>1, <2>1, <2>2, <2>3
<1>5. ASSUME NEW c \in DenyRows', c \notin DenyRows
      PROVE  Disturbed(AddrOf(conns[c]))'
  <2>1. conns[c] # NoRow /\ conns[c].rule = Len(rules) + 1
    BY <1>1, <1>2, <1>5 DEF NoRow
  <2>2. conns[c].rule \in lost' /\ conns[c].rule \in 1 .. Len(rules')
    BY <1>1, <1>2, <1>5, <2>1
  <2> QED BY <2>2 DEF Disturbed, RulesOf
<1>6. Tables'
  <2>1. (\A c \in ConnIds : conns[c] # NoRow => c <= lastConn)'
    BY DEF IInv, Tables
  <2>2. ASSUME NEW r \in 1 .. Len(rules) + 1, NEW s \in 1 .. Len(rules) + 1,
               rules'[r] = rules'[s], r # s
        PROVE  rules'[r] \in raced'
    BY <1>1, <2>2 DEF IInv, Tables, RulesOf
  <2>3. (\A c, d \in ConnIds :
           conns[c] # NoRow /\ conns[c].app = conns[d].app /\ conns[c].rule = conns[d].rule =>
             c = d \/ conns[c].rule \in lost \/ AddrOf(conns[c]) \in raced)'
    BY <1>1, <1>2 DEF IInv, Tables
  <2> QED BY <1>1, <2>1, <2>2, <2>3 DEF Tables
<1>7. RowsHaveRule'
  BY <1>1 DEF IInv, TypeOK, Row, NoRow, RowsHaveRule
<1> QED BY <1>1, <1>3, <1>4, <1>5, <1>6, <1>7

-----------------------------------------------------------------------------
(* The steps.                                                              *)

LEMMA InitIInv == Init => IInv
<1> SUFFICES ASSUME Init PROVE IInv
  OBVIOUS
<1>1. Idle \in Jobs
  BY DEF Idle, Jobs
<1>2. TypeOK
  <2>1. rules \in Seq(Addrs) /\ conns \in [ConnIds -> Row] /\ lastConn \in 0 .. MaxConn
    BY DEF Init, Row
  <2>2. blocking \in [Pairs -> 0 .. MaxPairs]
    BY DEF Init
  <2> QED BY <1>1, <2>1, <2>2, NothingCovered DEF Init, TypeOK
<1>3. MainJob /\ TaskJob
  BY DEF Init, MainJob, TaskJob, Idle
<1>4. Tables /\ Loaded /\ RowsHaveRule /\ ScreensShow
  BY DEF Init, Tables, Loaded, RowsHaveRule, ScreensShow, NoRow, Pairs
<1>5. DenyKept /\ DenyAgrees /\ AllowAgrees /\ SwitchFindsRow
  BY DEF Init, DenyKept, DenyAgrees, AllowAgrees, Disturbed, SwitchFindsRow, NoRow, Idle, Pairs
<1> QED BY <1>2, <1>3, <1>4, <1>5 DEF IInv

LEMMA ProcessDiesIInv ==
  ASSUME IInv, ProcessDies
  PROVE  IInv'
<1>1. Idle \in Jobs /\ Idle.at = "idle"
  BY DEF Idle, Jobs
<1>2. TypeOK'
  <2>1. (rules \in Seq(Addrs) /\ conns \in [ConnIds -> Row] /\ lastConn \in 0 .. MaxConn)'
    BY DEF IInv, TypeOK, ProcessDies, tables
  <2>2. (blocking \in [Pairs -> 0 .. MaxPairs])'
    BY DEF ProcessDies
  <2> QED BY <1>1, <2>1, <2>2, NothingCovered DEF IInv, TypeOK, ProcessDies
<1>3. MainJob' /\ TaskJob'
  BY DEF ProcessDies, MainJob, TaskJob, Idle
<1>4. Tables' /\ Loaded' /\ RowsHaveRule' /\ ScreensShow'
  BY DEF IInv, ProcessDies, tables, Tables, Loaded, RowsHaveRule, ScreensShow, Pairs
<1>5. DenyKept' /\ DenyAgrees' /\ AllowAgrees' /\ SwitchFindsRow'
  BY <1>1, DisturbedKept DEF IInv, ProcessDies, DenyKept, DenyAgrees, AllowAgrees, SwitchFindsRow, Pairs
<1> QED BY <1>2, <1>3, <1>4, <1>5 DEF IInv

LEMMA LoadScreenIInv ==
  ASSUME IInv, NEW a \in Apps, LoadScreen(a)
  PROVE  IInv'
<1>1. /\ main.at = "idle" /\ loaded /\ screen' = Shown(a) /\ stale' = FALSE
      /\ UNCHANGED <<rules, conns, lastConn, blocking, loaded, covered, main, task,
                     denied, doubled, raced, unsaved, lost>>
  BY DEF LoadScreen, Display, tables, history
<1>2. TypeOK
  BY DEF IInv
<1>3. TypeOK'
  BY <1>1, <1>2, ShownRows DEF TypeOK
<1>4. MainJob' /\ TaskJob' /\ SwitchFindsRow'
  BY <1>1 DEF IInv, MainJob, TaskJob, SwitchFindsRow, RowsOf
<1>5. Tables' /\ Loaded' /\ RowsHaveRule'
  BY <1>1 DEF IInv, Tables, Loaded, RowsHaveRule
<1>6. ScreensShow'
  BY <1>1, <1>2, ShownRows DEF IInv, ScreensShow, RulesOf
<1>7. DenyKept' /\ DenyAgrees' /\ AllowAgrees'
  BY <1>1, DisturbedKept DEF IInv, DenyKept, DenyAgrees, AllowAgrees
<1> QED BY <1>3, <1>4, <1>5, <1>6, <1>7 DEF IInv

LEMMA GoBackIInv ==
  ASSUME IInv, GoBack
  PROVE  IInv'
<1>1. /\ main.at = "idle" /\ stale' = TRUE
      /\ covered # <<>> /\ covered \in Seq(SUBSET ScreenRows)
      /\ screen' = covered[Len(covered)] /\ covered' = SubSeq(covered, 1, Len(covered) - 1)
      /\ UNCHANGED <<rules, conns, lastConn, blocking, loaded, main, task,
                     denied, doubled, raced, unsaved, lost>>
  BY DEF GoBack, tables, history, IInv, TypeOK
<1>2. /\ Len(covered) \in 1 .. Len(covered) /\ screen' \subseteq ScreenRows
      /\ covered' \in Seq(SUBSET ScreenRows)
      /\ \A k \in 1 .. Len(covered') : k \in 1 .. Len(covered) /\ covered'[k] = covered[k]
  BY <1>1
<1>3. TypeOK'
  BY <1>1, <1>2 DEF IInv, TypeOK
<1>4. MainJob' /\ TaskJob' /\ SwitchFindsRow'
  BY <1>1 DEF IInv, MainJob, TaskJob, SwitchFindsRow, RowsOf
<1>5. Tables' /\ Loaded' /\ RowsHaveRule'
  BY <1>1 DEF IInv, Tables, Loaded, RowsHaveRule
<1>6. ScreensShow'
  BY <1>1, <1>2 DEF IInv, ScreensShow, RulesOf
<1>7. DenyKept' /\ DenyAgrees' /\ AllowAgrees'
  BY <1>1, DisturbedKept DEF IInv, DenyKept, DenyAgrees, AllowAgrees
<1> QED BY <1>3, <1>4, <1>5, <1>6, <1>7 DEF IInv

LEMMA ReadRowIInv ==
  ASSUME IInv, ReadRow
  PROVE  IInv'
<1>1. PICK i \in RowsOf(main.app, main.rule) : main' = [main EXCEPT !.at = "replace", !.id = i]
  BY FirstRow DEF ReadRow
<1>2. /\ main' \in Jobs
      /\ main'.at = "replace" /\ main'.id = i /\ main'.op = main.op /\ main'.addr = main.addr
      /\ main'.app = main.app /\ main'.action = main.action /\ main'.rule = main.rule
  BY <1>1 DEF IInv, TypeOK, Jobs, RowsOf
<1>3. main.at = "read" /\ UNCHANGED <<tables, blocking, loaded, display, task, history>>
  BY DEF ReadRow
<1>4. TypeOK'
  BY <1>2, <1>3 DEF IInv, TypeOK, tables, history, display
<1>5. MainJob' /\ TaskJob'
  BY <1>2, <1>3 DEF IInv, MainJob, TaskJob, tables, history, display, RowsOf
<1>6. Tables' /\ Loaded' /\ RowsHaveRule' /\ ScreensShow'
  BY <1>2, <1>3 DEF IInv, tables, history, display, Tables, Loaded, RowsHaveRule, ScreensShow, RulesOf
<1>7. DenyKept' /\ DenyAgrees' /\ AllowAgrees' /\ SwitchFindsRow'
  BY <1>2, <1>3, DisturbedKept DEF IInv, tables, history, display, DenyKept, DenyAgrees, AllowAgrees, SwitchFindsRow
<1> QED BY <1>4, <1>5, <1>6, <1>7 DEF IInv

LEMMA GuessRuleIInv ==
  ASSUME IInv, GuessRule
  PROVE  IInv'
<1>1. /\ main' \in Jobs
      /\ main'.at = "insert" /\ main'.rule = NewRuleId /\ main'.op = main.op
      /\ main'.addr = main.addr /\ main'.app = main.app /\ main'.action = main.action
  <2>1. NewRuleId \in Nat
    BY DEF IInv, TypeOK, NewRuleId
  <2> QED BY <2>1 DEF IInv, TypeOK, Jobs, GuessRule
<1>2. main.at = "guess" /\ UNCHANGED <<tables, blocking, loaded, display, task, history>>
  BY DEF GuessRule
<1>3. TypeOK'
  BY <1>1, <1>2 DEF IInv, TypeOK, tables, history, display
<1>4. MainJob' /\ TaskJob'
  BY <1>1, <1>2 DEF IInv, TypeOK, MainJob, TaskJob, tables, history, display, RowsOf, NewRuleId
<1>5. Tables' /\ Loaded' /\ RowsHaveRule' /\ ScreensShow'
  BY <1>1, <1>2 DEF IInv, tables, history, display, Tables, Loaded, RowsHaveRule, ScreensShow, RulesOf
<1>6. DenyKept' /\ DenyAgrees' /\ AllowAgrees' /\ SwitchFindsRow'
  BY <1>1, <1>2, DisturbedKept DEF IInv, tables, history, display, DenyKept, DenyAgrees, AllowAgrees, SwitchFindsRow
<1> QED BY <1>3, <1>4, <1>5, <1>6 DEF IInv

LEMMA FindConnIInv ==
  ASSUME IInv, FindConn
  PROVE  IInv'
<1>1. PICK stage \in {"create", "read"} :
        /\ main' = [main EXCEPT !.at = stage]
        /\ stage = "read" => RowsOf(main.app, main.rule) # {}
  BY DEF FindConn, Enter
<1>2. /\ main' \in Jobs
      /\ main'.at = stage /\ main'.op = main.op /\ main'.addr = main.addr /\ main'.app = main.app
      /\ main'.action = main.action /\ main'.rule = main.rule /\ main'.id = main.id
  BY <1>1, Entered DEF IInv, TypeOK
<1>3. main.at = "find" /\ UNCHANGED <<tables, blocking, loaded, display, task, history>>
  BY DEF FindConn
<1>4. TypeOK'
  BY <1>2, <1>3 DEF IInv, TypeOK, tables, history, display
<1>5. MainJob' /\ TaskJob'
  BY <1>1, <1>2, <1>3 DEF IInv, MainJob, TaskJob, tables, history, display, RowsOf, Actions
<1>6. Tables' /\ Loaded' /\ RowsHaveRule' /\ ScreensShow'
  BY <1>1, <1>2, <1>3 DEF IInv, tables, history, display, Tables, Loaded, RowsHaveRule, ScreensShow, RulesOf
<1>7. DenyKept' /\ DenyAgrees' /\ AllowAgrees' /\ SwitchFindsRow'
  BY <1>1, <1>2, <1>3, DisturbedKept DEF IInv, MainJob, tables, history, display, DenyKept, DenyAgrees, AllowAgrees,
                          SwitchFindsRow, RowsOf
<1> QED BY <1>4, <1>5, <1>6, <1>7 DEF IInv

LEMMA AddRuleIInv ==
  ASSUME IInv, NEW x \in Addrs, NEW a \in Apps, AddRule(x, a)
  PROVE  IInv'
<1>1. /\ main' \in Jobs
      /\ main'.op = "add" /\ main'.addr = x /\ main'.app = a /\ main'.action = "deny"
      /\ \/ main'.at = "guess"
         \/ main'.at = "find" /\ main'.rule \in RulesOf(x)
  <2>1. CASE RulesOf(x) = {}
    BY <2>1 DEF AddRule, Idle, Jobs, Actions
  <2>2. CASE RulesOf(x) # {}
    <3>1. PICK r \in RulesOf(x) : r = First(RulesOf(x))
      BY <2>2, FirstRule
    <3>2. r \in Nat
      BY DEF RulesOf
    <3> QED BY <2>2, <3>1, <3>2 DEF AddRule, Idle, Jobs, Actions
  <2> QED BY <2>1, <2>2
<1>2. /\ main.at = "idle" /\ loaded /\ unsaved' = unsaved \ {<<x, a>>}
      /\ UNCHANGED <<rules, conns, lastConn, blocking, loaded, screen, stale, covered, task,
                     denied, doubled, raced, lost>>
  BY DEF AddRule, tables, display
<1>3. TypeOK'
  BY <1>1, <1>2 DEF IInv, TypeOK
<1>4. MainJob' /\ TaskJob'
  BY <1>1, <1>2 DEF IInv, MainJob, TaskJob, RowsOf, RulesOf
<1>5. Tables' /\ Loaded' /\ RowsHaveRule' /\ ScreensShow'
  BY <1>1, <1>2 DEF IInv, Tables, Loaded, RowsHaveRule, ScreensShow, RulesOf
<1>6. DenyKept' /\ SwitchFindsRow'
  BY <1>1, <1>2 DEF IInv, DenyKept, SwitchFindsRow
<1>7. /\ Pair' = <<x, a>> /\ main.op # "add" /\ main'.at # "unlist" /\ main'.at # "list"
      /\ \A y : Disturbed(y)' <=> Disturbed(y)
  BY <1>1, <1>2, IdleIsJob, DisturbedKept DEF IInv, MainJob
<1>8. DenyAgrees'
  BY <1>1, <1>2, <1>7 DEF IInv, DenyAgrees
<1>9. AllowAgrees'
  BY <1>1, <1>2, <1>7 DEF IInv, AllowAgrees
<1> QED BY <1>3, <1>4, <1>5, <1>6, <1>8, <1>9 DEF IInv

LEMMA TaskScanIInv ==
  ASSUME IInv, TaskScan
  PROVE  IInv'
<1>1. /\ task' \in Jobs
      /\ \/ task'.at = "idle"
         \/ /\ task'.at \in {"create", "read"} /\ task'.addr = task.addr
            /\ task'.app = task.app /\ task'.rule = task.rule /\ task.app \in Apps
  <2>1. CASE task.app = NoApp
    BY <2>1 DEF TaskScan, Idle, Jobs
  <2>2. CASE task.app # NoApp
    <3>1. PICK stage \in {"create", "read"} : task' = [task EXCEPT !.at = stage]
      BY <2>2 DEF TaskScan
    <3> QED BY <2>2, <3>1 DEF IInv, TypeOK, Jobs
  <2> QED BY <2>1, <2>2
<1>2. task.at = "scan" /\ UNCHANGED <<tables, blocking, loaded, display, main, history>>
  BY DEF TaskScan
<1>3. TypeOK'
  BY <1>1, <1>2 DEF IInv, TypeOK, tables, history, display
<1>4. MainJob' /\ TaskJob'
  BY <1>1, <1>2 DEF IInv, MainJob, TaskJob, tables, history, display, RowsOf
<1>5. Tables' /\ Loaded' /\ RowsHaveRule' /\ ScreensShow'
  BY <1>2 DEF IInv, tables, history, display, Tables, Loaded, RowsHaveRule, ScreensShow, RulesOf
<1>6. DenyKept' /\ DenyAgrees' /\ AllowAgrees' /\ SwitchFindsRow'
  BY <1>2, DisturbedKept DEF IInv, tables, history, display, DenyKept, DenyAgrees, AllowAgrees, SwitchFindsRow, RowsOf
<1> QED BY <1>3, <1>4, <1>5, <1>6 DEF IInv

LEMMA ListPairIInv ==
  ASSUME IInv, ListPair
  PROVE  IInv'
<1>1. Pair \in Pairs /\ AddPairs(Once(Pair))
  BY DEF IInv, MainJob, ListPair, Pairs
<1>2. /\ main.at = "list" /\ main' = Idle /\ denied' = denied \cup {Pair}
      /\ screen' = Shown(main.app) /\ stale' = FALSE
      /\ UNCHANGED <<rules, conns, lastConn, loaded, covered, task, raced, unsaved, lost>>
  BY DEF ListPair, Finish, Display, tables
<1>3. TypeOK /\ main.app \in Apps
  BY <1>2 DEF IInv, MainJob
<1>4. TypeOK'
  BY <1>1, <1>2, <1>3, OnceAdded, ShownRows, IdleIsJob DEF TypeOK
<1>5. MainJob' /\ TaskJob'
  BY <1>2, IdleIsJob DEF IInv, MainJob, TaskJob, RowsOf, Idle
<1>6. Tables' /\ RowsHaveRule'
  BY <1>2 DEF IInv, Tables, RowsHaveRule
<1>7. Loaded'
  BY <1>1, <1>2, OnceAdded DEF IInv, MainJob, Loaded
<1>8. ScreensShow'
  BY <1>2, <1>3, ShownRows DEF IInv, ScreensShow, RulesOf
<1>9. blocking'[Pair] > 0 /\ \A p \in Pairs : blocking[p] > 0 => blocking'[p] > 0
  <2>1. blocking \in [Pairs -> 0 .. MaxPairs] /\ TypeOK
    BY DEF IInv, TypeOK
  <2> QED BY <1>1, <2>1, OnceAdded
<1>10. DenyKept' /\ SwitchFindsRow'
  BY <1>2, <1>9, IdleIsJob DEF IInv, TypeOK, DenyKept, SwitchFindsRow
<1>11. DenyAgrees'
  BY <1>2, <1>9, IdleIsJob, DenyPairs, DisturbedKept DEF IInv, MainJob, DenyAgrees, tables
<1>12. AllowAgrees'
  <2>1. \A q \in Pairs \ {Pair} : blocking'[q] = blocking[q]
    BY <1>1, <1>3, OnceAdded
  <2>2. doubled \subseteq doubled'
    BY <1>1, <1>3, OnceAdded
  <2> QED BY <1>2, <2>1, <2>2, IdleIsJob, DisturbedKept DEF IInv, AllowAgrees
<1> QED BY <1>4, <1>5, <1>6, <1>7, <1>8, <1>10, <1>11, <1>12 DEF IInv

LEMMA UnlistPairIInv ==
  ASSUME IInv, UnlistPair
  PROVE  IInv'
<1>1. Pair \in Pairs /\ RemovePair(Pair)
  BY DEF IInv, MainJob, UnlistPair, Pairs
<1>2. /\ main.at = "unlist" /\ main' = Idle /\ denied' = denied \ {Pair}
      /\ screen' = {} /\ stale' = FALSE
      /\ UNCHANGED <<rules, conns, lastConn, loaded, covered, task, raced, unsaved, lost>>
  BY DEF UnlistPair, Finish, Display, tables
<1>3. TypeOK'
  BY <1>1, <1>2, PairRemoved, IdleIsJob DEF IInv, TypeOK
<1>4. MainJob' /\ TaskJob'
  BY <1>2, IdleIsJob DEF IInv, MainJob, TaskJob, RowsOf, Idle
<1>5. Tables' /\ RowsHaveRule' /\ ScreensShow'
  BY <1>2 DEF IInv, Tables, RowsHaveRule, ScreensShow, RulesOf
<1>6. Loaded'
  BY <1>1, <1>2, PairRemoved DEF IInv, TypeOK, MainJob, Loaded
<1>7. DenyKept' /\ SwitchFindsRow'
  BY <1>1, <1>2, PairRemoved, IdleIsJob DEF IInv, TypeOK, DenyKept, SwitchFindsRow
<1>8. DenyAgrees'
  <2>1. TypeOK
    BY DEF IInv
  <2>2. \A q \in Pairs \ {Pair} : blocking'[q] = blocking[q]
    BY <1>1, <2>1, PairRemoved
  <2>3. \A c \in DenyRows : PairOf(conns[c]) \in Pairs
    BY <2>1, DenyPairs
  <2>4. ASSUME NEW c \in DenyRows, loaded
        PROVE  \/ Disturbed(AddrOf(conns[c])) \/ PairOf(conns[c]) \in unsaved
               \/ blocking'[PairOf(conns[c])] > 0
    <3>1. CASE PairOf(conns[c]) = Pair
      BY <1>2, <2>4, <3>1 DEF IInv, DenyAgrees
    <3>2. CASE PairOf(conns[c]) # Pair
      BY <1>2, <2>2, <2>3, <2>4, <3>2 DEF IInv, DenyAgrees
    <3> QED BY <3>1, <3>2
  <2> QED BY <1>2, <2>4, DisturbedKept, IdleIsJob DEF DenyAgrees
<1>9. AllowAgrees'
  <2>1. /\ blocking \in [Pairs -> 0 .. MaxPairs] /\ TypeOK
        /\ \A p \in Pairs : blocking[p] > 1 => p \in doubled
    BY DEF IInv, TypeOK, Loaded
  <2>2. \A p \in Pairs : blocking'[p] > 0 =>
          blocking[p] > 0 /\ (p = Pair \/ p \in doubled => p \in doubled')
    BY <1>1, <2>1, PairRemoved
  <2> QED BY <1>2, <2>2, IdleIsJob, DisturbedKept DEF IInv, MainJob, AllowAgrees
<1> QED BY <1>3, <1>4, <1>5, <1>6, <1>7, <1>8, <1>9 DEF IInv

LEMMA TapRowIInv ==
  ASSUME IInv, NEW row \in screen, TapRow(row)
  PROVE  IInv'
<1> DEFINE p == <<row.addr, row.app>>
<1>1. /\ p \in Pairs /\ row.addr \in Addrs /\ row.app \in Apps /\ loaded
      /\ RulesOf(row.addr) # {} /\ main.at = "idle"
  BY DEF IInv, TypeOK, ScreenRows, Loaded, ScreensShow, Pairs, TapRow
<1>2. PICK r \in RulesOf(row.addr) : r = First(RulesOf(row.addr))
  BY <1>1, FirstRule
<1>3. PICK action \in Actions :
        /\ main' = [Idle EXCEPT !.at = "read", !.op = "switch", !.addr = row.addr,
                                !.app = row.app, !.rule = r, !.action = action]
        /\ SwitchPair(p, action)
        /\ unsaved' = unsaved \ {p}
        /\ UNCHANGED <<rules, conns, lastConn, loaded, screen, stale, covered, task, denied,
                       raced, lost>>
  BY <1>2 DEF TapRow, Actions, tables, display
<1>4. /\ main' \in Jobs
      /\ main'.at = "read" /\ main'.op = "switch" /\ main'.addr = row.addr /\ main'.app = row.app
      /\ main'.action = action /\ main'.rule = r
  <2>1. r \in Nat
    BY DEF RulesOf
  <2> QED BY <1>1, <1>3, <2>1 DEF Idle, Jobs
<1>5. /\ blocking' \in [Pairs -> 0 .. MaxPairs]
      /\ \A q \in Pairs \ {p} : blocking'[q] = blocking[q] /\ (q \in doubled => q \in doubled')
      /\ blocking'[p] > 1 => p \in doubled'
      /\ doubled' \subseteq Pairs
      /\ action = "deny" => blocking'[p] > 0
      /\ action = "allow" /\ blocking'[p] > 0 => p \in doubled'
  <2>1. CASE action = "deny"
    BY <1>1, <1>3, <2>1, OnceAdded DEF SwitchPair, IInv, TypeOK
  <2>2. CASE action = "allow"
    <3>1. TypeOK /\ RemovePair(p)
      BY <1>3, <2>2 DEF SwitchPair, IInv
    <3>2. blocking[p] \in Nat /\ (blocking[p] > 1 => p \in doubled) /\ doubled \subseteq Pairs
      BY <1>1 DEF IInv, TypeOK, Loaded
    <3> QED BY <1>1, <2>2, <3>1, <3>2, PairRemoved
  <2> QED BY <2>1, <2>2 DEF Actions
<1>6. TypeOK'
  BY <1>3, <1>4, <1>5 DEF IInv, TypeOK
<1>7. MainJob' /\ TaskJob'
  BY <1>1, <1>3, <1>4 DEF IInv, MainJob, TaskJob, RowsOf, RulesOf
<1>8. Tables' /\ RowsHaveRule' /\ ScreensShow'
  BY <1>1, <1>3, <1>4 DEF IInv, Tables, RowsHaveRule, ScreensShow, RulesOf
<1>9. Loaded'
  BY <1>1, <1>3, <1>5 DEF IInv, Loaded
<1>10. DenyKept'
  BY <1>1, <1>3, <1>4, <1>5 DEF IInv, TypeOK, DenyKept, Actions
<1>11. Pair' = p /\ main.op # "add" /\ \A y : Disturbed(y)' <=> Disturbed(y)
  BY <1>1, <1>3, <1>4, IdleIsJob, DisturbedKept DEF IInv, MainJob
<1>12. DenyAgrees'
  <2>1. \A c \in DenyRows : PairOf(conns[c]) \in Pairs
    BY DenyPairs DEF IInv
  <2>2. ASSUME NEW c \in DenyRows
        PROVE  \/ Disturbed(AddrOf(conns[c])) \/ PairOf(conns[c]) \in unsaved'
               \/ blocking'[PairOf(conns[c])] > 0
               \/ PairOf(conns[c]) = p /\ action = "allow"
    <3>1. CASE PairOf(conns[c]) = p
      BY <1>5, <3>1 DEF Actions
    <3>2. CASE PairOf(conns[c]) # p
      BY <1>1, <1>3, <1>5, <1>11, <2>1, <2>2, <3>2 DEF IInv, DenyAgrees
    <3> QED BY <3>1, <3>2
  <2> QED BY <1>3, <1>4, <1>11, <2>2 DEF DenyAgrees
<1>13. AllowAgrees'
  <2>1. ASSUME NEW q \in Pairs, blocking'[q] > 0, q # p
        PROVE  \/ Disturbed(q[1]) \/ q \in doubled' \/ q \in unsaved'
               \/ \E c \in DenyRows : PairOf(conns[c]) = q
    BY <1>1, <1>3, <1>5, <1>11, <2>1 DEF IInv, AllowAgrees
  <2>2. action = "deny" \/ (action = "allow" /\ (blocking'[p] > 0 => p \in doubled'))
    BY <1>5 DEF Actions
  <2> QED BY <1>3, <1>4, <1>11, <2>1, <2>2 DEF AllowAgrees
<1>14. SwitchFindsRow'
  <2>1. r \in RuleIds /\ rules[r] = row.addr
    BY DEF RulesOf
  <2>2. CASE stale \/ row.addr \in raced
    BY <1>3, <1>4, <2>2 DEF SwitchFindsRow
  <2>3. CASE ~stale /\ row.addr \notin raced
    <3>1. PICK c \in ConnIds : conns[c].app = row.app /\ conns[c].rule \in RulesOf(row.addr)
      BY <1>1, <2>3 DEF IInv, ScreensShow
    <3>2. conns[c].rule = r
      BY <2>1, <2>3, <3>1 DEF IInv, Tables, RulesOf
    <3> QED BY <1>3, <1>4, <3>1, <3>2 DEF SwitchFindsRow, RowsOf
  <2> QED BY <2>2, <2>3
<1> QED BY <1>6, <1>7, <1>8, <1>9, <1>10, <1>12, <1>13, <1>14 DEF IInv

LEMMA StartTaskIInv ==
  ASSUME IInv, NEW x \in Addrs, NEW a \in Apps \cup {NoApp}, StartTask(x, a)
  PROVE  IInv'
<1>1. CASE ~loaded
  BY <1>1, ProcessDiesIInv DEF StartTask
<1>2. CASE loaded
  <2>1. /\ task' \in Jobs
        /\ task'.addr = x /\ task'.app = a
        /\ \/ task'.at = "insert"
           \/ task'.at = "scan" /\ task'.rule \in RulesOf(x)
    <3>1. CASE RulesOf(x) = {}
      <4>1. task' = [Idle EXCEPT !.addr = x, !.app = a, !.at = "insert", !.rule = 0]
        BY <1>2, <3>1 DEF StartTask
      <4> QED BY <4>1 DEF Idle, Jobs
    <3>2. CASE RulesOf(x) # {}
      <4>1. PICK r \in RulesOf(x) : r = First(RulesOf(x))
        BY <3>2, FirstRule
      <4>2. r \in Nat
        BY DEF RulesOf
      <4> QED BY <1>2, <3>2, <4>1, <4>2 DEF StartTask, Idle, Jobs
    <3> QED BY <3>1, <3>2
  <2>2. task.at = "idle" /\ UNCHANGED <<tables, blocking, loaded, display, main, history>>
    BY <1>2 DEF StartTask
  <2>3. TypeOK'
    BY <2>1, <2>2 DEF IInv, TypeOK, tables, history, display
  <2>4. MainJob' /\ TaskJob'
    BY <2>1, <2>2 DEF IInv, MainJob, TaskJob, tables, history, display, RowsOf, RulesOf
  <2>5. Tables' /\ Loaded' /\ RowsHaveRule' /\ ScreensShow'
    BY <2>2 DEF IInv, tables, history, display, Tables, Loaded, RowsHaveRule, ScreensShow, RulesOf
  <2>6. DenyKept' /\ DenyAgrees' /\ AllowAgrees' /\ SwitchFindsRow'
    BY <2>2, DisturbedKept DEF IInv, tables, history, display, DenyKept, DenyAgrees, AllowAgrees, SwitchFindsRow, RowsOf
  <2> QED BY <2>3, <2>4, <2>5, <2>6 DEF IInv
<1> QED BY <1>1, <1>2

LEMMA TaskReadIInv ==
  ASSUME IInv, TaskRead
  PROVE  IInv'
<1>1. CASE RowsOf(task.app, task.rule) = {}
  BY <1>1, ProcessDiesIInv DEF TaskRead
<1>2. CASE RowsOf(task.app, task.rule) # {}
  <2>1. PICK i \in RowsOf(task.app, task.rule) :
          task' = [task EXCEPT !.at = "replace", !.id = i, !.action = conns[i].action]
    BY <1>2, FirstRow DEF TaskRead
  <2>2. i \in ConnIds /\ conns[i].action \in Actions /\ i \in 1 .. lastConn /\ task.at = "read"
    BY <2>1 DEF IInv, TaskJob, Tables, TypeOK, Row, NoRow, RowsOf, ConnIds, TaskRead
  <2>3. /\ task' \in Jobs
        /\ task'.at = "replace" /\ task'.id = i /\ task'.action = conns[i].action
        /\ task'.addr = task.addr /\ task'.app = task.app /\ task'.rule = task.rule
    BY <1>2, <2>1, <2>2 DEF TaskRead, IInv, TypeOK, Jobs
  <2>4. UNCHANGED <<tables, blocking, loaded, display, main, history>>
    BY <1>2 DEF TaskRead
  <2>5. TypeOK'
    BY <2>3, <2>4 DEF IInv, TypeOK, tables, history, display
  <2>6. MainJob' /\ TaskJob'
    BY <2>2, <2>3, <2>4 DEF IInv, MainJob, TaskJob, tables, history, display, RowsOf
  <2>7. Tables' /\ Loaded' /\ RowsHaveRule' /\ ScreensShow'
    BY <2>4 DEF IInv, tables, history, display, Tables, Loaded, RowsHaveRule, ScreensShow, RulesOf
  <2>8. DenyKept' /\ DenyAgrees' /\ AllowAgrees' /\ SwitchFindsRow'
    BY <2>4, DisturbedKept DEF IInv, tables, history, display, DenyKept, DenyAgrees, AllowAgrees, SwitchFindsRow, RowsOf
  <2> QED BY <2>5, <2>6, <2>7, <2>8 DEF IInv
<1> QED BY <1>1, <1>2

LEMMA CreateMainIInv ==
  ASSUME IInv, CreateMain
  PROVE  IInv'
<1> DEFINE found(p) == {c \in CachedRows : PairOf(conns[c]) = p}
           n == [p \in Pairs |-> Cardinality(found(p))]
<1>1. \A p \in Pairs : n[p] \in Nat /\ (n[p] > 0 <=> found(p) # {})
  <2>1. TAKE p \in Pairs
  <2>2. IsFiniteSet(1 .. MaxConn)
    BY FS_Interval
  <2>3. IsFiniteSet(found(p))
    BY <2>2, FS_Subset DEF CachedRows, ConnIds
  <2>4. Cardinality(found(p)) \in Nat /\ (Cardinality(found(p)) = 0 <=> found(p) = {})
    BY <2>3, FS_CardinalityType, FS_EmptySet
  <2> QED BY <2>4
<1>2. /\ main.at = "idle" /\ loaded' = TRUE /\ screen' = {} /\ stale' = FALSE
      /\ covered' = covered \/ covered' = Append(covered, screen)
      /\ UNCHANGED <<rules, conns, lastConn, main, task, denied, raced, unsaved, lost>>
  BY DEF CreateMain, Display, tables
<1>3. /\ blocking' \in [Pairs -> 0 .. MaxPairs] /\ doubled' \subseteq Pairs
      /\ \A p \in Pairs : /\ blocking'[p] > 0 <=> blocking[p] > 0 \/ found(p) # {}
                          /\ p \in doubled \/ blocking'[p] > 1 => p \in doubled'
  <2>1. n \in [Pairs -> Nat] /\ AddPairs(n)
    BY <1>1 DEF CreateMain
  <2>2. /\ blocking \in [Pairs -> 0 .. MaxPairs] /\ TypeOK
        /\ \A p \in Pairs : blocking[p] > 1 => p \in doubled
    BY DEF IInv, TypeOK, Loaded
  <2> HIDE DEF n
  <2> QED BY <1>1, <2>1, <2>2, PairsAdded
<1>4. /\ covered' \in Seq(SUBSET ScreenRows)
      /\ \A k \in 1 .. Len(covered') :
            covered'[k] = screen \/ (k \in 1 .. Len(covered) /\ covered'[k] = covered[k])
  <2>1. covered \in Seq(SUBSET ScreenRows) /\ screen \in SUBSET ScreenRows
    BY DEF IInv, TypeOK
  <2> QED BY <1>2, <2>1
<1>5. TypeOK'
  BY <1>2, <1>3, <1>4 DEF IInv, TypeOK
<1>6. MainJob' /\ TaskJob'
  BY <1>2, IdleIsJob DEF IInv, MainJob, TaskJob, RowsOf, Idle
<1>7. Tables' /\ RowsHaveRule' /\ ScreensShow' /\ Loaded'
  BY <1>2, <1>3, <1>4 DEF IInv, Tables, RowsHaveRule, ScreensShow, Loaded, RulesOf
<1>8. DenyKept' /\ SwitchFindsRow'
  BY <1>2, <1>3 DEF IInv, TypeOK, DenyKept, SwitchFindsRow
<1>9. main.op = "none"
  BY <1>2, IdleIsJob DEF IInv, MainJob
<1>10. DenyAgrees'
  <2>1. ASSUME NEW c \in DenyRows
        PROVE  blocking'[PairOf(conns[c])] > 0
    <3>1. PairOf(conns[c]) \in Pairs
      BY DenyPairs DEF IInv
    <3>2. c \in found(PairOf(conns[c]))
      BY DEF CachedRows
    <3> QED BY <1>3, <3>1, <3>2
  <2> QED BY <1>2, <2>1 DEF DenyAgrees
<1>11. AllowAgrees'
  <2>1. ASSUME NEW q \in Pairs, blocking'[q] > 0
        PROVE  \/ Disturbed(q[1]) \/ q \in doubled' \/ q \in unsaved
               \/ \E c \in DenyRows : PairOf(conns[c]) = q
    <3>1. CASE blocking[q] > 0
      BY <1>2, <1>3, <1>9, <2>1, <3>1 DEF IInv, AllowAgrees
    <3>2. CASE found(q) # {}
      BY <3>2 DEF CachedRows
    <3> QED BY <1>3, <2>1, <3>1, <3>2
  <2> QED BY <1>2, <2>1, DisturbedKept DEF AllowAgrees
<1> QED BY <1>5, <1>6, <1>7, <1>8, <1>10, <1>11 DEF IInv

\* The rule with which a command goes on is that of its address, or both are
\* disturbed, or the insert of the rule failed.
LEMMA MainRule ==
  ASSUME IInv, main.at \in {"read", "replace", "find", "create", "list"}
  PROVE  /\ main.rule \in Nat \ {0}
         /\ \/ main.rule \in RuleIds /\ rules[main.rule] = main.addr
            \/ /\ main.rule \in RuleIds /\ Disturbed(rules[main.rule])
               /\ Disturbed(main.addr) /\ main.addr \in raced
            \/ /\ main.rule \in lost /\ Pair \in unsaved
               /\ main.rule \in RuleIds => Disturbed(rules[main.rule])
<1>1. CASE main.rule \in RuleIds /\ rules[main.rule] = main.addr
  BY <1>1
<1>2. CASE main.rule \in RuleIds /\ main.addr \in raced /\ rules[main.rule] \in raced
  BY <1>2 DEF Disturbed
<1>3. CASE main.rule \in lost /\ Pair \in unsaved
  BY <1>3, LostDisturbs DEF IInv, TypeOK
<1> QED BY <1>1, <1>2, <1>3 DEF IInv, MainJob

\* A command that writes a connection goes on to the list.
LEMMA EnteredList ==
  ASSUME IInv, Enter("list"), main.at \in {"create", "replace"}
  PROVE  /\ main' \in Jobs
         /\ main'.at = "list" /\ main'.op = main.op /\ main'.addr = main.addr
         /\ main'.app = main.app /\ main'.action = main.action /\ main'.rule = main.rule
         /\ main'.id = main.id
  BY Entered DEF Enter, IInv, TypeOK

LEMMA CreateConnIInv ==
  ASSUME IInv, CreateConn
  PROVE  IInv'
<1> DEFINE new == lastConn + 1
<1>1. /\ main.at = "create" /\ main.app \in Apps /\ main.addr \in Addrs /\ loaded
      /\ main.rule \in Nat \ {0} /\ (main.rule \in RuleIds \/ main.rule \in lost)
      /\ main.op = "add" /\ main.action = "deny" /\ "deny" \in Actions
      /\ UNCHANGED <<rules, blocking, loaded, screen, stale, covered, task, denied, doubled, lost>>
  <2>1. main.at = "create"
    BY DEF CreateConn
  <2>2. UNCHANGED <<rules, blocking, loaded, screen, stale, covered, task, denied, doubled, lost>>
    BY DEF CreateConn, display
  <2>3. main.rule \in Nat \ {0} /\ (main.rule \in RuleIds \/ main.rule \in lost)
    BY <2>1, MainRule
  <2> QED BY <2>1, <2>2, <2>3 DEF IInv, MainJob, Actions
<1>2. /\ main' \in Jobs
      /\ main'.at = "list" /\ main'.op = "add" /\ main'.addr = main.addr /\ main'.app = main.app
      /\ main'.action = "deny" /\ main'.rule = main.rule /\ main'.id = main.id
  BY <1>1, EnteredList DEF CreateConn
<1>3. CASE InsertConn(main.app, main.rule, "deny") /\ UNCHANGED unsaved
  <2>1. /\ conns' \in [ConnIds -> Row] /\ lastConn' \in 0 .. MaxConn /\ lastConn' = lastConn + 1
        /\ new \in ConnIds /\ conns[new] = NoRow
        /\ conns'[new] = [app |-> main.app, rule |-> main.rule, action |-> "deny"]
        /\ \A c \in ConnIds : c # new => conns'[c] = conns[c]
        /\ raced \subseteq raced' /\ raced' \subseteq Addrs
        /\ \A x : Disturbed(x) => Disturbed(x)'
        /\ Tables' /\ RowsHaveRule'
    BY <1>1, <1>3, ConnInserted
  <2>2. TypeOK'
    BY <1>1, <1>2, <1>3, <2>1 DEF IInv, TypeOK
  <2>3. MainJob'
    BY <1>1, <1>2, <1>3, <2>1 DEF IInv, MainJob
  <2>4. TaskJob'
    <3>1. \A c \in 1 .. lastConn : c \in ConnIds /\ conns'[c] = conns[c] /\ c \in 1 .. lastConn'
      BY <2>1 DEF IInv, TypeOK, ConnIds
    <3> QED BY <1>1, <3>1 DEF IInv, TaskJob, RowsOf
  <2>5. Loaded' /\ DenyKept' /\ SwitchFindsRow'
    BY <1>1, <1>2 DEF IInv, Loaded, DenyKept, SwitchFindsRow
  <2>6. ScreensShow'
    <3>1. \A row \in screen, c \in ConnIds :
            conns[c].app = row.app => conns'[c].app = conns[c].app /\ conns'[c].rule = conns[c].rule
      BY <2>1 DEF IInv, TypeOK, ScreenRows, NoRow
    <3> QED BY <1>1, <1>2, <2>1, <3>1 DEF IInv, ScreensShow, RulesOf
  <2>7. \/ main.rule \in RuleIds /\ rules[main.rule] = main.addr
        \/ /\ main.rule \in RuleIds => Disturbed(rules[main.rule])'
           /\ Disturbed(main.addr)' \/ Pair \in unsaved
    BY <1>1, <1>2, <2>1, MainRule
  <2>8. DenyAgrees'
    BY <1>1, <1>2, <1>3, <2>1, <2>7 DEF IInv, DenyAgrees
  <2>9. AllowAgrees'
    <3>1. DenyRows \subseteq DenyRows' /\ \A c \in DenyRows : PairOf(conns'[c]) = PairOf(conns[c])
      BY <1>1, <2>1 DEF NoRow
    <3>2. \/ Disturbed(main.addr)' \/ Pair \in unsaved
          \/ new \in DenyRows' /\ PairOf(conns'[new]) = Pair
      BY <1>1, <2>1, <2>7
    <3> QED BY <1>1, <1>2, <1>3, <2>1, <3>1, <3>2 DEF IInv, AllowAgrees
  <2> QED BY <2>1, <2>2, <2>3, <2>4, <2>5, <2>6, <2>8, <2>9 DEF IInv
<1>4. CASE InsertConnFails /\ WriteFails
  <2>1. unsaved' = unsaved \cup {Pair} /\ Pair \in Pairs /\ UNCHANGED <<conns, lastConn, raced>>
    BY <1>1, <1>4 DEF InsertConnFails, WriteFails, Pairs
  <2>2. TypeOK' /\ MainJob' /\ TaskJob'
    BY <1>1, <1>2, <2>1 DEF IInv, TypeOK, MainJob, TaskJob, RowsOf
  <2>3. Tables' /\ Loaded' /\ RowsHaveRule' /\ ScreensShow'
    BY <1>1, <1>2, <2>1 DEF IInv, Tables, Loaded, RowsHaveRule, ScreensShow, RulesOf
  <2>4. DenyKept' /\ SwitchFindsRow'
    BY <1>1, <1>2 DEF IInv, DenyKept, SwitchFindsRow
  <2>5. DenyAgrees' /\ AllowAgrees'
    BY <1>1, <1>2, <2>1, DisturbedKept DEF IInv, DenyAgrees, AllowAgrees
  <2> QED BY <2>2, <2>3, <2>4, <2>5 DEF IInv
<1> QED BY <1>3, <1>4 DEF CreateConn

LEMMA TaskCreateIInv ==
  ASSUME IInv, TaskCreate
  PROVE  IInv'
<1> DEFINE new == lastConn + 1
<1>1. /\ task.app \in Apps /\ task.rule \in RuleIds /\ task.rule \in Nat \ {0}
      /\ "allow" \in Actions /\ task' = Idle
      /\ UNCHANGED <<rules, blocking, loaded, screen, stale, covered, main, denied, doubled,
                     unsaved, lost>>
  BY DEF TaskCreate, display, IInv, TaskJob, Actions
<1>2. CASE InsertConn(task.app, task.rule, "allow")
  <2>1. /\ conns' \in [ConnIds -> Row] /\ lastConn' \in 0 .. MaxConn /\ lastConn' = lastConn + 1
        /\ new \in ConnIds /\ conns[new] = NoRow
        /\ conns'[new] = [app |-> task.app, rule |-> task.rule, action |-> "allow"]
        /\ \A c \in ConnIds : c # new => conns'[c] = conns[c]
        /\ raced \subseteq raced' /\ raced' \subseteq Addrs
        /\ \A x : Disturbed(x) => Disturbed(x)'
        /\ Tables' /\ RowsHaveRule'
    BY <1>1, <1>2, ConnInserted
  <2>2. TypeOK'
    BY <1>1, <2>1, IdleIsJob DEF IInv, TypeOK
  <2>3. MainJob' /\ SwitchFindsRow'
    BY <1>1, <2>1 DEF IInv, MainJob, SwitchFindsRow, RowsOf, NoRow
  <2>4. TaskJob'
    BY <1>1, IdleIsJob DEF TaskJob
  <2>5. Loaded' /\ DenyKept'
    BY <1>1 DEF IInv, Loaded, DenyKept
  <2>6. ScreensShow'
    <3>1. \A row \in screen, c \in ConnIds :
            conns[c].app = row.app => conns'[c].app = conns[c].app /\ conns'[c].rule = conns[c].rule
      <4>1. \A row \in screen : row.app # NoApp
        BY RulesAssumption DEF IInv, TypeOK, ScreenRows
      <4>2. conns[new].app = NoApp
        BY <2>1 DEF NoRow
      <4> QED BY <2>1, <4>1, <4>2
    <3> QED BY <1>1, <2>1, <3>1 DEF IInv, ScreensShow, RulesOf
  <2>7. DenyRows' = DenyRows /\ \A c \in DenyRows : conns'[c] = conns[c]
    BY <1>1, <2>1 DEF NoRow
  <2>8. DenyAgrees' /\ AllowAgrees'
    BY <1>1, <2>1, <2>7 DEF IInv, DenyAgrees, AllowAgrees
  <2> QED BY <2>1, <2>2, <2>3, <2>4, <2>5, <2>6, <2>8 DEF IInv
<1>3. CASE InsertConnFails
  <2>1. UNCHANGED <<conns, lastConn, raced>>
    BY <1>3 DEF InsertConnFails
  <2>2. TypeOK' /\ MainJob' /\ TaskJob' /\ SwitchFindsRow'
    BY <1>1, <2>1, IdleIsJob DEF IInv, TypeOK, MainJob, TaskJob, SwitchFindsRow, RowsOf
  <2>3. Tables' /\ Loaded' /\ RowsHaveRule' /\ ScreensShow'
    BY <1>1, <2>1 DEF IInv, Tables, Loaded, RowsHaveRule, ScreensShow, RulesOf
  <2>4. DenyKept' /\ DenyAgrees' /\ AllowAgrees'
    BY <1>1, <2>1, DisturbedKept DEF IInv, DenyKept, DenyAgrees, AllowAgrees
  <2> QED BY <2>2, <2>3, <2>4 DEF IInv
<1> QED BY <1>2, <1>3 DEF TaskCreate

\* A step that only makes more rules, or fails to, leaves list and table in
\* the agreement they had.
LEMMA GrownAgrees ==
  ASSUME IInv,
         \A y : Disturbed(y) => Disturbed(y)',
         DenyRows \subseteq DenyRows',
         \A c \in DenyRows : PairOf(conns[c])' = PairOf(conns[c]),
         \A c \in DenyRows' : c \in DenyRows \/ Disturbed(AddrOf(conns[c]))',
         UNCHANGED <<blocking, loaded, doubled>>, unsaved \subseteq unsaved',
         main'.addr = main.addr, main'.app = main.app, main'.op = main.op,
         main'.action = main.action,
         main' = main \/ (main.op = "add" /\ main'.at = "find")
  PROVE  DenyAgrees' /\ AllowAgrees'
<1>1. /\ Pair' = Pair /\ (main'.at = "unlist" => main.at = "unlist")
      /\ main'.at = "list" => main.at = "list"
      /\ Switching("allow") => main.op = "add" \/ Switching("allow")'
      /\ Switching("deny") => main.op = "add" \/ Switching("deny")'
      /\ Switching("allow")' => Switching("allow")
      /\ main.at = "unlist" => main.op = "add" \/ main'.at = "unlist"
  OBVIOUS
<1>2. \A c \in DenyRows : AddrOf(conns[c])' = AddrOf(conns[c])
  OBVIOUS
<1>3. ASSUME NEW c \in DenyRows', loaded
      PROVE  (\/ Disturbed(AddrOf(conns[c])) \/ Blocked(PairOf(conns[c]))
              \/ PairOf(conns[c]) \in unsaved
              \/ PairOf(conns[c]) = Pair /\ (Switching("allow") \/ main.op = "add"))'
  <2>1. CASE Disturbed(AddrOf(conns[c]))'
    BY <2>1
  <2>2. CASE c \in DenyRows
    <3>1. \/ Disturbed(AddrOf(conns[c])) \/ Blocked(PairOf(conns[c]))
          \/ PairOf(conns[c]) \in unsaved
          \/ PairOf(conns[c]) = Pair /\ (Switching("allow") \/ main.op = "add")
      BY <1>3, <2>2 DEF IInv, DenyAgrees
    <3>2. PairOf(conns[c])' = PairOf(conns[c]) /\ AddrOf(conns[c])' = AddrOf(conns[c])
      BY <1>2, <2>2
    <3> HIDE DEF PairOf, AddrOf, Pair, Switching
    <3> QED BY <1>1, <3>1, <3>2 DEF Blocked
  <2> QED BY <1>3, <2>1, <2>2
<1>4. ASSUME NEW c \in DenyRows', main'.at = "unlist", (PairOf(conns[c]) = Pair)'
      PROVE  Disturbed(main.addr)'
  <2>1. CASE Disturbed(AddrOf(conns[c]))'
    BY <1>4, <2>1
  <2>2. CASE c \in DenyRows
    <3>1. PairOf(conns[c])' = PairOf(conns[c])
      BY <2>2
    <3>2. PairOf(conns[c]) = Pair => Disturbed(main.addr)
      BY <1>1, <1>4, <2>2 DEF IInv, DenyAgrees
    <3> HIDE DEF PairOf, AddrOf, Pair
    <3> QED BY <1>1, <1>4, <3>1, <3>2
  <2> QED BY <2>1, <2>2
<1>5. \A p : (\E c \in DenyRows : PairOf(conns[c]) = p) => (\E c \in DenyRows : PairOf(conns[c]) = p)'
  <2> HIDE DEF PairOf, DenyRows
  <2> QED OBVIOUS
<1>6. ASSUME NEW p \in Pairs, blocking[p] > 0
      PROVE  \/ Disturbed(p[1])' \/ p \in doubled \/ p \in unsaved'
             \/ (\E c \in DenyRows : PairOf(conns[c]) = p)'
             \/ (p = Pair /\ (Switching("deny") \/ main.at = "unlist" \/ main.op = "add"))'
  <2>1. \/ Disturbed(p[1]) \/ p \in doubled \/ p \in unsaved
        \/ \E c \in DenyRows : PairOf(conns[c]) = p
        \/ p = Pair /\ (Switching("deny") \/ main.at = "unlist" \/ main.op = "add")
    BY <1>6 DEF IInv, AllowAgrees
  <2> HIDE DEF PairOf, DenyRows, Pair, Switching
  <2> QED BY <1>1, <1>5, <2>1
<1>7. (Switching("allow") /\ Blocked(Pair) => Pair \in doubled)'
  BY <1>1 DEF IInv, AllowAgrees
<1>8. ASSUME main'.at = "list"
      PROVE  \/ Disturbed(main.addr)' \/ (Pair \in unsaved)'
             \/ (\E c \in DenyRows : PairOf(conns[c]) = Pair)'
  <2>1. Disturbed(main.addr) \/ Pair \in unsaved \/ \E c \in DenyRows : PairOf(conns[c]) = Pair
    BY <1>1, <1>8 DEF IInv, AllowAgrees
  <2> HIDE DEF PairOf, DenyRows, Pair
  <2> QED BY <1>1, <1>5, <2>1
<1>9. DenyAgrees'
  <2> HIDE DEF PairOf, AddrOf, DenyRows, Pair, Switching
  <2> QED BY <1>3, <1>4 DEF DenyAgrees
<1>10. AllowAgrees'
  <2> HIDE DEF PairOf, DenyRows, Pair, Switching
  <2> QED BY <1>6, <1>7, <1>8 DEF AllowAgrees
<1> QED BY <1>9, <1>10

LEMMA InsertGuessedIInv ==
  ASSUME IInv, InsertGuessed
  PROVE  IInv'
<1>1. /\ main.at = "insert" /\ main.op = "add" /\ main.addr \in Addrs /\ main.app \in Apps
      /\ main.rule \in 1 .. Len(rules) + 1 /\ Len(rules) \in Nat /\ loaded
      /\ main' = [main EXCEPT !.at = "find"]
      /\ UNCHANGED <<conns, lastConn, blocking, loaded, screen, stale, covered, task,
                     denied, doubled>>
  BY DEF InsertGuessed, Enter, display, IInv, TypeOK, MainJob
<1>2. /\ main' \in Jobs
      /\ main'.at = "find" /\ main'.op = "add" /\ main'.addr = main.addr /\ main'.app = main.app
      /\ main'.action = main.action /\ main'.rule = main.rule /\ main'.id = main.id
  BY <1>1, Entered DEF IInv, TypeOK
<1>3. /\ raced \subseteq raced' /\ raced' \subseteq Addrs
      /\ RulesOf(main.addr) # {} => main.addr \in raced'
      /\ main.rule # Len(rules) + 1 =>
            main.rule \in RuleIds /\ main.addr \in raced' /\ rules[main.rule] \in raced'
  BY <1>1, AddressKnown DEF InsertGuessed, IInv, TypeOK
<1>4. Loaded' /\ DenyKept' /\ SwitchFindsRow'
  BY <1>1, <1>2 DEF IInv, Loaded, DenyKept, SwitchFindsRow
<1>5. CASE rules' = Append(rules, main.addr) /\ UNCHANGED <<unsaved, lost>>
  <2>1. /\ rules' \in Seq(Addrs) /\ Len(rules') = Len(rules) + 1
        /\ rules'[Len(rules) + 1] = main.addr
        /\ \A r \in RuleIds : rules'[r] = rules[r]
        /\ \A y : Disturbed(y) => Disturbed(y)'
        /\ DenyRows \subseteq DenyRows'
        /\ \A c \in DenyRows : PairOf(conns[c])' = PairOf(conns[c])
        /\ \A c \in DenyRows' : c \in DenyRows \/ Disturbed(AddrOf(conns[c]))'
        /\ Tables' /\ RowsHaveRule'
    BY <1>1, <1>3, <1>5, RuleInserted
  <2>2. TypeOK'
    BY <1>1, <1>2, <1>3, <1>5, <2>1 DEF IInv, TypeOK
  <2>3. MainJob'
    BY <1>1, <1>2, <1>3, <2>1 DEF IInv, MainJob
  <2>4. TaskJob'
    BY <1>1, <2>1 DEF IInv, TaskJob, RowsOf
  <2>5. ScreensShow'
    <3>1. \A x : RulesOf(x) \subseteq RulesOf(x)'
      BY <1>1, <2>1 DEF RulesOf
    <3> QED BY <1>1, <1>2, <1>3, <3>1 DEF IInv, ScreensShow
  <2>6. DenyAgrees' /\ AllowAgrees'
    BY <1>1, <1>2, <1>5, <2>1, GrownAgrees
  <2> QED BY <1>4, <2>1, <2>2, <2>3, <2>4, <2>5, <2>6 DEF IInv
<1>6. CASE /\ WriteFails /\ UNCHANGED rules
           /\ lost' = lost \cup ({main.rule} \ RuleIds)
  <2>1. /\ unsaved' = unsaved \cup {Pair} /\ Pair \in Pairs
        /\ lost \subseteq lost' /\ lost' \subseteq Nat \ {0}
        /\ main.rule \in RuleIds \/ main.rule \in lost'
        /\ \A y : Disturbed(y) => Disturbed(y)'
    BY <1>1, <1>3, <1>6, StaysDisturbed DEF WriteFails, Pairs, IInv, TypeOK
  <2>2. TypeOK'
    BY <1>1, <1>2, <1>3, <1>6, <2>1 DEF IInv, TypeOK
  <2>3. MainJob'
    BY <1>1, <1>2, <1>3, <1>6, <2>1 DEF IInv, MainJob
  <2>4. TaskJob' /\ RowsHaveRule' /\ Tables'
    BY <1>1, <1>3, <1>6, <2>1 DEF IInv, TaskJob, RowsHaveRule, Tables, RowsOf
  <2>5. ScreensShow'
    <3>1. \A x : RulesOf(x)' = RulesOf(x)
      BY <1>6 DEF RulesOf
    <3> QED BY <1>1, <1>2, <1>3, <3>1 DEF IInv, ScreensShow
  <2>6. DenyRows' = DenyRows /\ \A c \in DenyRows : PairOf(conns[c])' = PairOf(conns[c])
    BY <1>1, <1>6
  <2>7. DenyAgrees' /\ AllowAgrees'
    BY <1>1, <1>2, <2>1, <2>6, GrownAgrees
  <2> QED BY <1>4, <2>2, <2>3, <2>4, <2>5, <2>7 DEF IInv
<1> QED BY <1>5, <1>6 DEF InsertGuessed

LEMMA TaskInsertRuleIInv ==
  ASSUME IInv, TaskInsertRule
  PROVE  IInv'
<1> DEFINE ScanWith(r) == task' = [task EXCEPT !.at = "scan", !.rule = r]
<1>1. task.at = "insert" /\ task.addr \in Addrs /\ Len(rules) \in Nat
  BY DEF TaskInsertRule, IInv, TypeOK, TaskJob
<1>2. ASSUME NEW r \in Nat, ScanWith(r)
      PROVE  /\ task' \in Jobs
             /\ task'.at = "scan" /\ task'.addr = task.addr /\ task'.app = task.app
             /\ task'.rule = r
  BY <1>2 DEF IInv, TypeOK, Jobs
<1>3. ASSUME InsertRule(task.addr), NEW r \in 1 .. Len(rules) + 1, ScanWith(r),
             UNCHANGED <<conns, lastConn, blocking, loaded, display, main,
                         denied, doubled, unsaved, lost>>
      PROVE  IInv'
  <2>1. /\ rules' = Append(rules, task.addr)
        /\ raced \subseteq raced' /\ raced' \subseteq Addrs
        /\ RulesOf(task.addr) # {} => task.addr \in raced'
    BY <1>1, <1>3 DEF InsertRule, IInv, TypeOK
  <2>2. /\ rules' \in Seq(Addrs) /\ Len(rules') = Len(rules) + 1
        /\ \A s \in RuleIds : rules'[s] = rules[s]
        /\ \A y : Disturbed(y) => Disturbed(y)'
        /\ DenyRows \subseteq DenyRows'
        /\ \A c \in DenyRows : PairOf(conns[c])' = PairOf(conns[c])
        /\ \A c \in DenyRows' : c \in DenyRows \/ Disturbed(AddrOf(conns[c]))'
        /\ Tables' /\ RowsHaveRule'
    BY <1>1, <1>3, <2>1, RuleInserted
  <2>3. /\ task' \in Jobs /\ task'.at = "scan" /\ task'.addr = task.addr /\ task'.rule = r
        /\ UNCHANGED <<screen, stale, covered>>
    <3>1. r \in Nat
      BY <1>1
    <3> QED BY <1>2, <1>3, <3>1 DEF display
  <2>4. TypeOK'
    BY <1>3, <2>1, <2>2, <2>3 DEF IInv, TypeOK
  <2>5. MainJob' /\ SwitchFindsRow'
    BY <1>3, <2>1, <2>2, <2>3 DEF IInv, MainJob, SwitchFindsRow, RowsOf
  <2>6. TaskJob'
    BY <1>1, <2>2, <2>3 DEF TaskJob
  <2>7. Loaded' /\ DenyKept'
    BY <1>3, <2>3 DEF IInv, Loaded, DenyKept
  <2>8. ScreensShow'
    BY <1>1, <1>3, <2>1, <2>2, <2>3 DEF IInv, ScreensShow, RulesOf
  <2>9. DenyAgrees' /\ AllowAgrees'
    BY <1>3, <2>2, GrownAgrees
  <2> QED BY <2>2, <2>4, <2>5, <2>6, <2>7, <2>8, <2>9 DEF IInv
<1>4. ASSUME NEW r \in RulesOf(task.addr), ScanWith(r),
             UNCHANGED <<tables, blocking, loaded, display, main, history>>
      PROVE  IInv'
  <2>1. r \in RuleIds /\ r \in Nat
    BY DEF RulesOf
  <2>2. /\ task' \in Jobs /\ task'.at = "scan" /\ task'.addr = task.addr /\ task'.rule = r
        /\ UNCHANGED <<rules, conns, lastConn, blocking, loaded, screen, stale, covered, main,
                       denied, doubled, raced, unsaved, lost>>
    BY <1>2, <1>4, <2>1 DEF tables, display, history
  <2>3. TypeOK' /\ MainJob' /\ TaskJob' /\ SwitchFindsRow'
    BY <1>1, <2>1, <2>2 DEF IInv, TypeOK, MainJob, TaskJob, SwitchFindsRow, RowsOf
  <2>4. Tables' /\ Loaded' /\ RowsHaveRule' /\ ScreensShow'
    BY <2>2 DEF IInv, Tables, Loaded, RowsHaveRule, ScreensShow, RulesOf
  <2>5. DenyKept' /\ DenyAgrees' /\ AllowAgrees'
    BY <2>2, DisturbedKept DEF IInv, DenyKept, DenyAgrees, AllowAgrees
  <2> QED BY <2>3, <2>4, <2>5 DEF IInv
<1>5. /\ First(RulesOf(task.addr) \cup {Len(rules) + 1}) \in 1 .. Len(rules) + 1
      /\ RulesOf(task.addr) # {} => First(RulesOf(task.addr)) \in RulesOf(task.addr)
  <2> DEFINE ids == RulesOf(task.addr) \cup {Len(rules) + 1}
  <2>1. ids \subseteq 1 .. Len(rules) + 1 /\ ids # {}
    BY <1>1 DEF RulesOf
  <2>2. First(ids) \in ids
    BY <2>1, FirstIsMember
  <2> QED BY <2>1, <2>2, FirstRule
<1> QED BY <1>3, <1>4, <1>5, ProcessDiesIInv DEF TaskInsertRule

LEMMA ReplaceRowIInv ==
  ASSUME IInv, ReplaceRow
  PROVE  IInv'
<1> DEFINE i == main.id
           row == [app |-> main.app, rule |-> main.rule, action |-> main.action]
           written == conns' = [conns EXCEPT ![i] = row] /\ unsaved' = unsaved
           failed == conns' = conns /\ unsaved' = unsaved \cup {Pair}
<1>1. /\ main.at = "replace" /\ i \in ConnIds /\ i \in RowsOf(main.app, main.rule)
      /\ main.op \in {"switch", "add"} /\ main.action \in Actions
      /\ main.app \in Apps /\ main.addr \in Addrs /\ Pair \in Pairs /\ loaded
      /\ UNCHANGED <<rules, lastConn, blocking, loaded, task, doubled, raced, lost>>
      /\ written \/ failed
  BY DEF ReplaceRow, WriteFails, IInv, MainJob, RowsOf, Pairs
<1>2. /\ conns[i] # NoRow /\ conns[i].app = main.app /\ conns[i].rule = main.rule
      /\ main.rule \in Nat \ {0}
  BY <1>1, MainRule DEF RowsOf, NoRow
<1>3. /\ conns' \in [ConnIds -> Row] /\ unsaved' \subseteq Pairs /\ unsaved \subseteq unsaved'
      /\ conns'[i] = row \/ Pair \in unsaved'
      /\ \A c \in ConnIds : /\ c # i => conns'[c] = conns[c]
                            /\ conns'[c] = conns[c] \/ conns'[c] = row
                            /\ conns'[c].app = conns[c].app /\ conns'[c].rule = conns[c].rule
                            /\ conns'[c] = NoRow <=> conns[c] = NoRow
  <2>1. row \in Row /\ row # NoRow
    BY <1>1, <1>2 DEF Row, NoRow
  <2>2. conns \in [ConnIds -> Row] /\ unsaved \subseteq Pairs
    BY DEF IInv, TypeOK
  <2> QED BY <1>1, <1>2, <2>1, <2>2
<1>4. TaskJob'
  <2>1. 1 .. lastConn \subseteq ConnIds
    BY DEF IInv, TypeOK, ConnIds
  <2>2. \A c \in ConnIds : c \in RowsOf(task.app, task.rule) => (c \in RowsOf(task.app, task.rule))'
    BY <1>1, <1>3 DEF RowsOf
  <2> QED BY <1>1, <1>3, <2>1, <2>2 DEF IInv, TaskJob
<1>5. Tables' /\ RowsHaveRule'
  BY <1>1, <1>3 DEF IInv, Tables, RowsHaveRule
<1>6. /\ \A x : Disturbed(x)' <=> Disturbed(x)
      /\ \A c \in ConnIds : PairOf(conns'[c]) = PairOf(conns[c])
      /\ \A c \in ConnIds : c # i => (c \in DenyRows' <=> c \in DenyRows)
  BY <1>1, <1>3, DisturbedKept
<1>7. \/ main.rule \in RuleIds /\ rules[main.rule] = main.addr
      \/ main.rule \in RuleIds /\ Disturbed(rules[main.rule]) /\ Disturbed(main.addr)
      \/ /\ Pair \in unsaved /\ main.op = "add"
         /\ main.rule \in RuleIds => Disturbed(rules[main.rule])
  BY <1>1, MainRule, LostDisturbs DEF IInv, MainJob
<1>8. CASE main.op = "add"
  <2>1. /\ main' \in Jobs
        /\ main'.at = "list" /\ main'.op = "add" /\ main'.addr = main.addr /\ main'.app = main.app
        /\ main'.action = "deny" /\ main'.rule = main.rule /\ main'.id = main.id
        /\ UNCHANGED <<screen, stale, covered, denied>>
    BY <1>1, <1>8, EnteredList DEF ReplaceRow, display, IInv, MainJob
  <2>2. TypeOK'
    BY <1>1, <1>3, <2>1 DEF IInv, TypeOK
  <2>3. MainJob'
    BY <1>1, <1>3, <1>8, <2>1 DEF IInv, MainJob
  <2>4. ScreensShow'
    BY <1>1, <1>3, <2>1 DEF IInv, ScreensShow, RulesOf
  <2>5. Loaded' /\ DenyKept' /\ SwitchFindsRow'
    BY <1>1, <1>8, <2>1 DEF IInv, Loaded, DenyKept, SwitchFindsRow
  <2>6. i \in DenyRows' => Disturbed(AddrOf(conns[i])) \/ PairOf(conns'[i]) = Pair
    <3>1. i \in DenyRows' => main.rule \in RuleIds
      BY <1>1, <1>2, <1>3 DEF IInv, TypeOK
    <3> QED BY <1>2, <1>3, <1>7, <3>1
  <2>7. DenyAgrees'
    <3>1. ASSUME NEW c \in DenyRows'
          PROVE  \/ Disturbed(AddrOf(conns[c])) \/ Blocked(PairOf(conns[c]))
                 \/ PairOf(conns[c]) \in unsaved'
                 \/ PairOf(conns[c]) = Pair
      <4>1. CASE c = i
        BY <1>1, <1>6, <2>6, <4>1
      <4>2. CASE c # i
        <5>1. c \in DenyRows
          BY <1>6, <3>1, <4>2
        <5> QED BY <1>1, <1>3, <5>1 DEF IInv, DenyAgrees
      <4> QED BY <4>1, <4>2
    <3>2. \A c \in ConnIds : AddrOf(conns[c])' = AddrOf(conns[c])
      BY <1>1, <1>3
    <3> QED BY <1>1, <1>3, <1>6, <2>1, <3>1, <3>2 DEF DenyAgrees
  <2>8. AllowAgrees'
    <3>1. \A p \in Pairs \ {Pair} :
             (\E c \in DenyRows : PairOf(conns[c]) = p) => \E c \in DenyRows' : PairOf(conns'[c]) = p
      <4>1. i \in DenyRows => i \in DenyRows'
        BY <1>1, <1>2, <1>3, <1>8 DEF IInv, MainJob
      <4> QED BY <1>6, <4>1
    <3>2. ASSUME NEW p \in Pairs, Blocked(p), p # Pair
          PROVE  \/ Disturbed(p[1]) \/ p \in doubled \/ p \in unsaved
                 \/ \E c \in DenyRows' : PairOf(conns'[c]) = p
      BY <1>8, <3>1, <3>2 DEF IInv, AllowAgrees
    <3>3. \/ Disturbed(main.addr) \/ Pair \in unsaved'
          \/ \E c \in DenyRows' : PairOf(conns'[c]) = Pair
      <4>1. CASE main.rule \in RuleIds /\ rules[main.rule] = main.addr /\ conns'[i] = row
        <5>1. i \in DenyRows' /\ PairOf(conns'[i]) = Pair
          BY <1>1, <1>8, <4>1 DEF IInv, MainJob, TypeOK
        <5> QED BY <5>1
      <4> QED BY <1>3, <1>7, <4>1
    <3> QED BY <1>1, <1>3, <1>6, <2>1, <3>2, <3>3 DEF AllowAgrees
  <2> QED BY <1>4, <1>5, <2>2, <2>3, <2>4, <2>5, <2>7, <2>8 DEF IInv
<1>9. CASE main.op = "switch"
  <2>1. /\ main' = Idle /\ screen' = {} /\ stale' = FALSE /\ covered' = covered
        /\ denied' = IF main.action = "deny" THEN denied \cup {Pair} ELSE denied \ {Pair}
    BY <1>9 DEF ReplaceRow, Finish, Display
  <2>2. main.rule \in RuleIds /\ rules[main.rule] = main.addr
    BY <1>1, <1>9 DEF IInv, MainJob
  <2>3. TypeOK'
    BY <1>1, <1>3, <2>1, IdleIsJob DEF IInv, TypeOK
  <2>4. MainJob'
    BY <2>1, IdleIsJob DEF MainJob, Idle
  <2>5. ScreensShow'
    BY <1>1, <2>1 DEF IInv, ScreensShow, RulesOf
  <2>6. Loaded' /\ SwitchFindsRow'
    BY <1>1, <2>1, IdleIsJob DEF IInv, Loaded, SwitchFindsRow
  <2>7. DenyKept'
    BY <1>1, <1>9, <2>1, IdleIsJob DEF IInv, DenyKept, Actions
  <2>8. \A c \in ConnIds :
          (c \in DenyRows \/ c = i) /\ PairOf(conns[c]) = Pair => c = i \/ Disturbed(main.addr)
    <3>1. TAKE c \in ConnIds
    <3>2. HAVE (c \in DenyRows \/ c = i) /\ PairOf(conns[c]) = Pair
    <3>3. CASE c \in DenyRows
      <4>1. conns[c].rule \in RuleIds /\ conns[c] # NoRow
        BY <3>3, DenyPairs DEF IInv
      <4>2. conns[c].app = main.app /\ rules[conns[c].rule] = main.addr
        BY <3>2
      <4>3. conns[c].rule = main.rule \/ main.addr \in raced
        BY <2>2, <4>1, <4>2 DEF IInv, Tables
      <4>4. c = i \/ main.rule \in lost \/ main.addr \in raced
        BY <1>1, <1>2, <2>2, <4>1, <4>2, <4>3 DEF IInv, Tables
      <4> QED BY <2>2, <4>4, LostDisturbs
    <3> QED BY <3>2, <3>3
  <2>9. DenyAgrees'
    <3>1. ASSUME NEW c \in DenyRows'
          PROVE  \/ Disturbed(AddrOf(conns[c])) \/ Blocked(PairOf(conns[c]))
                 \/ PairOf(conns[c]) \in unsaved'
      <4>1. CASE c = i
        BY <1>1, <1>2, <1>3, <1>9, <2>2, <3>1, <4>1 DEF IInv, DenyKept
      <4>2. CASE c # i
        <5>1. c \in DenyRows
          BY <1>6, <3>1, <4>2
        <5>2. PairOf(conns[c]) = Pair => Disturbed(AddrOf(conns[c]))
          BY <2>8, <4>2, <5>1
        <5> QED BY <1>1, <1>3, <1>9, <5>1, <5>2 DEF IInv, DenyAgrees
      <4> QED BY <4>1, <4>2
    <3>2. \A c \in ConnIds : AddrOf(conns[c])' = AddrOf(conns[c])
      BY <1>1, <1>3
    <3> QED BY <1>1, <1>3, <1>6, <2>1, <3>1, <3>2, IdleIsJob DEF DenyAgrees
  <2>10. AllowAgrees'
    <3>1. ASSUME NEW p \in Pairs, Blocked(p)
          PROVE  \/ Disturbed(p[1]) \/ p \in doubled \/ p \in unsaved'
                 \/ \E c \in DenyRows' : PairOf(conns'[c]) = p
      <4>1. CASE p = Pair /\ main.action = "deny"
        <5>1. conns'[i] = row => i \in DenyRows' /\ PairOf(conns'[i]) = Pair
          BY <1>1, <2>2, <4>1 DEF IInv, TypeOK
        <5> QED BY <1>3, <4>1, <5>1
      <4>2. CASE p = Pair /\ main.action = "allow"
        BY <1>1, <1>9, <3>1, <4>2 DEF IInv, AllowAgrees
      <4>3. CASE p # Pair
        <5>1. ASSUME NEW c \in DenyRows, PairOf(conns[c]) = p
              PROVE  c \in DenyRows' /\ PairOf(conns'[c]) = p
          <6>1. c # i
            BY <1>2, <2>2, <4>3, <5>1
          <6> QED BY <1>6, <5>1, <6>1
        <5> QED BY <1>1, <1>3, <1>9, <3>1, <4>3, <5>1 DEF IInv, AllowAgrees
      <4> QED BY <1>1, <4>1, <4>2, <4>3 DEF Actions
    <3> QED BY <1>1, <1>3, <1>6, <2>1, <3>1, IdleIsJob DEF AllowAgrees
  <2> QED BY <1>4, <1>5, <2>3, <2>4, <2>5, <2>6, <2>7, <2>9, <2>10 DEF IInv
<1> QED BY <1>1, <1>8, <1>9

LEMMA TaskReplaceIInv ==
  ASSUME IInv, TaskReplace
  PROVE  IInv'
<1> DEFINE i == task.id
           row == [app |-> task.app, rule |-> task.rule, action |-> task.action]
<1>1. /\ i \in ConnIds /\ i <= lastConn /\ task.app \in Apps /\ task.action \in Actions
      /\ task.rule \in RuleIds /\ task.rule \in Nat \ {0}
      /\ conns[i] = NoRow \/ (conns[i].app = task.app /\ conns[i].rule = task.rule)
      /\ task' = Idle
      /\ UNCHANGED <<rules, lastConn, blocking, loaded, screen, stale, covered, main, denied,
                     doubled, unsaved, lost>>
  BY DEF TaskReplace, display, IInv, TypeOK, TaskJob, RowsOf, ConnIds
<1>2. /\ raced \subseteq raced' /\ raced' \subseteq Addrs
      /\ conns' \in [ConnIds -> Row]
      /\ \A c \in ConnIds : c # i => conns'[c] = conns[c]
      /\ conns'[i] = row \/ conns'[i] = conns[i]
      /\ conns'[i] = conns[i] \/ rules[task.rule] \in raced'
  <2>1. row \in Row /\ TypeOK
    BY <1>1 DEF IInv, Row
  <2>2. /\ AddressOf(task.rule) \subseteq Addrs /\ rules[task.rule] \in AddressOf(task.rule)
    BY <1>1, <2>1, AddressKnown
  <2>3. CASE UNCHANGED <<conns, raced>>
    BY <2>1, <2>3 DEF TypeOK
  <2>4. CASE /\ conns' = [conns EXCEPT ![i] = row]
             /\ raced' = IF conns[i] = row THEN raced ELSE raced \cup AddressOf(task.rule)
    <3>1. conns'[i] = row /\ \A c \in ConnIds : c # i => conns'[c] = conns[c]
      BY <1>1, <2>1, <2>4 DEF TypeOK
    <3> QED BY <1>1, <2>1, <2>2, <2>4, <3>1 DEF TypeOK
  <2> QED BY <2>3, <2>4 DEF TaskReplace
<1>3. /\ \A x : Disturbed(x) => Disturbed(x)'
      /\ \A x : x \in raced' => Disturbed(x)'
  <2>1. \A x : RulesOf(x)' = RulesOf(x)
    BY <1>1 DEF RulesOf
  <2> QED BY <1>1, <1>2, <2>1 DEF Disturbed
<1>4. TypeOK'
  BY <1>1, <1>2, IdleIsJob DEF IInv, TypeOK
<1>5. MainJob' /\ SwitchFindsRow'
  <2>1. \A a \in Apps : \A r : RowsOf(a, r) \subseteq RowsOf(a, r)'
    BY <1>1, <1>2 DEF RowsOf, NoRow
  <2> QED BY <1>1, <1>2, <2>1 DEF IInv, MainJob, SwitchFindsRow
<1>6. TaskJob'
  BY <1>1, IdleIsJob DEF TaskJob
<1>7. Tables' /\ RowsHaveRule'
  <2>1. ASSUME NEW c \in ConnIds, NEW d \in ConnIds, conns'[c] # NoRow, c # d,
               conns'[c].app = conns'[d].app, conns'[c].rule = conns'[d].rule
        PROVE  conns'[c].rule \in lost \/ rules[conns'[c].rule] \in raced'
    <3>1. CASE conns'[i] = conns[i]
      BY <1>1, <1>2, <2>1, <3>1 DEF IInv, Tables
    <3>2. CASE conns'[i] = row /\ rules[task.rule] \in raced'
      BY <1>2, <2>1, <3>2 DEF IInv, Tables
    <3> QED BY <1>2, <3>1, <3>2
  <2>2. RowsHaveRule'
    BY <1>1, <1>2 DEF IInv, RowsHaveRule
  <2>3. \A c \in ConnIds : conns'[c] # NoRow => c <= lastConn
    BY <1>1, <1>2 DEF IInv, Tables
  <2>4. \A r, s \in RuleIds : rules[r] = rules[s] => r = s \/ rules[r] \in raced'
    BY <1>2 DEF IInv, Tables
  <2> QED BY <1>1, <2>1, <2>2, <2>3, <2>4 DEF Tables
<1>8. Loaded' /\ DenyKept'
  BY <1>1 DEF IInv, Loaded, DenyKept
<1>9. ScreensShow'
  <2>1. ASSUME NEW r \in screen, NEW c \in ConnIds, conns[c].app = r.app
        PROVE  conns'[c].app = conns[c].app /\ conns'[c].rule = conns[c].rule
    <3>1. conns[c] # NoRow
      BY <2>1 DEF IInv, TypeOK, ScreenRows, NoRow
    <3> QED BY <1>1, <1>2, <3>1
  <2> QED BY <1>1, <1>2, <2>1 DEF IInv, ScreensShow, RulesOf
<1>10. \A c \in ConnIds : conns'[c] = conns[c] \/ c = i
  BY <1>2
<1>11. /\ i \in DenyRows => conns'[i] = conns[i] \/ rules[conns[i].rule] \in raced'
       /\ i \in DenyRows' => conns'[i] = conns[i] \/ rules[conns'[i].rule] \in raced'
  <2>1. CASE conns'[i] = conns[i]
    BY <2>1
  <2>2. CASE conns'[i] = row /\ rules[task.rule] \in raced'
    <3>1. i \in DenyRows => conns[i].rule = task.rule
      BY <1>1 DEF NoRow
    <3> QED BY <1>1, <2>2, <3>1
  <2> QED BY <1>2, <2>1, <2>2
<1>12. DenyAgrees'
  <2>1. \A c \in DenyRows' : (c \in DenyRows /\ conns'[c] = conns[c])
                             \/ rules[conns'[c].rule] \in raced'
    BY <1>1, <1>10, <1>11
  <2> QED BY <1>1, <1>3, <2>1 DEF IInv, DenyAgrees, Disturbed
<1>13. AllowAgrees'
  <2>1. \A c \in DenyRows : (c \in DenyRows' /\ conns'[c] = conns[c])
                            \/ rules[conns[c].rule] \in raced'
    BY <1>1, <1>10, <1>11
  <2> QED BY <1>1, <1>3, <2>1 DEF IInv, AllowAgrees, Disturbed
<1> QED BY <1>4, <1>5, <1>6, <1>7, <1>8, <1>9, <1>12, <1>13 DEF IInv

LEMMA PressRowIInv ==
  ASSUME IInv, NEW row \in screen, PressRow(row)
  PROVE  IInv'
<1> DEFINE p == <<row.addr, row.app>>
<1>1. /\ row.addr \in Addrs /\ row.app \in Apps /\ loaded
      /\ RulesOf(row.addr) # {} /\ main.at = "idle"
  BY DEF IInv, TypeOK, ScreenRows, Loaded, ScreensShow, PressRow
<1>2. PICK r \in RulesOf(row.addr) : r = First(RulesOf(row.addr))
  BY <1>1, FirstRule
<1>3. /\ conns' = [c \in ConnIds |-> IF c \in RowsOf(row.app, r) THEN NoRow ELSE conns[c]]
      /\ main' = [Idle EXCEPT !.at = "unlist", !.op = "delete",
                              !.addr = row.addr, !.app = row.app]
      /\ unsaved' = unsaved \ {p}
      /\ UNCHANGED <<rules, lastConn, blocking, loaded, screen, stale, covered, task, denied,
                     doubled, raced, lost>>
  BY <1>2 DEF PressRow, display
<1>4. /\ main' \in Jobs /\ main'.at = "unlist" /\ main'.op = "delete"
      /\ main'.addr = row.addr /\ main'.app = row.app
  BY <1>1, <1>3 DEF Idle, Jobs
<1>5. /\ conns' \in [ConnIds -> Row]
      /\ \A c \in ConnIds : conns'[c] = IF conns[c].app = row.app /\ conns[c].rule = r
                                        THEN NoRow ELSE conns[c]
  BY <1>3 DEF IInv, TypeOK, Row, RowsOf
<1>6. TypeOK'
  BY <1>3, <1>4, <1>5 DEF IInv, TypeOK
<1>7. MainJob'
  BY <1>1, <1>3, <1>4 DEF MainJob
<1>8. TaskJob'
  BY <1>3, <1>5 DEF IInv, TypeOK, TaskJob, RowsOf, ConnIds
<1>9. Tables' /\ RowsHaveRule'
  <2>1. /\ NoRow.app = NoApp /\ NoRow.rule = 0
        /\ \A c \in ConnIds : conns'[c] = conns[c] \/ conns'[c] = NoRow
    BY <1>5 DEF NoRow
  <2>2. Tables'
    BY <1>3, <2>1 DEF IInv, TypeOK, Row, Tables
  <2>3. RowsHaveRule'
    BY <1>3, <2>1 DEF IInv, TypeOK, RowsHaveRule
  <2> QED BY <2>2, <2>3
<1>10. Loaded' /\ ScreensShow' /\ SwitchFindsRow'
  BY <1>3, <1>4 DEF IInv, Loaded, ScreensShow, SwitchFindsRow, RulesOf
<1>11. DenyKept'
  BY <1>1, <1>3, <1>4 DEF IInv, DenyKept
<1>12. rules[r] = row.addr /\ r \in RuleIds
  BY DEF RulesOf
<1>13. /\ Pair' = p /\ main.op = "none"
       /\ \A x : Disturbed(x)' <=> Disturbed(x)
  BY <1>1, <1>3, <1>4, IdleIsJob, DisturbedKept DEF IInv, MainJob
<1>14. \A c \in DenyRows' : c \in DenyRows /\ conns'[c] = conns[c]
  BY <1>3, <1>5 DEF NoRow
<1>15. DenyAgrees'
  <2>1. ASSUME NEW c \in DenyRows', PairOf(conns[c]) = p
        PROVE  Disturbed(row.addr)
    <3>1. c \in DenyRows /\ conns'[c] = conns[c] /\ conns[c].rule \in RuleIds
      BY <1>14, <2>1, DenyPairs DEF IInv
    <3>2. conns[c].rule # r
      BY <1>5, <2>1, <3>1 DEF NoRow
    <3>3. row.addr \in raced
      BY <1>12, <2>1, <3>1, <3>2 DEF IInv, Tables
    <3> QED BY <3>3 DEF Disturbed
  <2>2. ASSUME NEW c \in DenyRows'
        PROVE  \/ Disturbed(AddrOf(conns[c])) \/ Blocked(PairOf(conns[c]))
               \/ PairOf(conns[c]) \in unsaved'
    <3>1. CASE PairOf(conns[c]) = p
      BY <2>1, <3>1
    <3>2. CASE PairOf(conns[c]) # p
      BY <1>1, <1>3, <1>13, <1>14, <3>2 DEF IInv, DenyAgrees
    <3> QED BY <3>1, <3>2
  <2> QED BY <1>1, <1>3, <1>4, <1>13, <1>14, <2>1, <2>2 DEF DenyAgrees
<1>16. AllowAgrees'
  <2>1. ASSUME NEW q \in Pairs, Blocked(q), q # p
        PROVE  \/ Disturbed(q[1]) \/ q \in doubled \/ q \in unsaved'
               \/ \E c \in DenyRows' : PairOf(conns'[c]) = q
    <3>1. ASSUME NEW c \in DenyRows, PairOf(conns[c]) = q
          PROVE  c \in DenyRows' /\ PairOf(conns'[c]) = q
      <4>1. conns'[c] = conns[c]
        BY <1>5, <1>12, <2>1, <3>1
      <4> QED BY <1>3, <3>1, <4>1
    <3> QED BY <1>1, <1>3, <1>13, <2>1, <3>1 DEF IInv, AllowAgrees
  <2> QED BY <1>3, <1>4, <1>13, <2>1 DEF AllowAgrees
<1> QED BY <1>6, <1>7, <1>8, <1>9, <1>10, <1>11, <1>15, <1>16 DEF IInv

-----------------------------------------------------------------------------
(* The theorems.                                                           *)

LEMMA NextIInv ==
  ASSUME IInv, [Next]_vars
  PROVE  IInv'
<1>1. CASE UNCHANGED vars
  <2>1. UNCHANGED <<rules, conns, lastConn, blocking, loaded, screen, stale, covered, main, task,
                    denied, doubled, raced, unsaved, lost>>
    BY <1>1 DEF vars, tables, history, display
  <2>2. TypeOK' /\ MainJob' /\ TaskJob' /\ Tables' /\ Loaded' /\ RowsHaveRule'
    BY <2>1 DEF IInv, TypeOK, MainJob, TaskJob, Tables, Loaded, RowsHaveRule, RowsOf
  <2>3. DenyKept' /\ DenyAgrees' /\ AllowAgrees' /\ ScreensShow' /\ SwitchFindsRow'
    BY <2>1, DisturbedKept DEF IInv, DenyKept, DenyAgrees, AllowAgrees, ScreensShow, SwitchFindsRow, RowsOf, RulesOf
  <2> QED BY <2>2, <2>3 DEF IInv
<1>2. CASE Main
  <2>1. CASE ReadNoRow
    BY <2>1, ProcessDiesIInv DEF ReadNoRow
  <2> QED BY <1>2, <2>1, CreateMainIInv, GoBackIInv, LoadScreenIInv, TapRowIInv, PressRowIInv,
             ReadRowIInv, ReplaceRowIInv, UnlistPairIInv, AddRuleIInv, GuessRuleIInv,
             InsertGuessedIInv, FindConnIInv, CreateConnIInv, ListPairIInv DEF Main
<1>3. CASE Executor
  BY <1>3, StartTaskIInv, TaskInsertRuleIInv, TaskScanIInv, TaskCreateIInv, TaskReadIInv,
     TaskReplaceIInv DEF Executor
<1> QED BY <1>1, <1>2, <1>3, ProcessDiesIInv DEF Next

\* The jobs, the tables, the list and the screen fit together after every step
\* of the handlers, of the monitor and of Android.
THEOREM Invariance == Spec => []IInv
<1> QED BY InitIInv, NextIInv, PTL DEF Spec

\* Every variable has its type, whatever the sizes of the tables.
THEOREM TypeCorrect == Spec => []TypeOK
<1>1. IInv => TypeOK
  BY DEF IInv
<1> QED BY <1>1, Invariance, PTL

\* isAddressAllowed finds each pair that the user denied last in this process,
\* whatever the monitor did since (DetailListListener, Monitor.filter).
THEOREM DeniedStaysBlocked == Spec => []DenyHolds
<1>1. IInv => DenyHolds
  BY DEF IInv, DenyKept, DenyHolds
<1> QED BY <1>1, Invariance, PTL

\* What the table denies is blocked, after a restart as well, also when inserts
\* and replaces fail: without a pair there is only a row whose last command was
\* not written, or whose address was disturbed by two who wrote at the same
\* time or by an id used twice (MainActivity.onCreate, ConnectionDatabase,
\* DetailActivity).
THEOREM TableIsEnforced == Spec => []AgreeDeny
<1>1. IInv => AgreeDeny
  BY DEF IInv, MainJob, Idle, DenyAgrees, AgreeDeny
<1> QED BY <1>1, Invariance, PTL

\* What the list blocks is denied in the table, also when inserts and replaces
\* fail, except a pair whose last command was not written, that was added twice
\* or whose address was disturbed (MonitorFirewall, DetailListListener).
THEOREM BlockIsVisible == Spec => []AgreeAllow
<1>1. IInv => AgreeAllow
  BY DEF IInv, MainJob, Idle, AllowAgrees, AgreeAllow
<1> QED BY <1>1, Invariance, PTL

\* The id of getNewRuleId, guessed before the insert, names a rule by the time
\* a connection is written with it, unless that insert failed
\* (DetailAddNewRuleListener, RuleDatabase.insertRule).
THEOREM NoDanglingRule == Spec => []RowsHaveRule
<1>1. IInv => RowsHaveRule
  BY DEF IInv
<1> QED BY <1>1, Invariance, PTL

\* updateAction finds the row it is to replace, unless the DetailActivity was
\* below another one since it loaded its rows, or two wrote rows of the address
\* (DetailListListener, ConnectionDatabase.updateAction).
THEOREM SwitchedRowExists == Spec => []SwitchFindsRow
<1>1. IInv => SwitchFindsRow
  BY DEF IInv
<1> QED BY <1>1, Invariance, PTL
=============================================================================
