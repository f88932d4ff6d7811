--------------------------- MODULE FirewallRules ---------------------------
(***************************************************************************)
(* The user's decisions: the tables Rule and Connection, the block list    *)
(* that the event loop asks, and the three who change them in interleaved  *)
(* steps.                                                                  *)
(*                                                                         *)
(*   - the main thread: the screens, which allow, deny, delete and add     *)
(*     (DetailActivity, DetailAddNewRuleListener, MainActivity);           *)
(*   - the executor of AsyncTask, which runs one Monitor after another;    *)
(*   - Android, which kills the process: the tables stay, the rest is lost.*)
(*                                                                         *)
(* A step is one access to a table or to the block list.  Each statement   *)
(* of SQLite is a transaction; nothing is one beyond that.  An insert or a *)
(* replace may fail (a full disk, a busy table): it returns false, and no  *)
(* caller looks at it.  The texts that the monitor finds, the owners of    *)
(* addresses and the applications are left out: no decision depends on     *)
(* them.                                                                   *)
(***************************************************************************)
EXTENDS Integers, Sequences, FiniteSets

CONSTANTS
    Addrs, Apps,
    NoApp,          \* the sender of a packet whose socket is not found
    MaxConn,        \* the connections ever recorded
    MaxPairs,       \* how often one pair may be in the block list
    MaxCovered      \* the DetailActivities alive below the one on top

ASSUME RulesAssumption ==
    /\ NoApp \notin Apps
    /\ MaxConn \in Nat
    /\ MaxPairs \in Nat \ {0}
    /\ MaxCovered \in Nat

VARIABLES
    rules,      \* table Rule: the address of each id; ids count from 1
    conns,      \* table Connection: the row of each id, NoRow where there is none
    lastConn,   \* the highest id that a connection ever had
    blocking,   \* blockingIPMap: how often each pair is in it
    loaded,     \* whether MainActivity was created in this process (Monitor.db)
    screen,     \* the rows of the DetailActivity on top, as they were when loaded
    stale,      \* whether another screen was on top since then
    covered,    \* the rows of the DetailActivities below, the lowest first
    main,       \* what the main thread is doing
    task,       \* what the executor is doing
    \* What happened, for the properties only:
    denied,     \* the pairs whose last finished command in this process denies
    doubled,    \* the pairs added while they were in the block list
    raced,      \* the addresses of which two wrote at the same time
    unsaved,    \* the pairs whose last command in this process was not written
    lost        \* the ids of rules that were used though no rule was inserted

tables  == <<rules, conns, lastConn>>
display == <<screen, stale, covered>>
history == <<denied, doubled, raced, unsaved, lost>>
vars    == <<tables, blocking, loaded, display, main, task, history>>

-----------------------------------------------------------------------------
(* Tables, list and screen.                                                *)

Pairs   == Addrs \X Apps
ConnIds == 1 .. MaxConn
Actions == {"allow", "deny"}

NoRow == [app |-> NoApp, rule |-> 0, action |-> "none"]
Row   == [app : Apps, rule : Nat \ {0}, action : Actions] \cup {NoRow}

RowsOf(a, r) == {c \in ConnIds : conns[c].app = a /\ conns[c].rule = r}
PairOf(row)  == <<rules[row.rule], row.app>>

\* The rows with deny whose rule exists; the others are skipped wherever the
\* table is read.
DenyRows == {c \in ConnIds : conns[c].action = "deny" /\ conns[c].rule <= Len(rules)}

\* Queries return rows by their ids; moveToFirst takes the first.
First(ids) == CHOOSE c \in ids : \A d \in ids : c <= d

\* The ids that getRuleCursorByAdd finds; no rule is ever deleted.
RulesOf(x) == {r \in 1 .. Len(rules) : rules[r] = x}

\* The address of a rule, if there is one.
AddressOf(r) == {rules[s] : s \in {r} \cap 1 .. Len(rules)}

Blocked(p) == blocking[p] > 0

\* The rows of one app on the screen.  A row without a rule is shown with the
\* address "Not Known"; tapped, it says that there is no rule, and does nothing.
Shown(a) ==
    {[addr |-> rules[conns[c].rule], app |-> a, action |-> conns[c].action] :
        c \in {d \in ConnIds : conns[d].app = a /\ conns[d].rule <= Len(rules)}}

\* blockingIPMap.add, n[p] times for each pair p.
AddPairs(n) ==
    /\ \A p \in Pairs : blocking[p] + n[p] <= MaxPairs
    /\ blocking' = [p \in Pairs |-> blocking[p] + n[p]]
    /\ doubled' = doubled \cup {p \in Pairs : n[p] > 0 /\ blocking[p] + n[p] > 1}

Once(p) == [q \in Pairs |-> IF q = p THEN 1 ELSE 0]

\* Mutant: all pairs of the address lose one.
RemovePairOfAddress(p) ==
    /\ blocking' = [q \in Pairs |-> IF q[1] = p[1] /\ Blocked(q)
                                    THEN blocking[q] - 1 ELSE blocking[q]]
    /\ doubled' = doubled \ {p}

\* Mutant: without looking for the pair.
RemovePairBlindly(p) ==
    /\ blocking' = [blocking EXCEPT ![p] = @ - 1]
    /\ doubled' = doubled \ {p}

\* deleteRulePair: the first pair that matches, if there is one.
RemovePair(p) ==
    /\ blocking' = [blocking EXCEPT ![p] = IF Blocked(p) THEN @ - 1 ELSE 0]
    /\ doubled' = IF blocking[p] <= 1 THEN doubled \ {p} ELSE doubled

\* insertConnection.  A second row for an app and a rule is a race.
InsertConn(a, r, action) ==
    /\ lastConn < MaxConn
    /\ lastConn' = lastConn + 1
    /\ conns' = [conns EXCEPT ![lastConn + 1] = [app |-> a, rule |-> r, action |-> action]]
    /\ raced' = IF RowsOf(a, r) = {} THEN raced ELSE raced \cup AddressOf(r)

InsertConnFails == UNCHANGED <<conns, lastConn, raced>>

\* insertRule.  A second rule for an address is a race.
InsertRule(x) ==
    /\ rules' = Append(rules, x)
    /\ raced' = IF RulesOf(x) = {} THEN raced ELSE raced \cup {x}

Idle == [at |-> "idle", op |-> "none", addr |-> "none", app |-> NoApp,
         action |-> "none", rule |-> 0, id |-> 0]

Init ==
    /\ rules = <<>>
    /\ conns = [c \in ConnIds |-> NoRow]
    /\ lastConn = 0
    /\ blocking = [p \in Pairs |-> 0]
    /\ loaded = FALSE
    /\ screen = {}
    /\ stale = FALSE
    /\ covered = <<>>
    /\ main = Idle
    /\ task = Idle
    /\ denied = {}
    /\ doubled = {}
    /\ raced = {}
    /\ unsaved = {}
    /\ lost = {}

\* The process ends, killed or by an exception that nobody catches.
ProcessDies ==
    /\ blocking' = [p \in Pairs |-> 0]
    /\ loaded' = FALSE
    /\ screen' = {}
    /\ stale' = FALSE
    /\ covered' = <<>>
    /\ main' = Idle
    /\ task' = Idle
    /\ denied' = {}
    /\ doubled' = {}
    /\ unsaved' = {}
    /\ UNCHANGED <<tables, raced, lost>>

-----------------------------------------------------------------------------
(* The main thread.  A handler runs to its end before the next one.        *)

Enter(stage) == main' = [main EXCEPT !.at = stage]

Pair == <<main.addr, main.app>>

\* The rows are loaded anew, or cleared for that.
Display(rows) == screen' = rows /\ stale' = FALSE

\* The handler ends with these rows on the screen.
Finish(rows) == main' = Idle /\ Display(rows) /\ UNCHANGED covered

\* An insert or a replace of the command failed.
WriteFails == unsaved' = unsaved \cup {Pair}

\* Mutant: the loop starts at the second row.
CachedRowsButFirst == IF DenyRows = {} THEN {} ELSE DenyRows \ {First(DenyRows)}

\* The rows whose pairs a new MainActivity adds to the list.
CachedRows == DenyRows

\* MainActivity.onCreate: opens the tables and adds a pair for each row with
\* deny, in a process that may have done so before.  The notification starts one
\* above a DetailActivity, which stays alive below it.
CreateMain ==
    /\ main.at = "idle"
    /\ AddPairs([p \in Pairs |-> Cardinality({c \in CachedRows : PairOf(conns[c]) = p})])
    /\ loaded' = TRUE
    /\ Display({})
    /\ \/ UNCHANGED covered
       \/ /\ screen # {} /\ Len(covered) < MaxCovered
          /\ covered' = Append(covered, screen)
    /\ UNCHANGED <<tables, main, task, denied, raced, unsaved, lost>>

\* Back, to the DetailActivity below, which does not load its rows again.
GoBack ==
    /\ main.at = "idle"
    /\ covered # <<>>
    /\ screen' = covered[Len(covered)]
    /\ stale' = TRUE
    /\ covered' = SubSeq(covered, 1, Len(covered) - 1)
    /\ UNCHANGED <<tables, blocking, loaded, main, task, history>>

\* DetailActivity is opened or refreshed.
LoadScreen(a) ==
    /\ main.at = "idle"
    /\ loaded
    /\ Display(Shown(a))
    /\ UNCHANGED <<tables, blocking, loaded, covered, main, task, history>>

\* Mutant: the pair is added, but never taken out.
SwitchPairAdds(p, action) ==
    IF action = "deny" THEN AddPairs(Once(p)) ELSE UNCHANGED <<blocking, doubled>>

\* The pair of a row whose action becomes this one.
SwitchPair(p, action) ==
    IF action = "deny" THEN AddPairs(Once(p)) ELSE RemovePair(p)

\* A row is tapped and the new action confirmed.  The action is the one on
\* the screen; the rule is the first one of the row's address.
TapRow(row) ==
    LET action == IF row.action = "allow" THEN "deny" ELSE "allow"
    IN  /\ main.at = "idle"
        /\ main' = [Idle EXCEPT !.at = "read", !.op = "switch",
                                !.addr = row.addr, !.app = row.app,
                                !.rule = First(RulesOf(row.addr)), !.action = action]
        /\ SwitchPair(<<row.addr, row.app>>, action)
        /\ unsaved' = unsaved \ {<<row.addr, row.app>>}
        /\ UNCHANGED <<tables, loaded, display, task, denied, raced, lost>>

\* updateAction, first half: the row to be replaced.  Without one, reading
\* the empty cursor throws.
ReadRow ==
    LET found == RowsOf(main.app, main.rule)
    IN  /\ main.at = "read"
        /\ found # {}
        /\ main' = [main EXCEPT !.at = "replace", !.id = First(found)]
        /\ UNCHANGED <<tables, blocking, loaded, display, task, history>>

ReadNoRow ==
    /\ main.at = "read"
    /\ RowsOf(main.app, main.rule) = {}
    /\ ProcessDies

\* updateAction, second half: the whole row is written again.
ReplaceRow ==
    /\ main.at = "replace"
    /\ \/ /\ conns' = [conns EXCEPT ![main.id] =
                          [app |-> main.app, rule |-> main.rule, action |-> main.action]]
          /\ UNCHANGED unsaved
       \/ WriteFails /\ UNCHANGED conns
    /\ IF main.op = "add"
       THEN Enter("list") /\ UNCHANGED <<display, denied>>
       ELSE /\ Finish({})
            /\ denied' = IF main.action = "deny" THEN denied \cup {Pair}
                                                 ELSE denied \ {Pair}
    /\ UNCHANGED <<rules, lastConn, blocking, loaded, task, doubled, raced, lost>>

\* A row is pressed for long and its deletion confirmed: first the
\* connection, then the pair.
PressRow(row) ==
    LET r == First(RulesOf(row.addr))
    IN  /\ main.at = "idle"
        /\ conns' = [c \in ConnIds |-> IF c \in RowsOf(row.app, r) THEN NoRow ELSE conns[c]]
        /\ main' = [Idle EXCEPT !.at = "unlist", !.op = "delete",
                                !.addr = row.addr, !.app = row.app]
        /\ unsaved' = unsaved \ {<<row.addr, row.app>>}
        /\ UNCHANGED <<rules, lastConn, blocking, loaded, display, task,
                       denied, doubled, raced, lost>>

\* Mutant: the rows stay on the screen.
UnlistPairOnly ==
    /\ main.at = "unlist"
    /\ RemovePair(Pair)
    /\ denied' = denied \ {Pair}
    /\ Finish(screen)
    /\ UNCHANGED <<tables, loaded, task, raced, unsaved, lost>>

UnlistPair ==
    /\ main.at = "unlist"
    /\ RemovePair(Pair)
    /\ denied' = denied \ {Pair}
    /\ Finish({})
    /\ UNCHANGED <<tables, loaded, task, raced, unsaved, lost>>

\* An address is entered to be denied to the app of the screen.
AddRule(x, a) ==
    /\ main.at = "idle"
    /\ loaded
    /\ main' = [Idle EXCEPT !.op = "add", !.addr = x, !.app = a, !.action = "deny",
                            !.at = IF RulesOf(x) = {} THEN "guess" ELSE "find",
                            !.rule = IF RulesOf(x) = {} THEN 0 ELSE First(RulesOf(x))]
    /\ unsaved' = unsaved \ {<<x, a>>}
    /\ UNCHANGED <<tables, blocking, loaded, display, task, denied, doubled, raced, lost>>

\* Mutant: an id that is one too high.
NewRuleIdNext == Len(rules) + 2

\* getNewRuleId: the number of rules and one.
NewRuleId == Len(rules) + 1

GuessRule ==
    /\ main.at = "guess"
    /\ main' = [main EXCEPT !.at = "insert", !.rule = NewRuleId]
    /\ UNCHANGED <<tables, blocking, loaded, display, task, history>>

\* insertRule.  When another task inserted a rule since, the id is that one's;
\* when the insert fails, it is no rule's, and the handler goes on with it.
InsertGuessed ==
    /\ main.at = "insert"
    /\ raced' = IF main.rule = Len(rules) + 1 /\ RulesOf(main.addr) = {} THEN raced
                ELSE raced \cup {main.addr} \cup AddressOf(main.rule)
    /\ \/ rules' = Append(rules, main.addr) /\ UNCHANGED <<unsaved, lost>>
       \/ /\ WriteFails
          /\ lost' = lost \cup ({main.rule} \ 1 .. Len(rules))
          /\ UNCHANGED rules
    /\ Enter("find")
    /\ UNCHANGED <<conns, lastConn, blocking, loaded, display, task, denied, doubled>>

FindConn ==
    /\ main.at = "find"
    /\ Enter(IF RowsOf(main.app, main.rule) = {} THEN "create" ELSE "read")
    /\ UNCHANGED <<tables, blocking, loaded, display, task, history>>

CreateConn ==
    /\ main.at = "create"
    /\ \/ InsertConn(main.app, main.rule, "deny") /\ UNCHANGED unsaved
       \/ InsertConnFails /\ WriteFails
    /\ Enter("list")
    /\ UNCHANGED <<rules, blocking, loaded, display, task, denied, doubled, lost>>

\* The pair is added, whatever was found before, and the screen loaded.
ListPair ==
    /\ main.at = "list"
    /\ AddPairs(Once(Pair))
    /\ denied' = denied \cup {Pair}
    /\ Finish(Shown(main.app))
    /\ UNCHANGED <<tables, loaded, task, raced, unsaved, lost>>

-----------------------------------------------------------------------------
(* The executor: Monitor.filter for one packet after another.              *)

\* A packet of app a to address x.  A packet that comes before MainActivity
\* was created finds no tables: the null pointer ends the process.
StartTask(x, a) ==
    /\ task.at = "idle"
    /\ IF ~loaded THEN ProcessDies
       ELSE /\ task' = [Idle EXCEPT !.addr = x, !.app = a,
                            !.at = IF RulesOf(x) = {} THEN "insert" ELSE "scan",
                            !.rule = IF RulesOf(x) = {} THEN 0 ELSE First(RulesOf(x))]
            /\ UNCHANGED <<tables, blocking, loaded, display, main, history>>

\* insertRule and the query for its id, which is the first of the address.
\* Without one, reading the empty cursor throws.
TaskInsertRule ==
    LET ScanWith(ids) == task' = [task EXCEPT !.at = "scan", !.rule = First(ids)]
    IN  /\ task.at = "insert"
        /\ \/ /\ InsertRule(task.addr)
              /\ ScanWith(RulesOf(task.addr) \cup {Len(rules) + 1})
              /\ UNCHANGED <<conns, lastConn, blocking, loaded, display, main,
                             denied, doubled, unsaved, lost>>
           \/ /\ RulesOf(task.addr) # {}
              /\ ScanWith(RulesOf(task.addr))
              /\ UNCHANGED <<tables, blocking, loaded, display, main, history>>
           \/ RulesOf(task.addr) = {} /\ ProcessDies

\* Look for the connection of the app, when the app is known.
TaskScan ==
    /\ task.at = "scan"
    /\ task' = IF task.app = NoApp THEN Idle
               ELSE [task EXCEPT !.at = IF RowsOf(task.app, task.rule) = {}
                                        THEN "create" ELSE "read"]
    /\ UNCHANGED <<tables, blocking, loaded, display, main, history>>

TaskCreate ==
    /\ task.at = "create"
    /\ InsertConn(task.app, task.rule, "allow") \/ InsertConnFails
    /\ task' = Idle
    /\ UNCHANGED <<rules, blocking, loaded, display, main, denied, doubled, unsaved, lost>>

\* updateSensitive: reads the row, later writes all of it with a new text.
\* A row that was deleted meanwhile is not found, and the exception ends the
\* process.
TaskRead ==
    LET found == RowsOf(task.app, task.rule)
    IN  /\ task.at = "read"
        /\ IF found = {} THEN ProcessDies
           ELSE /\ task' = [task EXCEPT !.at = "replace", !.id = First(found),
                                        !.action = conns[First(found)].action]
                /\ UNCHANGED <<tables, blocking, loaded, display, main, history>>

\* What was read before is written, even if it changed or was deleted since.
TaskReplace ==
    LET row == [app |-> task.app, rule |-> task.rule, action |-> task.action]
    IN  /\ task.at = "replace"
        /\ \/ /\ conns' = [conns EXCEPT ![task.id] = row]
              /\ raced' = IF conns[task.id] = row THEN raced
                          ELSE raced \cup AddressOf(task.rule)
           \/ UNCHANGED <<conns, raced>>
        /\ task' = Idle
        /\ UNCHANGED <<rules, lastConn, blocking, loaded, display, main,
                       denied, doubled, unsaved, lost>>

-----------------------------------------------------------------------------
Main ==
    \/ CreateMain \/ GoBack
    \/ \E a \in Apps : LoadScreen(a)
    \/ \E row \in screen : TapRow(row) \/ PressRow(row)
    \/ ReadRow \/ ReadNoRow \/ ReplaceRow
    \/ UnlistPair
    \/ \E x \in Addrs, a \in Apps : AddRule(x, a)
    \/ GuessRule \/ InsertGuessed \/ FindConn \/ CreateConn \/ ListPair

Executor ==
    \/ \E x \in Addrs, a \in Apps \cup {NoApp} : StartTask(x, a)
    \/ TaskInsertRule \/ TaskScan \/ TaskCreate \/ TaskRead \/ TaskReplace

Next == Main \/ Executor \/ ProcessDies

Spec == Init /\ [][Next]_vars

-----------------------------------------------------------------------------
(* Properties.                                                             *)

Jobs == [at : {"idle", "read", "replace", "guess", "insert", "find", "create",
               "list", "unlist", "scan"},
         op : {"none", "switch", "delete", "add"},
         addr : Addrs \cup {"none"}, app : Apps \cup {NoApp},
         action : Actions \cup {"none"}, rule : Nat, id : ConnIds \cup {0}]

ScreenRows == [addr : Addrs, app : Apps, action : Actions]

\* Every variable has its type; no pair is in the list less than never.
TypeOK ==
    /\ rules \in Seq(Addrs)
    /\ conns \in [ConnIds -> Row]
    /\ lastConn \in 0 .. MaxConn
    /\ blocking \in [Pairs -> 0 .. MaxPairs]
    /\ loaded \in BOOLEAN
    /\ screen \subseteq ScreenRows
    /\ stale \in BOOLEAN
    /\ covered \in Seq(SUBSET ScreenRows)
    /\ main \in Jobs
    /\ task \in Jobs
    /\ denied \subseteq Pairs
    /\ doubled \subseteq Pairs
    /\ raced \subseteq Addrs
    /\ unsaved \subseteq Pairs
    /\ lost \subseteq Nat \ {0}

\* The rows of the address are not what one command after another made them:
\* two wrote at the same time, or its rule got an id that was used before.
Disturbed(x) == x \in raced \/ RulesOf(x) \cap lost # {}

\* What the user denied last, in this process, stays denied whatever the
\* monitor and the other commands do and whichever writes fail:
\* isAddressAllowed finds the pair.
DenyHolds ==
    main.at = "idle" => \A p \in denied : Blocked(p)

\* What the table denies is blocked, after a restart as well, unless the last
\* command for the pair was not written or its address was disturbed.
AgreeDeny ==
    loaded /\ main.at = "idle" =>
        \A c \in DenyRows :
            LET p == PairOf(conns[c])
            IN  Blocked(p) \/ p \in unsaved \/ Disturbed(p[1])

\* What the list blocks is denied in the table, where the user sees it, unless
\* the last command for the pair was not written, the pair was added twice or
\* its address was disturbed.
AgreeAllow ==
    loaded /\ main.at = "idle" =>
        \A p \in Pairs : Blocked(p) =>
            \/ \E c \in DenyRows : PairOf(conns[c]) = p
            \/ p \in unsaved \/ p \in doubled \/ Disturbed(p[1])

\* The rule that a connection names exists, or its insert failed: the id that
\* getNewRuleId guesses is that of a rule by the time a connection is written
\* with it.
RowsHaveRule ==
    \A c \in ConnIds : conns[c].rule <= Len(rules) \/ conns[c].rule \in lost

\* The row of a switched address is still there when updateAction reads it,
\* unless the screen was below another one or two wrote rows of the address.
SwitchFindsRow ==
    main.at = "read" =>
        \/ RowsOf(main.app, main.rule) # {}
        \/ main.op = "switch" /\ stale
        \/ main.addr \in raced

\* "Delete rule from block list" (FireWallVPNService.java:245): what is not
\* denied in the table any more is not blocked, however often its pair was added.
AllowedIsOpen ==
    loaded /\ main.at = "idle" =>
        \A p \in Pairs : Blocked(p) =>
            \/ \E c \in DenyRows : PairOf(conns[c]) = p
            \/ p \in unsaved \/ Disturbed(p[1])
=============================================================================
