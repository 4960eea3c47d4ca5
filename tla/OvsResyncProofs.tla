--------------------------- MODULE OvsResyncProofs ---------------------------
(***************************************************************************)
(* What OvsResync keeps, for any number of compute nodes, of groups, of    *)
(* controllers and of deployments a testcase may find.                     *)
(*                                                                         *)
(* The two scripts are data.  The first part reads off them, once and for  *)
(* all, where main is when it does what (Places) and where a step takes it *)
(* (Moves); the rest of the module never looks at a script again.  Base is *)
(* the inductive invariant behind TypeOK; it also says what OpenDaylight   *)
(* wants.  Switches says what the controller and the rules of each switch  *)
(* are at each place of main, and Abandoned what an exception leaves of    *)
(* them.  GroupBook and FlowBook relate the totals main counted to sums    *)
(* over the nodes; the sums are quantified, an invariant has them grow by  *)
(* one node with each dump, so no recursive definition is needed.          *)
(***************************************************************************)
EXTENDS OvsResync, TLAPS

\* main's last statement, the loops over the nodes, and the steps of a body,
\* by the numbers of the statements in the scripts.
Last == IF tc = "tc11" THEN 11 ELSE 20

Loops == IF tc = "tc11" THEN {1, 3, 6, 8, 9} ELSE {1, 2, 4, 5, 9, 10, 11, 14, 15, 16}

Width == IF tc = "tc12" /\ pc \in {9, 14} THEN 2 ELSE 1

PlaceType ==
  /\ tc \in {"tc11", "tc12"} /\ pc \in 1..Last
  /\ at \in Node /\ part \in 1..Width
  /\ pc \notin Loops => at = 1

\* The statement that counts kind for mark; past the end if none does.
DumpAt(kind, mark) ==
  IF tc = "tc11"
  THEN IF kind = "flow" \/ mark = "resync_2" THEN 12
       ELSE IF mark = "initial" THEN 1 ELSE IF mark = "added" THEN 3 ELSE 9
  ELSE (IF kind = "flow" THEN 0 ELSE 1) +
       (IF mark = "initial" THEN 1 ELSE IF mark = "added" THEN 4
        ELSE IF mark = "resync_1" THEN 10 ELSE 15)

\* What the statements are like.
Shape == /\ Statement.loop <=> pc \in Loops
         /\ Len(Statement.body) = Width /\ DOMAIN Statement.body = 1..Width

\* The place of something in tc11, and in tc12.
In(i, j) == IF tc = "tc11" THEN i ELSE j

-----------------------------------------------------------------------------
\* The statements of the scripts, one by one.
LEMMA Statements11 ==
  /\ DOMAIN Script["tc11"] = 1..11
  /\ Script["tc11"][1] = Dump("group", "initial")
  /\ Script["tc11"][2] = Once(Do("boot"))
  /\ Script["tc11"][3] = Dump("group", "added")
  /\ Script["tc11"][4] = Once(Report("new_group"))
  /\ Script["tc11"][5] = Once(Do("read"))
  /\ Script["tc11"][6] = ForEachNode(<<Do("cut")>>)
  /\ Script["tc11"][7] = Once(Do("cleanup"))
  /\ Script["tc11"][8] = ForEachNode(<<Do("set")>>)
  /\ Script["tc11"][9] = Dump("group", "resync_1")
  /\ Script["tc11"][10] = Once(Report("group_deleted"))
  /\ Script["tc11"][11] = Once(Do("return"))
<1>1. Script["tc11"] = Script11
  BY DEF Script
<1>2. /\ DOMAIN Script11 = 1..11
      /\ Script11[1] = Dump("group", "initial")
      /\ Script11[2] = Once(Do("boot"))
      /\ Script11[3] = Dump("group", "added")
      /\ Script11[4] = Once(Report("new_group"))
      /\ Script11[5] = Once(Do("read"))
      /\ Script11[6] = ForEachNode(<<Do("cut")>>)
      /\ Script11[7] = Once(Do("cleanup"))
      /\ Script11[8] = ForEachNode(<<Do("set")>>)
      /\ Script11[9] = Dump("group", "resync_1")
      /\ Script11[10] = Once(Report("group_deleted"))
      /\ Script11[11] = Once(Do("return"))
  BY DEF Script11
<1>. QED
  BY <1>1, <1>2, Zenon

LEMMA Statements12 ==
  /\ DOMAIN Script["tc12"] = 1..20
  /\ Script["tc12"][1] = Dump("flow", "initial")
  /\ Script["tc12"][2] = Dump("group", "initial")
  /\ Script["tc12"][3] = Once(Do("boot"))
  /\ Script["tc12"][4] = Dump("flow", "added")
  /\ Script["tc12"][5] = Dump("group", "added")
  /\ Script["tc12"][6] = Once(Report("new_flows"))
  /\ Script["tc12"][7] = Once(Report("new_groups"))
  /\ Script["tc12"][8] = Once(Do("read"))
  /\ Script["tc12"][9] = ForEachNode(<<Do("cut"), Do("set")>>)
  /\ Script["tc12"][10] = Dump("flow", "resync_1")
  /\ Script["tc12"][11] = Dump("group", "resync_1")
  /\ Script["tc12"][12] = Once(Report("flows_1"))
  /\ Script["tc12"][13] = Once(Report("groups_1"))
  /\ Script["tc12"][14] = ForEachNode(<<Do("block"), Do("unblock")>>)
  /\ Script["tc12"][15] = Dump("flow", "resync_2")
  /\ Script["tc12"][16] = Dump("group", "resync_2")
  /\ Script["tc12"][17] = Once(Report("flows_2"))
  /\ Script["tc12"][18] = Once(Report("groups_2"))
  /\ Script["tc12"][19] = Once(Do("cleanup"))
  /\ Script["tc12"][20] = Once(Do("return"))
<1>1. Script["tc12"] = Script12
  BY DEF Script
<1>2. /\ DOMAIN Script12 = 1..20
      /\ Script12[1] = Dump("flow", "initial")
      /\ Script12[2] = Dump("group", "initial")
      /\ Script12[3] = Once(Do("boot"))
      /\ Script12[4] = Dump("flow", "added")
      /\ Script12[5] = Dump("group", "added")
      /\ Script12[6] = Once(Report("new_flows"))
      /\ Script12[7] = Once(Report("new_groups"))
      /\ Script12[8] = Once(Do("read"))
      /\ Script12[9] = ForEachNode(<<Do("cut"), Do("set")>>)
      /\ Script12[10] = Dump("flow", "resync_1")
      /\ Script12[11] = Dump("group", "resync_1")
      /\ Script12[12] = Once(Report("flows_1"))
      /\ Script12[13] = Once(Report("groups_1"))
      /\ Script12[14] = ForEachNode(<<Do("block"), Do("unblock")>>)
      /\ Script12[15] = Dump("flow", "resync_2")
      /\ Script12[16] = Dump("group", "resync_2")
      /\ Script12[17] = Once(Report("flows_2"))
      /\ Script12[18] = Once(Report("groups_2"))
      /\ Script12[19] = Once(Do("cleanup"))
      /\ Script12[20] = Once(Do("return"))
  BY DEF Script12
<1>. QED
  BY <1>1, <1>2, Zenon

\* What a statement is made of.
LEMMA DumpShape ==
  ASSUME NEW kind, NEW mark, Statement = Dump(kind, mark), part = 1
  PROVE  /\ Statement.loop /\ Len(Statement.body) = 1 /\ DOMAIN Statement.body = 1..1
         /\ Step.op = "dump" /\ Step.kind = kind /\ Step.mark = mark
BY DEF Dump, ForEachNode, Step

LEMMA OnceShape ==
  ASSUME NEW step, Statement = Once(step), part = 1
  PROVE  /\ ~Statement.loop /\ Len(Statement.body) = 1 /\ DOMAIN Statement.body = 1..1
         /\ Step = step
BY DEF Once, Step

LEMMA LoopShape ==
  ASSUME NEW step, Statement = ForEachNode(<<step>>), part = 1
  PROVE  /\ Statement.loop /\ Len(Statement.body) = 1 /\ DOMAIN Statement.body = 1..1
         /\ Step = step
BY DEF ForEachNode, Step

LEMMA PairShape ==
  ASSUME NEW one, NEW two, Statement = ForEachNode(<<one, two>>), part \in 1..2
  PROVE  /\ Statement.loop /\ Len(Statement.body) = 2 /\ DOMAIN Statement.body = 1..2
         /\ Step = IF part = 1 THEN one ELSE two
BY DEF ForEachNode, Step

LEMMA StepShapes ==
  /\ \A op : Do(op).op = op
  /\ \A name : Report(name).op = "report" /\ Report(name).name = name
BY DEF Do, Report

\* The steps of testcase_11, statement by statement: statement p does step k.
Says11(p, k, op, kind, mark, name) ==
  /\ p = 1 => op = "dump" /\ kind = "group" /\ mark = "initial"
  /\ p = 2 => op = "boot"
  /\ p = 3 => op = "dump" /\ kind = "group" /\ mark = "added"
  /\ p = 4 => op = "report" /\ name = "new_group"
  /\ p = 5 => op = "read"
  /\ p = 6 => op = "cut"
  /\ p = 7 => op = "cleanup"
  /\ p = 8 => op = "set"
  /\ p = 9 => op = "dump" /\ kind = "group" /\ mark = "resync_1"
  /\ p = 10 => op = "report" /\ name = "group_deleted"
  /\ p = 11 => op = "return"

Ops11 == Says11(pc, part, Step.op, Step.kind, Step.mark, Step.name)

LEMMA Steps11 ==
  ASSUME PlaceType, tc = "tc11"
  PROVE  Shape /\ Ops11
<1>1. ASSUME pc = 1
      PROVE  Shape /\ Step.op = "dump" /\ Step.kind = "group" /\ Step.mark = "initial"
  <2>1. Statement = Dump("group", "initial")
    BY <1>1, Statements11, Zenon DEF Statement
  <2>2. Width = 1 /\ part = 1 /\ pc \in Loops
    BY <1>1 DEF PlaceType, Width, Loops
  <2>3. /\ Statement.loop /\ Len(Statement.body) = 1 /\ DOMAIN Statement.body = 1..1
        /\ Step.op = "dump" /\ Step.kind = "group" /\ Step.mark = "initial"
    BY <2>1, <2>2, DumpShape, Zenon
  <2>. QED
    BY <2>2, <2>3 DEF Shape
<1>2. ASSUME pc = 2 PROVE Shape /\ Step.op = "boot"
  <2>1. Statement = Once(Do("boot"))
    BY <1>2, Statements11, Zenon DEF Statement
  <2>2. Width = 1 /\ part = 1 /\ pc \notin Loops
    BY <1>2 DEF PlaceType, Width, Loops
  <2>3. /\ ~Statement.loop /\ Len(Statement.body) = 1 /\ DOMAIN Statement.body = 1..1
        /\ Step = Do("boot")
    BY <2>1, <2>2, OnceShape, Zenon
  <2>. QED
    BY <2>2, <2>3, StepShapes DEF Shape
<1>3. ASSUME pc = 3
      PROVE  Shape /\ Step.op = "dump" /\ Step.kind = "group" /\ Step.mark = "added"
  <2>1. Statement = Dump("group", "added")
    BY <1>3, Statements11, Zenon DEF Statement
  <2>2. Width = 1 /\ part = 1 /\ pc \in Loops
    BY <1>3 DEF PlaceType, Width, Loops
  <2>3. /\ Statement.loop /\ Len(Statement.body) = 1 /\ DOMAIN Statement.body = 1..1
        /\ Step.op = "dump" /\ Step.kind = "group" /\ Step.mark = "added"
    BY <2>1, <2>2, DumpShape, Zenon
  <2>. QED
    BY <2>2, <2>3 DEF Shape
<1>4. ASSUME pc = 4 PROVE Shape /\ Step.op = "report" /\ Step.name = "new_group"
  <2>1. Statement = Once(Report("new_group"))
    BY <1>4, Statements11, Zenon DEF Statement
  <2>2. Width = 1 /\ part = 1 /\ pc \notin Loops
    BY <1>4 DEF PlaceType, Width, Loops
  <2>3. /\ ~Statement.loop /\ Len(Statement.body) = 1 /\ DOMAIN Statement.body = 1..1
        /\ Step = Report("new_group")
    BY <2>1, <2>2, OnceShape, Zenon
  <2>. QED
    BY <2>2, <2>3, StepShapes DEF Shape
<1>5. ASSUME pc = 5 PROVE Shape /\ Step.op = "read"
  <2>1. Statement = Once(Do("read"))
    BY <1>5, Statements11, Zenon DEF Statement
  <2>2. Width = 1 /\ part = 1 /\ pc \notin Loops
    BY <1>5 DEF PlaceType, Width, Loops
  <2>3. /\ ~Statement.loop /\ Len(Statement.body) = 1 /\ DOMAIN Statement.body = 1..1
        /\ Step = Do("read")
    BY <2>1, <2>2, OnceShape, Zenon
  <2>. QED
    BY <2>2, <2>3, StepShapes DEF Shape
<1>6. ASSUME pc = 6 PROVE Shape /\ Step.op = "cut"
  <2>1. Statement = ForEachNode(<<Do("cut")>>)
    BY <1>6, Statements11, Zenon DEF Statement
  <2>2. Width = 1 /\ part = 1 /\ pc \in Loops
    BY <1>6 DEF PlaceType, Width, Loops
  <2>3. /\ Statement.loop /\ Len(Statement.body) = 1 /\ DOMAIN Statement.body = 1..1
        /\ Step = Do("cut")
    BY <2>1, <2>2, LoopShape, Zenon
  <2>. QED
    BY <2>2, <2>3, StepShapes DEF Shape
<1>7. ASSUME pc = 7 PROVE Shape /\ Step.op = "cleanup"
  <2>1. Statement = Once(Do("cleanup"))
    BY <1>7, Statements11, Zenon DEF Statement
  <2>2. Width = 1 /\ part = 1 /\ pc \notin Loops
    BY <1>7 DEF PlaceType, Width, Loops
  <2>3. /\ ~Statement.loop /\ Len(Statement.body) = 1 /\ DOMAIN Statement.body = 1..1
        /\ Step = Do("cleanup")
    BY <2>1, <2>2, OnceShape, Zenon
  <2>. QED
    BY <2>2, <2>3, StepShapes DEF Shape
<1>8. ASSUME pc = 8 PROVE Shape /\ Step.op = "set"
  <2>1. Statement = ForEachNode(<<Do("set")>>)
    BY <1>8, Statements11, Zenon DEF Statement
  <2>2. Width = 1 /\ part = 1 /\ pc \in Loops
    BY <1>8 DEF PlaceType, Width, Loops
  <2>3. /\ Statement.loop /\ Len(Statement.body) = 1 /\ DOMAIN Statement.body = 1..1
        /\ Step = Do("set")
    BY <2>1, <2>2, LoopShape, Zenon
  <2>. QED
    BY <2>2, <2>3, StepShapes DEF Shape
<1>9. ASSUME pc = 9
      PROVE  Shape /\ Step.op = "dump" /\ Step.kind = "group" /\ Step.mark = "resync_1"
  <2>1. Statement = Dump("group", "resync_1")
    BY <1>9, Statements11, Zenon DEF Statement
  <2>2. Width = 1 /\ part = 1 /\ pc \in Loops
    BY <1>9 DEF PlaceType, Width, Loops
  <2>3. /\ Statement.loop /\ Len(Statement.body) = 1 /\ DOMAIN Statement.body = 1..1
        /\ Step.op = "dump" /\ Step.kind = "group" /\ Step.mark = "resync_1"
    BY <2>1, <2>2, DumpShape, Zenon
  <2>. QED
    BY <2>2, <2>3 DEF Shape
<1>10. ASSUME pc = 10 PROVE Shape /\ Step.op = "report" /\ Step.name = "group_deleted"
  <2>1. Statement = Once(Report("group_deleted"))
    BY <1>10, Statements11, Zenon DEF Statement
  <2>2. Width = 1 /\ part = 1 /\ pc \notin Loops
    BY <1>10 DEF PlaceType, Width, Loops
  <2>3. /\ ~Statement.loop /\ Len(Statement.body) = 1 /\ DOMAIN Statement.body = 1..1
        /\ Step = Report("group_deleted")
    BY <2>1, <2>2, OnceShape, Zenon
  <2>. QED
    BY <2>2, <2>3, StepShapes DEF Shape
<1>11. ASSUME pc = 11 PROVE Shape /\ Step.op = "return"
  <2>1. Statement = Once(Do("return"))
    BY <1>11, Statements11, Zenon DEF Statement
  <2>2. Width = 1 /\ part = 1 /\ pc \notin Loops
    BY <1>11 DEF PlaceType, Width, Loops
  <2>3. /\ ~Statement.loop /\ Len(Statement.body) = 1 /\ DOMAIN Statement.body = 1..1
        /\ Step = Do("return")
    BY <2>1, <2>2, OnceShape, Zenon
  <2>. QED
    BY <2>2, <2>3, StepShapes DEF Shape
<1>12. pc \in 1..11
  BY DEF PlaceType, Last
<1>13. pc = 1 \/ pc = 2 \/ pc = 3 \/ pc = 4 \/ pc = 5 \/ pc = 6 \/ pc = 7 \/ pc = 8
       \/ pc = 9 \/ pc = 10 \/ pc = 11
  BY <1>12
<1>14. Shape
  BY <1>1, <1>2, <1>3, <1>4, <1>5, <1>6, <1>7, <1>8, <1>9, <1>10, <1>11, <1>13, Zenon
<1>15. Ops11
  BY <1>1, <1>2, <1>3, <1>4, <1>5, <1>6, <1>7, <1>8, <1>9, <1>10, <1>11, Zenon DEF Ops11,
     Says11
<1>. QED
  BY <1>14, <1>15, Zenon

\* The steps of testcase_12, statement by statement: statement p does step k.
Says12(p, k, op, kind, mark, name) ==
  /\ p = 1 => op = "dump" /\ kind = "flow" /\ mark = "initial"
  /\ p = 2 => op = "dump" /\ kind = "group" /\ mark = "initial"
  /\ p = 3 => op = "boot"
  /\ p = 4 => op = "dump" /\ kind = "flow" /\ mark = "added"
  /\ p = 5 => op = "dump" /\ kind = "group" /\ mark = "added"
  /\ p = 6 => op = "report" /\ name = "new_flows"
  /\ p = 7 => op = "report" /\ name = "new_groups"
  /\ p = 8 => op = "read"
  /\ p = 9 => (k = 1 => op = "cut") /\ (k = 2 => op = "set")
  /\ p = 10 => op = "dump" /\ kind = "flow" /\ mark = "resync_1"
  /\ p = 11 => op = "dump" /\ kind = "group" /\ mark = "resync_1"
  /\ p = 12 => op = "report" /\ name = "flows_1"
  /\ p = 13 => op = "report" /\ name = "groups_1"
  /\ p = 14 => (k = 1 => op = "block") /\ (k = 2 => op = "unblock")
  /\ p = 15 => op = "dump" /\ kind = "flow" /\ mark = "resync_2"
  /\ p = 16 => op = "dump" /\ kind = "group" /\ mark = "resync_2"
  /\ p = 17 => op = "report" /\ name = "flows_2"
  /\ p = 18 => op = "report" /\ name = "groups_2"
  /\ p = 19 => op = "cleanup"
  /\ p = 20 => op = "return"

Ops12 == Says12(pc, part, Step.op, Step.kind, Step.mark, Step.name)

LEMMA Steps12 ==
  ASSUME PlaceType, tc = "tc12"
  PROVE  Shape /\ Ops12
<1>1. ASSUME pc = 1
      PROVE  Shape /\ Step.op = "dump" /\ Step.kind = "flow" /\ Step.mark = "initial"
  <2>1. Statement = Dump("flow", "initial")
    BY <1>1, Statements12, Zenon DEF Statement
  <2>2. Width = 1 /\ part = 1 /\ pc \in Loops
    BY <1>1 DEF PlaceType, Width, Loops
  <2>3. /\ Statement.loop /\ Len(Statement.body) = 1 /\ DOMAIN Statement.body = 1..1
        /\ Step.op = "dump" /\ Step.kind = "flow" /\ Step.mark = "initial"
    BY <2>1, <2>2, DumpShape, Zenon
  <2>. QED
    BY <2>2, <2>3 DEF Shape
<1>2. ASSUME pc = 2
      PROVE  Shape /\ Step.op = "dump" /\ Step.kind = "group" /\ Step.mark = "initial"
  <2>1. Statement = Dump("group", "initial")
    BY <1>2, Statements12, Zenon DEF Statement
  <2>2. Width = 1 /\ part = 1 /\ pc \in Loops
    BY <1>2 DEF PlaceType, Width, Loops
  <2>3. /\ Statement.loop /\ Len(Statement.body) = 1 /\ DOMAIN Statement.body = 1..1
        /\ Step.op = "dump" /\ Step.kind = "group" /\ Step.mark = "initial"
    BY <2>1, <2>2, DumpShape, Zenon
  <2>. QED
    BY <2>2, <2>3 DEF Shape
<1>3. ASSUME pc = 3 PROVE Shape /\ Step.op = "boot"
  <2>1. Statement = Once(Do("boot"))
    BY <1>3, Statements12, Zenon DEF Statement
  <2>2. Width = 1 /\ part = 1 /\ pc \notin Loops
    BY <1>3 DEF PlaceType, Width, Loops
  <2>3. /\ ~Statement.loop /\ Len(Statement.body) = 1 /\ DOMAIN Statement.body = 1..1
        /\ Step = Do("boot")
    BY <2>1, <2>2, OnceShape, Zenon
  <2>. QED
    BY <2>2, <2>3, StepShapes DEF Shape
<1>4. ASSUME pc = 4
      PROVE  Shape /\ Step.op = "dump" /\ Step.kind = "flow" /\ Step.mark = "added"
  <2>1. Statement = Dump("flow", "added")
    BY <1>4, Statements12, Zenon DEF Statement
  <2>2. Width = 1 /\ part = 1 /\ pc \in Loops
    BY <1>4 DEF PlaceType, Width, Loops
  <2>3. /\ Statement.loop /\ Len(Statement.body) = 1 /\ DOMAIN Statement.body = 1..1
        /\ Step.op = "dump" /\ Step.kind = "flow" /\ Step.mark = "added"
    BY <2>1, <2>2, DumpShape, Zenon
  <2>. QED
    BY <2>2, <2>3 DEF Shape
<1>5. ASSUME pc = 5
      PROVE  Shape /\ Step.op = "dump" /\ Step.kind = "group" /\ Step.mark = "added"
  <2>1. Statement = Dump("group", "added")
    BY <1>5, Statements12, Zenon DEF Statement
  <2>2. Width = 1 /\ part = 1 /\ pc \in Loops
    BY <1>5 DEF PlaceType, Width, Loops
  <2>3. /\ Statement.loop /\ Len(Statement.body) = 1 /\ DOMAIN Statement.body = 1..1
        /\ Step.op = "dump" /\ Step.kind = "group" /\ Step.mark = "added"
    BY <2>1, <2>2, DumpShape, Zenon
  <2>. QED
    BY <2>2, <2>3 DEF Shape
<1>6. ASSUME pc = 6 PROVE Shape /\ Step.op = "report" /\ Step.name = "new_flows"
  <2>1. Statement = Once(Report("new_flows"))
    BY <1>6, Statements12, Zenon DEF Statement
  <2>2. Width = 1 /\ part = 1 /\ pc \notin Loops
    BY <1>6 DEF PlaceType, Width, Loops
  <2>3. /\ ~Statement.loop /\ Len(Statement.body) = 1 /\ DOMAIN Statement.body = 1..1
        /\ Step = Report("new_flows")
    BY <2>1, <2>2, OnceShape, Zenon
  <2>. QED
    BY <2>2, <2>3, StepShapes DEF Shape
<1>7. ASSUME pc = 7 PROVE Shape /\ Step.op = "report" /\ Step.name = "new_groups"
  <2>1. Statement = Once(Report("new_groups"))
    BY <1>7, Statements12, Zenon DEF Statement
  <2>2. Width = 1 /\ part = 1 /\ pc \notin Loops
    BY <1>7 DEF PlaceType, Width, Loops
  <2>3. /\ ~Statement.loop /\ Len(Statement.body) = 1 /\ DOMAIN Statement.body = 1..1
        /\ Step = Report("new_groups")
    BY <2>1, <2>2, OnceShape, Zenon
  <2>. QED
    BY <2>2, <2>3, StepShapes DEF Shape
<1>8. ASSUME pc = 8 PROVE Shape /\ Step.op = "read"
  <2>1. Statement = Once(Do("read"))
    BY <1>8, Statements12, Zenon DEF Statement
  <2>2. Width = 1 /\ part = 1 /\ pc \notin Loops
    BY <1>8 DEF PlaceType, Width, Loops
  <2>3. /\ ~Statement.loop /\ Len(Statement.body) = 1 /\ DOMAIN Statement.body = 1..1
        /\ Step = Do("read")
    BY <2>1, <2>2, OnceShape, Zenon
  <2>. QED
    BY <2>2, <2>3, StepShapes DEF Shape
<1>9. ASSUME pc = 9
      PROVE  Shape /\ (part = 1 => Step.op = "cut") /\ (part = 2 => Step.op = "set")
  <2>1. Statement = ForEachNode(<<Do("cut"), Do("set")>>)
    BY <1>9, Statements12, Zenon DEF Statement
  <2>2. Width = 2 /\ part \in 1..2 /\ pc \in Loops
    BY <1>9 DEF PlaceType, Width, Loops
  <2>3. /\ Statement.loop /\ Len(Statement.body) = 2 /\ DOMAIN Statement.body = 1..2
        /\ Step = IF part = 1 THEN Do("cut") ELSE Do("set")
    BY <2>1, <2>2, PairShape, Zenon
  <2>. QED
    BY <2>2, <2>3, StepShapes DEF Shape
<1>10. ASSUME pc = 10
       PROVE  Shape /\ Step.op = "dump" /\ Step.kind = "flow" /\ Step.mark = "resync_1"
  <2>1. Statement = Dump("flow", "resync_1")
    BY <1>10, Statements12, Zenon DEF Statement
  <2>2. Width = 1 /\ part = 1 /\ pc \in Loops
    BY <1>10 DEF PlaceType, Width, Loops
  <2>3. /\ Statement.loop /\ Len(Statement.body) = 1 /\ DOMAIN Statement.body = 1..1
        /\ Step.op = "dump" /\ Step.kind = "flow" /\ Step.mark = "resync_1"
    BY <2>1, <2>2, DumpShape, Zenon
  <2>. QED
    BY <2>2, <2>3 DEF Shape
<1>11. ASSUME pc = 11
       PROVE  Shape /\ Step.op = "dump" /\ Step.kind = "group" /\ Step.mark = "resync_1"
  <2>1. Statement = Dump("group", "resync_1")
    BY <1>11, Statements12, Zenon DEF Statement
  <2>2. Width = 1 /\ part = 1 /\ pc \in Loops
    BY <1>11 DEF PlaceType, Width, Loops
  <2>3. /\ Statement.loop /\ Len(Statement.body) = 1 /\ DOMAIN Statement.body = 1..1
        /\ Step.op = "dump" /\ Step.kind = "group" /\ Step.mark = "resync_1"
    BY <2>1, <2>2, DumpShape, Zenon
  <2>. QED
    BY <2>2, <2>3 DEF Shape
<1>12. ASSUME pc = 12 PROVE Shape /\ Step.op = "report" /\ Step.name = "flows_1"
  <2>1. Statement = Once(Report("flows_1"))
    BY <1>12, Statements12, Zenon DEF Statement
  <2>2. Width = 1 /\ part = 1 /\ pc \notin Loops
    BY <1>12 DEF PlaceType, Width, Loops
  <2>3. /\ ~Statement.loop /\ Len(Statement.body) = 1 /\ DOMAIN Statement.body = 1..1
        /\ Step = Report("flows_1")
    BY <2>1, <2>2, OnceShape, Zenon
  <2>. QED
    BY <2>2, <2>3, StepShapes DEF Shape
<1>13. ASSUME pc = 13 PROVE Shape /\ Step.op = "report" /\ Step.name = "groups_1"
  <2>1. Statement = Once(Report("groups_1"))
    BY <1>13, Statements12, Zenon DEF Statement
  <2>2. Width = 1 /\ part = 1 /\ pc \notin Loops
    BY <1>13 DEF PlaceType, Width, Loops
  <2>3. /\ ~Statement.loop /\ Len(Statement.body) = 1 /\ DOMAIN Statement.body = 1..1
        /\ Step = Report("groups_1")
    BY <2>1, <2>2, OnceShape, Zenon
  <2>. QED
    BY <2>2, <2>3, StepShapes DEF Shape
<1>14. ASSUME pc = 14
       PROVE  Shape /\ (part = 1 => Step.op = "block") /\ (part = 2 => Step.op = "unblock")
  <2>1. Statement = ForEachNode(<<Do("block"), Do("unblock")>>)
    BY <1>14, Statements12, Zenon DEF Statement
  <2>2. Width = 2 /\ part \in 1..2 /\ pc \in Loops
    BY <1>14 DEF PlaceType, Width, Loops
  <2>3. /\ Statement.loop /\ Len(Statement.body) = 2 /\ DOMAIN Statement.body = 1..2
        /\ Step = IF part = 1 THEN Do("block") ELSE Do("unblock")
    BY <2>1, <2>2, PairShape, Zenon
  <2>. QED
    BY <2>2, <2>3, StepShapes DEF Shape
<1>15. ASSUME pc = 15
       PROVE  Shape /\ Step.op = "dump" /\ Step.kind = "flow" /\ Step.mark = "resync_2"
  <2>1. Statement = Dump("flow", "resync_2")
    BY <1>15, Statements12, Zenon DEF Statement
  <2>2. Width = 1 /\ part = 1 /\ pc \in Loops
    BY <1>15 DEF PlaceType, Width, Loops
  <2>3. /\ Statement.loop /\ Len(Statement.body) = 1 /\ DOMAIN Statement.body = 1..1
        /\ Step.op = "dump" /\ Step.kind = "flow" /\ Step.mark = "resync_2"
    BY <2>1, <2>2, DumpShape, Zenon
  <2>. QED
    BY <2>2, <2>3 DEF Shape
<1>16. ASSUME pc = 16
       PROVE  Shape /\ Step.op = "dump" /\ Step.kind = "group" /\ Step.mark = "resync_2"
  <2>1. Statement = Dump("group", "resync_2")
    BY <1>16, Statements12, Zenon DEF Statement
  <2>2. Width = 1 /\ part = 1 /\ pc \in Loops
    BY <1>16 DEF PlaceType, Width, Loops
  <2>3. /\ Statement.loop /\ Len(Statement.body) = 1 /\ DOMAIN Statement.body = 1..1
        /\ Step.op = "dump" /\ Step.kind = "group" /\ Step.mark = "resync_2"
    BY <2>1, <2>2, DumpShape, Zenon
  <2>. QED
    BY <2>2, <2>3 DEF Shape
<1>17. ASSUME pc = 17 PROVE Shape /\ Step.op = "report" /\ Step.name = "flows_2"
  <2>1. Statement = Once(Report("flows_2"))
    BY <1>17, Statements12, Zenon DEF Statement
  <2>2. Width = 1 /\ part = 1 /\ pc \notin Loops
    BY <1>17 DEF PlaceType, Width, Loops
  <2>3. /\ ~Statement.loop /\ Len(Statement.body) = 1 /\ DOMAIN Statement.body = 1..1
        /\ Step = Report("flows_2")
    BY <2>1, <2>2, OnceShape, Zenon
  <2>. QED
    BY <2>2, <2>3, StepShapes DEF Shape
<1>18. ASSUME pc = 18 PROVE Shape /\ Step.op = "report" /\ Step.name = "groups_2"
  <2>1. Statement = Once(Report("groups_2"))
    BY <1>18, Statements12, Zenon DEF Statement
  <2>2. Width = 1 /\ part = 1 /\ pc \notin Loops
    BY <1>18 DEF PlaceType, Width, Loops
  <2>3. /\ ~Statement.loop /\ Len(Statement.body) = 1 /\ DOMAIN Statement.body = 1..1
        /\ Step = Report("groups_2")
    BY <2>1, <2>2, OnceShape, Zenon
  <2>. QED
    BY <2>2, <2>3, StepShapes DEF Shape
<1>19. ASSUME pc = 19 PROVE Shape /\ Step.op = "cleanup"
  <2>1. Statement = Once(Do("cleanup"))
    BY <1>19, Statements12, Zenon DEF Statement
  <2>2. Width = 1 /\ part = 1 /\ pc \notin Loops
    BY <1>19 DEF PlaceType, Width, Loops
  <2>3. /\ ~Statement.loop /\ Len(Statement.body) = 1 /\ DOMAIN Statement.body = 1..1
        /\ Step = Do("cleanup")
    BY <2>1, <2>2, OnceShape, Zenon
  <2>. QED
    BY <2>2, <2>3, StepShapes DEF Shape
<1>20. ASSUME pc = 20 PROVE Shape /\ Step.op = "return"
  <2>1. Statement = Once(Do("return"))
    BY <1>20, Statements12, Zenon DEF Statement
  <2>2. Width = 1 /\ part = 1 /\ pc \notin Loops
    BY <1>20 DEF PlaceType, Width, Loops
  <2>3. /\ ~Statement.loop /\ Len(Statement.body) = 1 /\ DOMAIN Statement.body = 1..1
        /\ Step = Do("return")
    BY <2>1, <2>2, OnceShape, Zenon
  <2>. QED
    BY <2>2, <2>3, StepShapes DEF Shape
<1>21. pc \in 1..20
  BY DEF PlaceType, Last
<1>22. pc = 1 \/ pc = 2 \/ pc = 3 \/ pc = 4 \/ pc = 5 \/ pc = 6 \/ pc = 7 \/ pc = 8
       \/ pc = 9 \/ pc = 10 \/ pc = 11 \/ pc = 12 \/ pc = 13 \/ pc = 14 \/ pc = 15
       \/ pc = 16 \/ pc = 17 \/ pc = 18 \/ pc = 19 \/ pc = 20
  BY <1>21
<1>23. Shape
  BY <1>1, <1>2, <1>3, <1>4, <1>5, <1>6, <1>7, <1>8, <1>9, <1>10, <1>11, <1>12, <1>13,
     <1>14, <1>15, <1>16, <1>17, <1>18, <1>19, <1>20, <1>22, Zenon
<1>24. Ops12
  BY <1>1, <1>2, <1>3, <1>4, <1>5, <1>6, <1>7, <1>8, <1>9, <1>10, <1>11, <1>12, <1>13,
     <1>14, <1>15, <1>16, <1>17, <1>18, <1>19, <1>20, Zenon DEF Ops12, Says12
<1>. QED
  BY <1>23, <1>24, Zenon

\* Where the finally begins.
LEMMA FinallyPlace ==
  ASSUME tc \in {"tc11", "tc12"}
  PROVE  CleanupAt = In(7, 19)
<1>1. /\ \A x : ~Once(x).loop
      /\ \A body : ForEachNode(body).loop
  BY DEF Once, ForEachNode
<1>2. \A kind, mark : Dump(kind, mark).loop
  BY DEF Dump, ForEachNode
<1>3. \A x, y : Once(x) = Once(y) => x = y
  BY DEF Once
<1>. DEFINE goal == Once(Do("cleanup"))
<1>4. \A kind, mark : Dump(kind, mark) # goal
  BY <1>1, <1>2
<1>5. \A body : ForEachNode(body) # goal
  BY <1>1
<1>6. \A op : op # "cleanup" => Once(Do(op)) # goal
  <2>1. \A op : op # "cleanup" => Do(op) # Do("cleanup")
    BY DEF Do
  <2>. QED
    BY <1>3, <2>1, Zenon
<1>7. \A name : Once(Report(name)) # goal
  <2>1. \A name : Report(name) # Do("cleanup")
    BY DEF Report, Do
  <2>. QED
    BY <1>3, <2>1, Zenon
<1>8. Once(Do("boot")) # goal /\ Once(Do("read")) # goal /\ Once(Do("return")) # goal
  <2>1. "boot" # "cleanup" /\ "read" # "cleanup" /\ "return" # "cleanup"
    OBVIOUS
  <2>. QED
    BY <1>6, <2>1, Zenon
<1>11. "cut" # "cleanup" /\ "set" # "cleanup" /\ "block" # "cleanup" /\ "unblock" # "cleanup"
  OBVIOUS
<1>. HIDE DEF goal
<1>9. CASE tc = "tc11"
  <2>1. 7 \in 1..11 /\ In(7, 19) = 7
    BY <1>9 DEF In
  <2>. DEFINE S == Script["tc11"]
  <2>2. /\ S[1] # goal
        /\ S[2] # goal
        /\ S[3] # goal
        /\ S[4] # goal
        /\ S[5] # goal
        /\ S[6] # goal
        /\ S[8] # goal
        /\ S[9] # goal
        /\ S[10] # goal
        /\ S[11] # goal
    BY <1>4, <1>5, <1>7, <1>8, Statements11, Zenon
  <2>3. S[7] = goal /\ DOMAIN S = 1..11
    BY Statements11, Zenon DEF goal
  <2>. HIDE DEF S
  <2>4. \A i \in 1..11 : S[i] = goal <=> i = 7
    <3>. SUFFICES ASSUME NEW i \in 1..11, i # 7  PROVE S[i] # goal
      BY <2>3
    <3>1. i = 1 \/ i = 2 \/ i = 3 \/ i = 4 \/ i = 5 \/ i = 6 \/ i = 8 \/ i = 9
          \/ i = 10 \/ i = 11
      OBVIOUS
    <3>. QED
      BY <2>2, <3>1
  <2>5. CleanupAt = CHOOSE i \in 1..11 : S[i] = goal
    BY <1>9, <2>3, Zenon DEF CleanupAt, S, goal
  <2>. QED
    BY <2>1, <2>4, <2>5
<1>10. CASE tc = "tc12"
  <2>1. 19 \in 1..20 /\ In(7, 19) = 19
    BY <1>10 DEF In
  <2>. DEFINE S == Script["tc12"]
  <2>2. /\ S[1] # goal /\ S[2] # goal /\ S[4] # goal /\ S[5] # goal
        /\ S[10] # goal /\ S[11] # goal /\ S[15] # goal /\ S[16] # goal
    BY <1>4, Statements12, Zenon
  <2>6. /\ S[6] # goal /\ S[7] # goal /\ S[12] # goal /\ S[13] # goal
        /\ S[17] # goal /\ S[18] # goal
    BY <1>7, Statements12, Zenon
  <2>7. S[3] # goal /\ S[8] # goal /\ S[9] # goal /\ S[14] # goal /\ S[20] # goal
    BY <1>5, <1>8, Statements12, Zenon
  <2>3. S[19] = goal /\ DOMAIN S = 1..20
    BY Statements12, Zenon DEF goal
  <2>. HIDE DEF S
  <2>4. \A i \in 1..20 : S[i] = goal <=> i = 19
    <3>. SUFFICES ASSUME NEW i \in 1..20, i # 19  PROVE S[i] # goal
      BY <2>3
    <3>1. i = 1 \/ i = 2 \/ i = 3 \/ i = 4 \/ i = 5 \/ i = 6 \/ i = 7 \/ i = 8
          \/ i = 9 \/ i = 10 \/ i = 11 \/ i = 12 \/ i = 13 \/ i = 14 \/ i = 15
          \/ i = 16 \/ i = 17 \/ i = 18 \/ i = 20
      OBVIOUS
    <3>. QED
      BY <2>2, <2>6, <2>7, <3>1
  <2>5. CleanupAt = CHOOSE i \in 1..20 : S[i] = goal
    BY <1>10, <2>3, Zenon DEF CleanupAt, S, goal
  <2>. QED
    BY <2>1, <2>4, <2>5
<1>. QED
  BY <1>9, <1>10, Zenon

LEMMA UpTo11 == \A p \in 1..11 : p = 1 \/ p = 2 \/ p = 3 \/ p = 4 \/ p = 5 \/ p = 6
\/ p = 7 \/ p = 8 \/ p = 9 \/ p = 10 \/ p = 11
OBVIOUS

LEMMA UpTo20 == \A p \in 1..20 : p = 1 \/ p = 2 \/ p = 3 \/ p = 4 \/ p = 5 \/ p = 6
\/ p = 7 \/ p = 8 \/ p = 9 \/ p = 10 \/ p = 11 \/ p = 12 \/ p = 13 \/ p = 14 \/ p = 15
\/ p = 16 \/ p = 17 \/ p = 18 \/ p = 19 \/ p = 20
OBVIOUS

\* Where main is when it does what.
PlaceOf(p, k, op, kind, mark, name) ==
  /\ op = "boot" <=> p = In(2, 3)
  /\ op = "read" <=> p = In(5, 8)
  /\ op = "cut" <=> p = In(6, 9) /\ k = 1
  /\ op = "set" <=> p = In(8, 9) /\ (tc = "tc12" => k = 2)
  /\ op = "block" <=> tc = "tc12" /\ p = 14 /\ k = 1
  /\ op = "unblock" <=> tc = "tc12" /\ p = 14 /\ k = 2
  /\ op = "cleanup" <=> p = In(7, 19)
  /\ op = "return" <=> p = Last
  /\ op = "dump" =>
       /\ kind \in Kinds /\ mark \in Marks
       /\ p = DumpAt(kind, mark) /\ p \in Loops
  /\ op = "report" =>
       /\ name \in Checks /\ p \notin Loops
       /\ name = "new_group" <=> tc = "tc11" /\ p = 4
       /\ name = "group_deleted" <=> tc = "tc11" /\ p = 10
       /\ name = "new_flows" <=> tc = "tc12" /\ p = 6
       /\ name = "new_groups" <=> tc = "tc12" /\ p = 7
       /\ name = "flows_1" <=> tc = "tc12" /\ p = 12
       /\ name = "groups_1" <=> tc = "tc12" /\ p = 13
       /\ name = "flows_2" <=> tc = "tc12" /\ p = 17
       /\ name = "groups_2" <=> tc = "tc12" /\ p = 18

LEMMA Lookup11 ==
  ASSUME tc = "tc11", NEW p \in 1..11, NEW k \in 1..2, k = 1, NEW op, NEW kind, NEW mark,
         NEW name,
         Says11(p, k, op, kind, mark, name)
  PROVE  PlaceOf(p, k, op, kind, mark, name)
<1>1. In(2, 3) = 2 /\ In(5, 8) = 5 /\ In(6, 9) = 6 /\ In(8, 9) = 8 /\ In(7, 19) = 7 /\ Last = 11
  BY DEF In, Last
<1>2. p = 1 \/ p = 2 \/ p = 3 \/ p = 4 \/ p = 5 \/ p = 6 \/ p = 7 \/ p = 8 \/ p = 9
      \/ p = 10 \/ p = 11
  BY UpTo11, Zenon
<1>3. /\ op = "boot" <=> p = 2
      /\ op = "read" <=> p = 5
      /\ op = "cut" <=> p = 6
      /\ op = "set" <=> p = 8
      /\ op = "block" <=> FALSE
      /\ op = "unblock" <=> FALSE
      /\ op = "cleanup" <=> p = 7
      /\ op = "return" <=> p = 11
  BY <1>2 DEF Says11
<1>4. /\ op = "dump" => /\ kind \in Kinds /\ mark \in Marks
                              /\ p = DumpAt(kind, mark) /\ p \in Loops
  BY <1>2 DEF Says11 , Kinds, Marks, DumpAt, Loops
<1>5. /\ op = "report" => /\ name \in Checks /\ p \notin Loops
                          /\ name = "new_group" <=> p = 4
                          /\ name = "group_deleted" <=> p = 10
                          /\ name = "new_flows" <=> FALSE
                          /\ name = "new_groups" <=> FALSE
                          /\ name = "flows_1" <=> FALSE
                          /\ name = "groups_1" <=> FALSE
                          /\ name = "flows_2" <=> FALSE
                          /\ name = "groups_2" <=> FALSE
  BY <1>2 DEF Says11, Checks, Loops
<1>6. /\ op = "boot" <=> p = In(2, 3)
      /\ op = "read" <=> p = In(5, 8)
      /\ op = "cut" <=> p = In(6, 9) /\ k = 1
      /\ op = "set" <=> p = In(8, 9) /\ (tc = "tc12" => k = 2)
      /\ op = "block" <=> tc = "tc12" /\ p = 14 /\ k = 1
      /\ op = "unblock" <=> tc = "tc12" /\ p = 14 /\ k = 2
      /\ op = "cleanup" <=> p = In(7, 19)
      /\ op = "return" <=> p = Last
  BY <1>1, <1>3
<1>7. tc = "tc11" /\ tc # "tc12"
  OBVIOUS
<1>. QED
  BY <1>4, <1>5, <1>6, <1>7, Zenon DEF PlaceOf

LEMMA Lookup12 ==
  ASSUME tc = "tc12", NEW p \in 1..20, NEW k \in 1..2, NEW op, NEW kind, NEW mark, NEW name,
         Says12(p, k, op, kind, mark, name)
  PROVE  PlaceOf(p, k, op, kind, mark, name)
<1>1. In(2, 3) = 3 /\ In(5, 8) = 8 /\ In(6, 9) = 9 /\ In(8, 9) = 9 /\ In(7, 19) = 19 /\ Last = 20
  BY DEF In, Last
<1>2. p = 1 \/ p = 2 \/ p = 3 \/ p = 4 \/ p = 5 \/ p = 6 \/ p = 7 \/ p = 8 \/ p = 9
      \/ p = 10 \/ p = 11 \/ p = 12 \/ p = 13 \/ p = 14 \/ p = 15 \/ p = 16 \/ p = 17
      \/ p = 18 \/ p = 19 \/ p = 20
  BY UpTo20, Zenon
<1>3. /\ op = "boot" <=> p = 3
      /\ op = "read" <=> p = 8
      /\ op = "cut" <=> p = 9 /\ k = 1
      /\ op = "set" <=> p = 9 /\ k = 2
      /\ op = "block" <=> p = 14 /\ k = 1
      /\ op = "unblock" <=> p = 14 /\ k = 2
      /\ op = "cleanup" <=> p = 19
      /\ op = "return" <=> p = 20
  BY <1>2 DEF Says12
<1>4. /\ op = "dump" => /\ kind \in Kinds /\ mark \in Marks
                              /\ p = DumpAt(kind, mark) /\ p \in Loops
  BY <1>2 DEF Says12 , Kinds, Marks, DumpAt, Loops
<1>5. /\ op = "report" => /\ name \in Checks /\ p \notin Loops
                          /\ name = "new_group" <=> FALSE
                          /\ name = "group_deleted" <=> FALSE
                          /\ name = "new_flows" <=> p = 6
                          /\ name = "new_groups" <=> p = 7
                          /\ name = "flows_1" <=> p = 12
                          /\ name = "groups_1" <=> p = 13
                          /\ name = "flows_2" <=> p = 17
                          /\ name = "groups_2" <=> p = 18
  BY <1>2 DEF Says12, Checks, Loops
<1>6. /\ op = "boot" <=> p = In(2, 3)
      /\ op = "read" <=> p = In(5, 8)
      /\ op = "cut" <=> p = In(6, 9) /\ k = 1
      /\ op = "set" <=> p = In(8, 9) /\ (tc = "tc12" => k = 2)
      /\ op = "block" <=> tc = "tc12" /\ p = 14 /\ k = 1
      /\ op = "unblock" <=> tc = "tc12" /\ p = 14 /\ k = 2
      /\ op = "cleanup" <=> p = In(7, 19)
      /\ op = "return" <=> p = Last
  BY <1>1, <1>3
<1>7. tc = "tc12" /\ tc # "tc11"
  OBVIOUS
<1>. QED
  BY <1>4, <1>5, <1>6, <1>7, Zenon DEF PlaceOf

LEMMA Places ==
  ASSUME PlaceType
  PROVE  PlaceOf(pc, part, Step.op, Step.kind, Step.mark, Step.name)
<1>1. CASE tc = "tc11"
  <2>1. pc \in 1..11 /\ part \in 1..2 /\ part = 1
    BY <1>1 DEF PlaceType, Last, Width
  <2>. QED
    BY <1>1, <2>1, Steps11, Lookup11, Zenon DEF Ops11
<1>2. CASE tc = "tc12"
  <2>1. pc \in 1..20 /\ part \in 1..2
    BY <1>2 DEF PlaceType, Last, Width
  <2>. QED
    BY <1>2, <2>1, Steps12, Lookup12, Zenon DEF Ops12
<1>. QED
  BY <1>1, <1>2, Zenon DEF PlaceType

-----------------------------------------------------------------------------
\* Where main gets to.
LEMMA Moves ==
  ASSUME PlaceType, NextStep, pc # Last, UNCHANGED tc
  PROVE  \/ pc' = pc /\ at' = at /\ part = 1 /\ part' = 2 /\ Width = 2
         \/ /\ pc' = pc /\ at < NodeCount /\ at' = at + 1 /\ part = Width
            /\ part' = 1 /\ pc \in Loops
         \/ /\ pc' = pc + 1 /\ at' = 1 /\ part = Width /\ part' = 1
            /\ pc \in Loops => at = NodeCount
<1>1. Shape
  BY Steps11, Steps12, Zenon DEF PlaceType
<1>2. part \in 1..Width /\ Width \in 1..2 /\ at \in 1..NodeCount /\ NodeCount \in Nat
  BY NodeAssumption DEF PlaceType, Node, Width
<1>. DEFINE len == Len(Statement.body)
            loop == Statement.loop
<1>3. len = Width /\ (loop <=> pc \in Loops)
  BY <1>1, Zenon DEF Shape
<1>4. \/ part < len /\ part' = part + 1 /\ UNCHANGED <<pc, at>>
      \/ /\ part = len /\ part' = 1
         /\ \/ loop /\ at < NodeCount /\ at' = at + 1 /\ UNCHANGED pc
            \/ ~(loop /\ at < NodeCount) /\ at' = 1 /\ pc' = pc + 1
  BY Zenon DEF NextStep
<1>. HIDE DEF len, loop
<1>. QED
  BY <1>2, <1>3, <1>4

LEMMA MovesType ==
  ASSUME PlaceType, NextStep, pc # Last, UNCHANGED tc
  PROVE  PlaceType'
<1>1. NodeCount \in Nat /\ NodeCount >= 1 /\ at \in 1..NodeCount /\ Width \in 1..2
  BY NodeAssumption DEF PlaceType, Node, Width
<1>2. CASE pc' = pc /\ at' = at /\ part = 1 /\ part' = 2 /\ Width = 2
  BY <1>1, <1>2 DEF PlaceType, Width, Last, Loops, Node
<1>3. CASE pc' = pc /\ at < NodeCount /\ at' = at + 1 /\ part' = 1 /\ pc \in Loops
  BY <1>1, <1>3 DEF PlaceType, Width, Last, Loops, Node
<1>4. CASE pc' = pc + 1 /\ at' = 1 /\ part' = 1
  BY <1>1, <1>4 DEF PlaceType, Width, Last, Loops, Node
<1>. QED
  BY <1>2, <1>3, <1>4, Moves

LEMMA RaiseType ==
  ASSUME PlaceType, Raise
  PROVE  PlaceType'
<1>1. CleanupAt = In(7, 19)
  BY FinallyPlace DEF PlaceType
<1>2. /\ tc' = tc
      /\ \/ pc' = In(7, 19) /\ at' = 1 /\ part' = 1
         \/ pc' = pc /\ at' = at /\ part' = part
  BY <1>1 DEF Raise, place
<1>3. 1 \in Node
  BY NodeAssumption DEF Node
<1>4. CASE pc' = pc /\ at' = at /\ part' = part
  BY <1>2, <1>4 DEF PlaceType, Width, Last, Loops
<1>5. CASE pc' = In(7, 19) /\ at' = 1 /\ part' = 1
  <2>1. CASE tc = "tc11"
    BY <1>2, <1>3, <1>5, <2>1 DEF PlaceType, Width, Last, Loops, In
  <2>2. CASE tc = "tc12"
    BY <1>2, <1>3, <1>5, <2>2 DEF PlaceType, Width, Last, Loops, In
  <2>. QED
    BY <2>1, <2>2 DEF PlaceType
<1>. QED
  BY <1>2, <1>4, <1>5

-----------------------------------------------------------------------------
\* The rest of TypeOK.
Types ==
  /\ status \in {"running", "returned", "raised"} /\ exc \in BOOLEAN
  /\ conn \in Target
  /\ lines \in [Marks -> Table]
  /\ said \in [Checks -> {"none", "PASS", "FAIL"}]
  /\ target \in [Node -> Target] /\ blocked \in [Node -> Nat]
  /\ have \in [Node -> Table] /\ want \in [Node -> Table]
  /\ host \in [node : Node, up : BOOLEAN] /\ extra \in 0..MaxExtra
  /\ start \in Found
  /\ fault \subseteq {"lost", "raised", "refused"} /\ late \in BOOLEAN

\* An exception of the try is on its way through the finally, and one of main
\* ends it; only the last statement returns.
Control ==
  /\ exc /\ status = "running" => pc = In(7, 19)
  /\ exc \/ status = "raised" => "raised" \in fault
  /\ status = "returned" => pc = Last /\ ~exc

\* The two instances are up.
Extra(n, x) == IF host.up /\ n = host.node THEN x ELSE 0

\* OpenDaylight wants what it found on the switches, what the two instances
\* need while they are there, and flows it adds on its own.
Wants ==
  /\ \A n \in Node :
       /\ have[n].group >= start.have[n].group
       /\ want[n].group = start.have[n].group + Extra(n, VmGroups)
       /\ want[n].flow >= start.have[n].flow + Extra(n, 1)
  /\ pc <= In(2, 3) => ~host.up /\ have = start.have /\ want = start.have
  /\ fault = {} => (host.up <=> In(2, 3) < pc /\ pc <= In(7, 19))

Base == PlaceType /\ Types /\ Control /\ Wants

LEMMA Numbers ==
  ASSUME PlaceType
  PROVE  /\ pc \in Nat /\ at \in 1..NodeCount /\ NodeCount \in Nat /\ NodeCount >= 1
         /\ In(2, 3) \in Nat /\ In(7, 19) \in Nat /\ Last \in Nat
         /\ In(2, 3) < In(7, 19) /\ In(7, 19) < Last /\ pc <= Last
BY NodeAssumption DEF PlaceType, Last, In, Node

LEMMA AdvanceControl ==
  ASSUME PlaceType, Control, Advance, status = "running", pc # Last,
         fault \subseteq fault'
  PROVE  /\ PlaceType' /\ Control'
         /\ tc' = tc /\ exc' = exc
         /\ \/ /\ exc /\ status' = "raised" /\ pc = In(7, 19)
               /\ pc' = pc /\ at' = at /\ part' = part
            \/ ~exc /\ status' = "running" /\ NextStep
<1>1. /\ tc' = tc /\ exc' = exc
      /\ \/ /\ exc /\ status' = "raised"
            /\ pc' = pc /\ at' = at /\ part' = part
         \/ ~exc /\ status' = "running" /\ NextStep
  BY Zenon DEF Advance, place
<1>2. exc => pc = In(7, 19) /\ "raised" \in fault
  BY DEF Control
<1>3. PlaceType'
  <2>1. CASE pc' = pc /\ at' = at /\ part' = part
    BY <1>1, <2>1 DEF PlaceType, Width, Last, Loops
  <2>2. CASE NextStep
    BY <1>1, <2>2, MovesType
  <2>. QED
    BY <1>1, <2>1, <2>2
<1>4. Control'
  BY <1>1, <1>2 DEF Control, In, Last
<1>. QED
  BY <1>1, <1>2, <1>3, <1>4, Zenon

LEMMA RaiseControl ==
  ASSUME PlaceType, Control, Raise, status = "running"
  PROVE  /\ PlaceType' /\ Control'
         /\ tc' = tc /\ fault' = fault \cup {"raised"}
         /\ UNCHANGED <<lines, said, conn, late>>
         /\ pc' >= In(7, 19) /\ status' \in {"running", "raised"}
         /\ exc' \in {TRUE, exc} /\ (exc' \/ status' = "raised")
<1>1. CleanupAt = In(7, 19)
  BY FinallyPlace DEF PlaceType
<1>2. /\ tc' = tc /\ fault' = fault \cup {"raised"}
      /\ UNCHANGED <<lines, said, conn, late>>
      /\ \/ pc' = In(7, 19) /\ exc' = TRUE /\ status' = status
         \/ pc' = pc /\ pc >= In(7, 19) /\ status' = "raised" /\ exc' = exc
  BY <1>1 DEF Raise, place
<1>3. PlaceType'
  BY RaiseType
<1>4. Control'
  BY <1>2 DEF Control, In, Last
<1>5. pc' >= In(7, 19)
  BY <1>2, Numbers
<1>. QED
  BY <1>2, <1>3, <1>4, <1>5

LEMMA StartType ==
  ASSUME start \in Found
  PROVE  /\ start.target \in [Node -> Target] /\ start.blocked \in [Node -> Nat]
         /\ start.have \in [Node -> Table]
BY FoundAssumption

LEMMA Base_Init ==
  ASSUME Init
  PROVE  Base
<1>1. /\ tc \in {"tc11", "tc12"} /\ pc = 1 /\ at = 1 /\ part = 1
      /\ status = "running" /\ exc = FALSE /\ fault = {}
      /\ have = start.have /\ want = start.have
      /\ host \in [node : Node, up : {FALSE}] /\ start \in Found
  BY DEF Init
<1>2. PlaceType
  BY <1>1, NodeAssumption DEF PlaceType, Last, Loops, Width, Node
<1>3. Types
  <2>1. /\ have \in [Node -> Table] /\ want \in [Node -> Table]
        /\ target \in [Node -> Target] /\ blocked \in [Node -> Nat]
    BY <1>1, StartType DEF Init
  <2>2. lines \in [Marks -> Table] /\ said \in [Checks -> {"none", "PASS", "FAIL"}]
    BY DEF Init, Table
  <2>3. conn \in Target /\ extra \in 0..MaxExtra /\ late \in BOOLEAN
    <3>1. conn = NoController /\ extra = 0 /\ late = FALSE
      BY DEF Init
    <3>. QED
      <4>1. conn \in Target
        BY <3>1 DEF Target
      <4>2. extra \in 0..MaxExtra
        BY <3>1, BoundAssumption
      <4>3. late \in BOOLEAN
        BY <3>1
      <4>. QED
        BY <4>1, <4>2, <4>3
  <2>4. host \in [node : Node, up : BOOLEAN]
    BY <1>1
  <2>. QED
    BY <1>1, <2>1, <2>2, <2>3, <2>4 DEF Types
<1>4. Control
  BY <1>1 DEF Control
<1>5. Wants
  <2>1. have \in [Node -> [Kinds -> Nat]] /\ VmGroups \in Nat /\ ~host.up
    BY <1>1, StartType, BoundAssumption DEF Table
  <2>2. \A n \in Node :
          /\ have[n].group >= start.have[n].group
          /\ want[n].group = start.have[n].group + Extra(n, VmGroups)
          /\ want[n].flow >= start.have[n].flow + Extra(n, 1)
    BY <1>1, <2>1 DEF Extra, Kinds
  <2>3. fault = {} => (host.up <=> In(2, 3) < pc /\ pc <= In(7, 19))
    BY <1>1, <2>1 DEF In
  <2>. QED
    BY <1>1, <2>1, <2>2, <2>3 DEF Wants
<1>. QED
  BY <1>2, <1>3, <1>4, <1>5 DEF Base

\* Steps of main that leave OpenDaylight and the instances alone.
LEMMA WantsKept ==
  ASSUME Base, tc' = tc, UNCHANGED <<have, want, host, start>>, fault \subseteq fault',
         pc' \in Nat, pc' >= pc \/ pc' >= In(7, 19),
         fault' = {} => /\ In(2, 3) < pc <=> In(2, 3) < pc'
                        /\ pc <= In(7, 19) <=> pc' <= In(7, 19)
  PROVE  Wants'
<1>1. \A x, y : In(x, y)' = In(x, y)
  BY DEF In
<1>2. \A n \in Node : /\ have'[n].group >= start'.have[n].group
                      /\ want'[n].group = start'.have[n].group + Extra(n, VmGroups)'
                      /\ want'[n].flow >= start'.have[n].flow + Extra(n, 1)'
  BY DEF Base, Wants, Extra
<1>3. pc' <= In(2, 3) => ~host'.up /\ have' = start'.have /\ want' = start'.have
  <2>1. pc' <= In(2, 3) => pc <= In(2, 3)
    BY Numbers DEF Base
  <2>. QED
    BY <2>1 DEF Base, Wants
<1>4. fault' = {} => fault = {}
  OBVIOUS
<1>5. fault' = {} => (host'.up <=> In(2, 3) < pc' /\ pc' <= In(7, 19))
  BY <1>4 DEF Base, Wants
<1>. QED
  BY <1>1, <1>2, <1>3, <1>5 DEF Wants

LEMMA Ordinary ==
  ASSUME Base, Advance, status = "running", pc \notin {In(2, 3), In(7, 19), Last},
         UNCHANGED <<have, want, host, start>>, fault \subseteq fault'
  PROVE  /\ PlaceType' /\ Control' /\ Wants'
         /\ tc' = tc /\ ~exc /\ exc' = exc /\ status' = "running" /\ NextStep
<1>1. /\ PlaceType' /\ Control' /\ tc' = tc /\ exc' = exc
      /\ ~exc /\ status' = "running" /\ NextStep
  BY AdvanceControl DEF Base
<1>2. pc' = pc \/ pc' = pc + 1
  BY <1>1, Moves DEF Base
<1>3. Wants'
  <2>1. pc \in Nat /\ In(2, 3) \in Nat /\ In(7, 19) \in Nat
    BY Numbers DEF Base
  <2>2. /\ pc' >= pc /\ pc' \in Nat
        /\ In(2, 3) < pc <=> In(2, 3) < pc'
        /\ pc <= In(7, 19) <=> pc' <= In(7, 19)
    BY <1>2, <2>1
  <2>. QED
    BY <1>1, <2>2, WantsKept
<1>. QED
  BY <1>1, <1>3

LEMMA Raised ==
  ASSUME Base, Raise, status = "running", UNCHANGED <<have, want, host, start>>
  PROVE  /\ PlaceType' /\ Control' /\ Wants'
         /\ tc' = tc /\ fault' = fault \cup {"raised"}
         /\ UNCHANGED <<lines, said, conn, late>>
         /\ status' \in {"running", "raised"} /\ exc' \in {TRUE, exc}
         /\ exc' \/ status' = "raised"
<1>1. /\ PlaceType' /\ Control'
      /\ tc' = tc /\ fault' = fault \cup {"raised"}
      /\ UNCHANGED <<lines, said, conn, late>>
      /\ pc' >= In(7, 19) /\ status' \in {"running", "raised"}
      /\ exc' \in {TRUE, exc} /\ (exc' \/ status' = "raised")
  BY RaiseControl DEF Base
<1>2. Wants'
  <2>1. fault \subseteq fault' /\ fault' # {} /\ pc' \in Nat
    BY <1>1 DEF PlaceType, Last
  <2>. QED
    BY <1>1, <2>1, WantsKept
<1>. QED
  BY <1>1, <1>2


LEMMA Base_Count ==
  ASSUME Base, Count
  PROVE  Base'
<1>. DEFINE kind == Step.kind
            mark == Step.mark
<1>1. /\ status = "running" /\ Step.op = "dump"
      /\ lines' = [lines EXCEPT ![mark][kind] = @ + Lines(have[at][kind])]
      /\ late' = (late \/ have[at] # want[at])
      /\ Advance
      /\ UNCHANGED <<conn, said, ovsVars, odlVars, start, fault>>
  BY Zenon DEF Count, Running
<1>2. kind \in Kinds /\ mark \in Marks /\ pc \in Loops
  BY <1>1, Places, Zenon DEF PlaceOf, Base
<1>. HIDE DEF kind, mark
<1>3. pc \notin {In(2, 3), In(7, 19), Last}
  BY <1>2 DEF Base, PlaceType, Last, Loops, In
<1>4. UNCHANGED <<have, want, host, extra, start, fault, conn, said, target, blocked>>
  BY <1>1 DEF odlVars, ovsVars
<1>5. PlaceType' /\ Control' /\ Wants' /\ status' = "running" /\ exc' = exc
  BY <1>1, <1>3, <1>4, Ordinary
<1>6. Types'
  <2>1. lines \in [Marks -> [Kinds -> Nat]] /\ have[at] \in [Kinds -> Nat]
    BY DEF Base, Types, Table, PlaceType
  <2>2. Lines(have[at][kind]) \in Nat
    BY <1>2, <2>1 DEF Lines
  <2>3. lines' \in [Marks -> [Kinds -> Nat]]
    BY <1>1, <1>2, <2>1, <2>2
  <2>4. late' \in BOOLEAN
    BY <1>1 DEF Base, Types
  <2>. QED
    BY <1>4, <1>5, <2>3, <2>4 DEF Base, Types, Table
<1>. QED
  BY <1>5, <1>6 DEF Base

LEMMA Base_Check ==
  ASSUME Base, Check
  PROVE  Base'
<1>. DEFINE name == Step.name
            word == IF Success(name) THEN "PASS" ELSE "FAIL"
<1>1. /\ status = "running" /\ Step.op = "report"
      /\ said' = [said EXCEPT ![name] = word]
      /\ Advance
      /\ UNCHANGED <<conn, lines, ovsVars, odlVars, start, fault, late>>
  BY Zenon DEF Check, Running
<1>2. name \in Checks /\ pc \notin {In(2, 3), In(7, 19), Last}
  <2>1. "report" # "boot" /\ "report" # "cleanup" /\ "report" # "return"
    OBVIOUS
  <2>2. Step.op # "boot" /\ Step.op # "cleanup" /\ Step.op # "return" /\ name \in Checks
    BY <1>1, <2>1, Places, Zenon DEF PlaceOf, Base
  <2>3. pc # In(2, 3) /\ pc # In(7, 19) /\ pc # Last
    BY <2>2, Places, Zenon DEF PlaceOf, Base
  <2>. QED
    BY <2>2, <2>3
<1>3. word \in {"none", "PASS", "FAIL"}
  OBVIOUS
<1>. HIDE DEF name, word
<1>4. UNCHANGED <<have, want, host, extra, start, fault, conn, lines, late, target, blocked>>
  BY <1>1 DEF odlVars, ovsVars
<1>5. PlaceType' /\ Control' /\ Wants' /\ status' = "running" /\ exc' = exc
  BY <1>1, <1>2, <1>4, Ordinary
<1>6. Types'
  BY <1>1, <1>2, <1>3, <1>4, <1>5 DEF Base, Types
<1>. QED
  BY <1>5, <1>6 DEF Base

LEMMA Base_Read ==
  ASSUME Base, Read
  PROVE  Base'
<1>1. /\ status = "running" /\ Step.op = "read" /\ conn' = target[1] /\ Advance
      /\ UNCHANGED <<have, want, host, extra, start, fault, said, lines, late, target, blocked>>
  BY Zenon DEF Read, Running, odlVars, ovsVars
<1>2. pc = In(5, 8)
  BY <1>1, Places, Zenon DEF PlaceOf, Base
<1>3. pc \notin {In(2, 3), In(7, 19), Last}
  BY <1>2 DEF Base, PlaceType, In, Last
<1>4. PlaceType' /\ Control' /\ Wants' /\ status' = "running" /\ exc' = exc
  BY <1>1, <1>3, Ordinary
<1>5. Types'
  BY <1>1, <1>4, NodeAssumption DEF Base, Types, Node
<1>. QED
  BY <1>4, <1>5 DEF Base

\* What is left of a switch after a command, or one that raised.
LEMMA Commanded ==
  ASSUME Base,
         \/ UNCHANGED ovsVars
         \/ SetTarget(NoController) \/ SetTarget(conn)
         \/ SetRules(blocked[at] + 1) \/ (blocked[at] > 0 /\ SetRules(blocked[at] - 1))
  PROVE  target' \in [Node -> Target] /\ blocked' \in [Node -> Nat]
<1>1. /\ target \in [Node -> Target] /\ blocked \in [Node -> Nat] /\ at \in Node
      /\ conn \in Target /\ NoController \in Target
  BY DEF Base, Types, PlaceType, Target
<1>2. CASE UNCHANGED ovsVars
  BY <1>1, <1>2 DEF ovsVars
<1>3. CASE SetTarget(NoController) \/ SetTarget(conn)
  BY <1>1, <1>3 DEF SetTarget
<1>4. CASE SetRules(blocked[at] + 1) \/ (blocked[at] > 0 /\ SetRules(blocked[at] - 1))
  <2>1. blocked[at] \in Nat
    BY <1>1
  <2>. QED
    BY <1>1, <1>4, <2>1 DEF SetRules
<1>. QED
  BY <1>2, <1>3, <1>4

\* A command that main gave.
LEMMA Base_Told ==
  ASSUME Base, NEW op \in {"cut", "set", "block", "unblock"},
         Running(op), Advance, UNCHANGED <<have, want, host, extra, start>>,
         UNCHANGED <<conn, lines, said, late>>,
         fault' \in {fault, fault \cup {"lost"}},
         target' \in [Node -> Target], blocked' \in [Node -> Nat]
  PROVE  Base'
<1>1. status = "running" /\ Step.op = op
  BY Zenon DEF Running
<1>2. pc \notin {In(2, 3), In(7, 19), Last}
  <2>1. op # "boot" /\ op # "cleanup" /\ op # "return"
    OBVIOUS
  <2>2. pc # In(2, 3) /\ pc # In(7, 19) /\ pc # Last
    BY <1>1, <2>1, Places, Zenon DEF PlaceOf, Base
  <2>. QED
    BY <2>2
<1>3. PlaceType' /\ Control' /\ Wants' /\ status' = "running" /\ exc' = exc
  BY <1>1, <1>2, Ordinary
<1>4. Types'
  BY <1>3 DEF Base, Types
<1>. QED
  BY <1>3, <1>4 DEF Base

LEMMA Base_Commands ==
  ASSUME Base, Cut \/ Set \/ Block \/ Unblock
  PROVE  Base'
<1>1. PICK op \in {"cut", "set", "block", "unblock"} :
        /\ Running(op) /\ Advance
        /\ UNCHANGED <<conn, lines, said, odlVars, start, late>>
        /\ fault' \in {fault, fault \cup {"lost"}}
        /\ \/ UNCHANGED ovsVars
           \/ SetTarget(NoController) \/ SetTarget(conn)
           \/ SetRules(blocked[at] + 1) \/ (blocked[at] > 0 /\ SetRules(blocked[at] - 1))
  <2>1. CASE Cut
    BY <2>1 DEF Cut, Told
  <2>2. CASE Set
    BY <2>2 DEF Set, Told
  <2>3. CASE Block
    BY <2>3 DEF Block, Told
  <2>4. CASE Unblock
    BY <2>4 DEF Unblock, Told
  <2>. QED
    BY <2>1, <2>2, <2>3, <2>4
<1>2. target' \in [Node -> Target] /\ blocked' \in [Node -> Nat]
  BY <1>1, Commanded
<1>3. UNCHANGED <<have, want, host, extra, start>> /\ UNCHANGED <<conn, lines, said, late>>
  BY <1>1 DEF odlVars
<1>. QED
  BY <1>1, <1>2, <1>3, Base_Told

\* A call that raised.
LEMMA Base_Raised ==
  ASSUME Base, Raise, status = "running", UNCHANGED <<have, want, host, extra, start>>,
         target' \in [Node -> Target], blocked' \in [Node -> Nat]
  PROVE  Base'
<1>1. PlaceType' /\ Control' /\ Wants'
  BY Raised
<1>2. /\ fault' = fault \cup {"raised"}
      /\ UNCHANGED <<lines, said, conn, late>>
      /\ status' \in {"running", "raised"} /\ exc' \in {TRUE, exc}
  BY Raised
<1>3. Types'
  BY <1>2 DEF Base, Types
<1>. QED
  BY <1>1, <1>3 DEF Base

LEMMA Base_Raises ==
  ASSUME Base, CommandRaises \/ CallRaises
  PROVE  Base'
<1>1. /\ status = "running" /\ Raise /\ UNCHANGED <<odlVars, start>>
      /\ \/ UNCHANGED ovsVars
         \/ SetTarget(NoController) \/ SetTarget(conn)
         \/ SetRules(blocked[at] + 1) \/ (blocked[at] > 0 /\ SetRules(blocked[at] - 1))
  <2>1. CASE CommandRaises
    BY <2>1, Zenon DEF CommandRaises
  <2>2. CASE CallRaises
    BY <2>2, Zenon DEF CallRaises, ovsVars
  <2>. QED
    BY <2>1, <2>2
<1>2. target' \in [Node -> Target] /\ blocked' \in [Node -> Nat]
  BY <1>1, Commanded
<1>3. UNCHANGED <<have, want, host, extra, start>>
  BY <1>1 DEF odlVars
<1>. QED
  BY <1>1, <1>2, <1>3, Base_Raised

\* What OpenDaylight wants when the instances come, and when they go.
More(w, h, V) == [w EXCEPT ![h].flow = @ + 1, ![h].group = @ + V]

LEMMA Added ==
  ASSUME NEW w \in [Node -> Table], NEW h \in Node, NEW V \in Nat
  PROVE  /\ More(w, h, V) \in [Node -> Table]
         /\ \A n \in Node : n # h => More(w, h, V)[n] = w[n]
         /\ More(w, h, V)[h].flow = w[h].flow + 1 /\ More(w, h, V)[h].group = w[h].group + V
<1>. DEFINE v == More(w, h, V)
<1>1. w \in [Node -> [Kinds -> Nat]] /\ v = [w EXCEPT ![h].flow = @ + 1, ![h].group = @ + V]
  BY DEF Table, More
<1>. HIDE DEF v
<1>2. \A n \in Node : n # h => v[n] = w[n]
  BY <1>1
<1>3. v[h] = [w[h] EXCEPT !.flow = @ + 1, !.group = @ + V]
  BY <1>1
<1>4. v[h] \in [Kinds -> Nat] /\ v[h].flow = w[h].flow + 1 /\ v[h].group = w[h].group + V
  <2>. DEFINE r == w[h]
              s == v[h]
  <2>1. r \in [Kinds -> Nat]
    BY <1>1
  <2>2. s = [r EXCEPT !.flow = @ + 1, !.group = @ + V]
    BY <1>3, Zenon
  <2>. HIDE DEF r, s
  <2>3. s \in [Kinds -> Nat] /\ s.flow = r.flow + 1 /\ s.group = r.group + V
    <3>1. s.flow = r.flow + 1
      BY <2>1, <2>2 DEF Kinds
    <3>2. s.group = r.group + V
      BY <2>1, <2>2 DEF Kinds
    <3>3. s = [k \in Kinds |-> s[k]]
      BY <2>1, <2>2
    <3>4. r.flow + 1 \in Nat /\ r.group + V \in Nat
      BY <2>1 DEF Kinds
    <3>5. \A k \in Kinds : k = "flow" \/ k = "group"
      BY DEF Kinds
    <3>6. \A k \in Kinds : s[k] \in Nat
      BY <3>1, <3>2, <3>4, <3>5
    <3>. QED
      BY <3>1, <3>2, <3>3, <3>6, Zenon
  <2>. QED
    BY <2>3, Zenon DEF r, s
<1>5. \A n \in Node : v[n] \in [Kinds -> Nat]
  BY <1>1, <1>2, <1>4
<1>6. v = [n \in Node |-> v[n]]
  BY <1>1
<1>7. v \in [Node -> Table]
  BY <1>5, <1>6, Zenon DEF Table
<1>. QED
  BY <1>2, <1>4, <1>7, Zenon DEF v

Less(w, h, V) == [w EXCEPT ![h].flow = @ - 1, ![h].group = @ - V]

LEMMA RemovedLines ==
  ASSUME NEW r \in [Kinds -> Nat], NEW V \in Nat, NEW s, r.flow >= 1, r.group >= V,
         s = [r EXCEPT !.flow = @ - 1, !.group = @ - V]
  PROVE  s \in [Kinds -> Nat] /\ s.flow = r.flow - 1 /\ s.group = r.group - V
<1>1. s.flow = r.flow - 1
  BY DEF Kinds
<1>2. s.group = r.group - V
  BY DEF Kinds
<1>3. s = [k \in Kinds |-> s[k]]
  OBVIOUS
<1>4. r.flow - 1 \in Nat /\ r.group - V \in Nat
  BY DEF Kinds
<1>5. \A k \in Kinds : s[k] \in Nat
  <2>. TAKE k \in Kinds
  <2>1. k = "flow" \/ k = "group"
    BY DEF Kinds
  <2>. QED
    BY <1>1, <1>2, <1>4, <2>1
<1>. QED
  BY <1>1, <1>2, <1>3, <1>5, Zenon

LEMMA Removed ==
  ASSUME NEW w \in [Node -> Table], NEW h \in Node, NEW V \in Nat, w[h].flow >= 1,
         w[h].group >= V
  PROVE  /\ Less(w, h, V) \in [Node -> Table]
         /\ \A n \in Node : n # h => Less(w, h, V)[n] = w[n]
         /\ Less(w, h, V)[h].flow = w[h].flow - 1 /\ Less(w, h, V)[h].group = w[h].group - V
<1>. DEFINE v == Less(w, h, V)
<1>1. w \in [Node -> [Kinds -> Nat]] /\ v = [w EXCEPT ![h].flow = @ - 1, ![h].group = @ - V]
  BY DEF Table, Less
<1>. HIDE DEF v
<1>2. \A n \in Node : n # h => v[n] = w[n]
  BY <1>1
<1>3. v[h] = [w[h] EXCEPT !.flow = @ - 1, !.group = @ - V]
  BY <1>1
<1>4. v[h] \in [Kinds -> Nat] /\ v[h].flow = w[h].flow - 1 /\ v[h].group = w[h].group - V
  <2>1. w[h] \in [Kinds -> Nat]
    BY <1>1
  <2>. QED
    BY <1>3, <2>1, RemovedLines, Zenon
<1>5. \A n \in Node : v[n] \in [Kinds -> Nat]
  BY <1>1, <1>2, <1>4
<1>6. v = [n \in Node |-> v[n]]
  BY <1>1
<1>7. v \in [Node -> Table]
  BY <1>5, <1>6, Zenon DEF Table
<1>. QED
  BY <1>2, <1>4, <1>7, Zenon DEF v

LEMMA Base_Boot ==
  ASSUME Base, Boot
  PROVE  Base'
<1>1. /\ status = "running" /\ Step.op = "boot" /\ Advance
      /\ host' = [host EXCEPT !.up = TRUE]
      /\ want' = [want EXCEPT ![host.node].flow = @ + 1,
                              ![host.node].group = @ + VmGroups]
      /\ UNCHANGED <<have, extra, start, fault, said, lines, conn, late, target, blocked>>
  BY Zenon DEF Boot, Running, ovsVars
<1>2. pc = In(2, 3)
  BY <1>1, Places, Zenon DEF PlaceOf, Base
<1>3. pc \notin {In(7, 19), Last} /\ pc \notin Loops
  BY <1>2 DEF Base, PlaceType, In, Last, Loops
<1>4. PlaceType' /\ Control' /\ tc' = tc /\ ~exc /\ exc' = exc /\ status' = "running" /\ NextStep
  BY <1>1, <1>3, AdvanceControl DEF Base
<1>5. pc' = pc + 1
  <2>1. Width = 1
    BY <1>2 DEF Width, In
  <2>. QED
    BY <1>3, <1>4, <2>1, Moves DEF Base
<1>6. ~host.up /\ have = start.have /\ want = start.have
  BY <1>2, Numbers DEF Base, Wants
<1>7. /\ host'.up /\ host'.node = host.node /\ host' \in [node : Node, up : BOOLEAN]
      /\ host.node \in Node
  BY <1>1 DEF Base, Types
<1>8. want \in [Node -> [Kinds -> Nat]] /\ VmGroups \in Nat
  BY BoundAssumption DEF Base, Types, Table
<1>9. /\ want' \in [Node -> [Kinds -> Nat]]
      /\ \A n \in Node : n # host.node => want'[n] = want[n]
      /\ want'[host.node].flow = want[host.node].flow + 1
      /\ want'[host.node].group = want[host.node].group + VmGroups
  <2>1. want \in [Node -> Table]
    BY DEF Base, Types
  <2>. QED
    <3>. DEFINE h == host.node
    <3>1. h \in Node /\ VmGroups \in Nat
      BY <1>7, <1>8
    <3>2. want' = More(want, h, VmGroups)
      BY <1>1, Zenon DEF More
    <3>. HIDE DEF h
    <3>3. /\ want' \in [Node -> Table] /\ \A n \in Node : n # h => want'[n] = want[n]
          /\ want'[h].flow = want[h].flow + 1 /\ want'[h].group = want[h].group + VmGroups
      <4>1. /\ More(want, h, VmGroups) \in [Node -> Table]
            /\ \A n \in Node : n # h => More(want, h, VmGroups)[n] = want[n]
            /\ More(want, h, VmGroups)[h].flow = want[h].flow + 1
            /\ More(want, h, VmGroups)[h].group = want[h].group + VmGroups
        BY <2>1, <3>1, Added, Zenon
      <4>. QED
        BY <3>2, <4>1
    <3>. QED
      BY <3>3, Zenon DEF h, Table
<1>10. Wants'
  <2>1. \A x, y : In(x, y)' = In(x, y)
    BY <1>4 DEF In
  <2>2. \A n \in Node : /\ have'[n].group >= start'.have[n].group
                        /\ want'[n].group = start'.have[n].group + Extra(n, VmGroups)'
                        /\ want'[n].flow >= start'.have[n].flow + Extra(n, 1)'
    <3>. TAKE n \in Node
    <3>1. want[n].flow \in Nat /\ want[n].group \in Nat
      BY <1>8 DEF Kinds
    <3>. QED
      BY <1>1, <1>6, <1>7, <1>8, <1>9, <3>1 DEF Extra
  <2>3. In(2, 3) < pc' /\ pc' <= In(7, 19)
    BY <1>2, <1>5, Numbers DEF Base
  <2>4. ~(pc' <= In(2, 3))
    BY <1>2, <1>5, Numbers DEF Base
  <2>. QED
    BY <1>7, <2>1, <2>2, <2>3, <2>4 DEF Wants
<1>11. Types'
  BY <1>1, <1>4, <1>7, <1>9 DEF Base, Types, Table
<1>. QED
  BY <1>4, <1>10, <1>11 DEF Base

LEMMA Unwanted ==
  ASSUME Base, Unwant
  PROVE  /\ want' \in [Node -> Table] /\ host' \in [node : Node, up : BOOLEAN]
         /\ ~host'.up /\ host'.node = host.node
         /\ \A n \in Node : /\ want'[n].group = start.have[n].group
                            /\ want'[n].flow >= start.have[n].flow
<1>1. /\ want' = IF ~host.up THEN want
                 ELSE [want EXCEPT ![host.node].flow = @ - 1,
                                   ![host.node].group = @ - VmGroups]
      /\ host' = [host EXCEPT !.up = FALSE]
  BY DEF Unwant
<1>2. /\ host.node \in Node /\ host \in [node : Node, up : BOOLEAN]
      /\ want \in [Node -> Table] /\ VmGroups \in Nat
  BY BoundAssumption DEF Base, Types
<1>3. \A n \in Node : /\ start.have[n].flow \in Nat /\ start.have[n].group \in Nat
                      /\ want[n].flow \in Nat /\ want[n].group \in Nat
  BY <1>2, StartType DEF Base, Types, Table, Kinds
<1>4. ~host'.up /\ host'.node = host.node /\ host' \in [node : Node, up : BOOLEAN]
  BY <1>1, <1>2
<1>5. \A n \in Node : /\ want[n].group = start.have[n].group + Extra(n, VmGroups)
                      /\ want[n].flow >= start.have[n].flow + Extra(n, 1)
  BY DEF Base, Wants
<1>6. CASE ~host.up
  BY <1>1, <1>2, <1>3, <1>4, <1>5, <1>6 DEF Extra
<1>7. CASE host.up
  <2>1. want[host.node].flow >= 1 /\ want[host.node].group >= VmGroups
    BY <1>2, <1>3, <1>5, <1>7 DEF Extra
  <2>2. want' = [want EXCEPT ![host.node].flow = @ - 1,
                             ![host.node].group = @ - VmGroups]
    BY <1>1, <1>7
  <2>3. /\ want' \in [Node -> Table] /\ \A n \in Node : n # host.node => want'[n] = want[n]
        /\ want'[host.node].flow = want[host.node].flow - 1
        /\ want'[host.node].group = want[host.node].group - VmGroups
    <3>. DEFINE h == host.node
    <3>1. /\ h \in Node /\ VmGroups \in Nat /\ want \in [Node -> Table]
          /\ want[h].flow >= 1 /\ want[h].group >= VmGroups
      BY <1>2, <2>1
    <3>2. want' = Less(want, h, VmGroups)
      BY <2>2, Zenon DEF Less
    <3>. HIDE DEF h
    <3>3. /\ want' \in [Node -> Table] /\ \A n \in Node : n # h => want'[n] = want[n]
          /\ want'[h].flow = want[h].flow - 1 /\ want'[h].group = want[h].group - VmGroups
      <4>1. /\ Less(want, h, VmGroups) \in [Node -> Table]
            /\ \A n \in Node : n # h => Less(want, h, VmGroups)[n] = want[n]
            /\ Less(want, h, VmGroups)[h].flow = want[h].flow - 1
            /\ Less(want, h, VmGroups)[h].group = want[h].group - VmGroups
        BY <3>1, Removed, Zenon
      <4>. QED
        BY <3>2, <4>1
    <3>. QED
      BY <3>3, Zenon DEF h
  <2>4. \A n \in Node : /\ want'[n].group = start.have[n].group
                        /\ want'[n].flow >= start.have[n].flow
    BY <1>2, <1>3, <1>5, <1>7, <2>3 DEF Extra
  <2>. QED
    BY <1>4, <2>3, <2>4
<1>. QED
  BY <1>6, <1>7

LEMMA Base_Cleanup ==
  ASSUME Base, Cleanup
  PROVE  Base'
<1>1. /\ status = "running" /\ Step.op = "cleanup"
      /\ \/ Unwant /\ Advance /\ UNCHANGED <<fault, conn, lines, said, late>>
         \/ UNCHANGED odlVars /\ Advance /\ fault' = fault \cup {"refused"}
            /\ UNCHANGED <<conn, lines, said, late>>
         \/ UNCHANGED odlVars /\ Raise
      /\ UNCHANGED <<target, blocked, start>>
  BY Zenon DEF Cleanup, Running, ovsVars
<1>2. pc = In(7, 19)
  BY <1>1, Places, Zenon DEF PlaceOf, Base
<1>3. pc # Last
  BY <1>2, Numbers DEF Base
<1>4. CASE UNCHANGED odlVars /\ Raise
  <2>1. UNCHANGED <<have, want, host, extra, start>>
    BY <1>1, <1>4 DEF odlVars
  <2>2. target' \in [Node -> Target] /\ blocked' \in [Node -> Nat]
    BY <1>1 DEF Base, Types
  <2>. QED
    BY <1>1, <1>4, <2>1, <2>2, Base_Raised
<1>5. ASSUME Advance, UNCHANGED <<conn, lines, said, late>>, fault \subseteq fault'
      PROVE  /\ PlaceType' /\ Control' /\ tc' = tc /\ status' \in {"running", "raised"}
             /\ exc' = exc /\ pc' \in Nat
             /\ \/ exc /\ pc' = pc /\ fault' # {}
                \/ ~exc /\ pc' = pc + 1
  <2>1. /\ PlaceType' /\ Control' /\ tc' = tc /\ exc' = exc
        /\ \/ exc /\ status' = "raised" /\ pc' = pc
           \/ ~exc /\ status' = "running" /\ NextStep
    BY <1>1, <1>3, <1>5, AdvanceControl DEF Base
  <2>2. pc \notin Loops /\ Width = 1
    BY <1>2 DEF Base, PlaceType, Loops, Width, In
  <2>3. NextStep => pc' = pc + 1
    BY <1>3, <2>1, <2>2, Moves DEF Base
  <2>4. exc => fault' # {}
    BY <1>5 DEF Base, Control
  <2>5. pc' \in Nat
    BY <2>1 DEF PlaceType, Last
  <2>. QED
    BY <2>1, <2>3, <2>4, <2>5
<1>6. CASE UNCHANGED odlVars /\ Advance /\ fault' = fault \cup {"refused"}
           /\ UNCHANGED <<conn, lines, said, late>>
  <2>1. UNCHANGED <<have, want, host, extra, start>>
    BY <1>1, <1>6 DEF odlVars
  <2>2. /\ PlaceType' /\ Control' /\ tc' = tc /\ status' \in {"running", "raised"}
        /\ exc' = exc /\ pc' \in Nat /\ pc' >= pc
    BY <1>5, <1>6, Numbers DEF Base
  <2>3. Wants'
    BY <1>6, <2>1, <2>2, WantsKept
  <2>4. Types'
    BY <1>1, <1>6, <2>1, <2>2 DEF Base, Types
  <2>. QED
    BY <2>2, <2>3, <2>4 DEF Base
<1>7. CASE Unwant /\ Advance /\ UNCHANGED <<fault, conn, lines, said, late>>
  <2>1. have' = have /\ extra' = extra
    BY <1>7 DEF Unwant
  <2>2. /\ PlaceType' /\ Control' /\ tc' = tc /\ status' \in {"running", "raised"}
        /\ exc' = exc /\ pc' \in Nat
        /\ \/ exc /\ pc' = pc /\ fault' # {}
           \/ ~exc /\ pc' = pc + 1
    BY <1>5, <1>7
  <2>3. /\ want' \in [Node -> Table] /\ host' \in [node : Node, up : BOOLEAN]
        /\ ~host'.up /\ host'.node = host.node
        /\ \A n \in Node : /\ want'[n].group = start.have[n].group
                           /\ want'[n].flow >= start.have[n].flow
    BY <1>7, Unwanted
  <2>4. Wants'
    <3>1. \A x, y : In(x, y)' = In(x, y)
      BY <2>2 DEF In
    <3>2. \A n \in Node : start.have[n].flow \in Nat /\ start.have[n].group \in Nat
      BY StartType DEF Base, Types, Table, Kinds
    <3>3. \A n \in Node : /\ have'[n].group >= start'.have[n].group
                          /\ want'[n].group = start'.have[n].group + Extra(n, VmGroups)'
                          /\ want'[n].flow >= start'.have[n].flow + Extra(n, 1)'
      BY <1>1, <2>1, <2>3, <3>2 DEF Extra, Base, Wants
    <3>4. ~(pc' <= In(2, 3))
      BY <1>2, <2>2, Numbers DEF Base
    <3>5. fault' = {} => ~(pc' <= In(7, 19))
      BY <1>2, <2>2, Numbers DEF Base
    <3>. QED
      BY <2>3, <3>1, <3>3, <3>4, <3>5 DEF Wants
  <2>5. Types'
    BY <1>1, <1>7, <2>1, <2>2, <2>3 DEF Base, Types
  <2>. QED
    BY <2>2, <2>4, <2>5 DEF Base
<1>. QED
  BY <1>1, <1>4, <1>6, <1>7

LEMMA Base_Others ==
  ASSUME Base, Return \/ (\E n \in Node : Program(n) \/ Learn(n)) \/ UNCHANGED vars
  PROVE  Base'
<1>1. CASE Return
  <2>1. /\ status = "running" /\ Step.op = "return" /\ status' = "returned"
        /\ tc' = tc /\ pc' = pc /\ at' = at /\ part' = part /\ exc' = exc
        /\ UNCHANGED <<conn, lines, said, target, blocked, start, fault, late>>
        /\ UNCHANGED <<have, want, host, extra>>
    BY <1>1, Zenon DEF Return, Running, place, ovsVars, odlVars
  <2>2. pc = Last
    BY <2>1, Places, Zenon DEF PlaceOf, Base
  <2>3. ~exc
    BY <2>1, <2>2, Numbers DEF Base, Control
  <2>4. PlaceType'
    BY <2>1 DEF Base, PlaceType, Width, Last, Loops
  <2>5. Control'
    BY <2>1, <2>2, <2>3 DEF Base, Control, Last
  <2>6. Types'
    BY <2>1 DEF Base, Types
  <2>7. Wants'
    BY <2>1, WantsKept, Numbers DEF Base
  <2>. QED
    BY <2>4, <2>5, <2>6, <2>7 DEF Base
<1>2. ASSUME NEW n \in Node, Program(n)
      PROVE  Base'
  <2>1. /\ tc' = tc /\ pc' = pc /\ at' = at /\ part' = part /\ exc' = exc
        /\ status' = status
        /\ UNCHANGED <<conn, lines, said, target, blocked,
                       want, host, extra, start, fault, late>>
        /\ have' = [have EXCEPT ![n] = want[n]] /\ have[n] # want[n]
    BY <1>2, Zenon DEF Program, mainVars, place, ovsVars
  <2>2. PlaceType'
    BY <2>1 DEF Base, PlaceType, Width, Last, Loops
  <2>3. Control'
    BY <2>1 DEF Base, Control, Last, In
  <2>4. /\ have \in [Node -> [Kinds -> Nat]] /\ want \in [Node -> [Kinds -> Nat]]
        /\ VmGroups \in Nat
    BY BoundAssumption DEF Base, Types, Table
  <2>5. have' \in [Node -> [Kinds -> Nat]]
    BY <2>1, <2>4
  <2>6. Types'
    BY <2>1, <2>5 DEF Base, Types, Table
  <2>7. Wants'
    <3>1. \A m \in Node : start.have[m].group \in Nat
      BY StartType DEF Base, Types, Table, Kinds
    <3>2. \A m \in Node :
            /\ have[m].group >= start.have[m].group
            /\ want[m].group = start.have[m].group + Extra(m, VmGroups)
            /\ want[m].flow >= start.have[m].flow + Extra(m, 1)
      BY DEF Base, Wants
    <3>3. \A m \in Node : have'[m].group >= start'.have[m].group
      BY <2>1, <2>4, <3>1, <3>2 DEF Extra
    <3>4. \A m \in Node : /\ want'[m].group = start'.have[m].group + Extra(m, VmGroups)'
                          /\ want'[m].flow >= start'.have[m].flow + Extra(m, 1)'
      BY <2>1, <3>2 DEF Extra
    <3>5. ~(pc <= In(2, 3))
      BY <2>1 DEF Base, Wants
    <3>. QED
      BY <2>1, <3>3, <3>4, <3>5 DEF Base, Wants, In
  <2>. QED
    BY <2>2, <2>3, <2>6, <2>7 DEF Base
<1>3. ASSUME NEW n \in Node, Learn(n)
      PROVE  Base'
  <2>1. /\ tc' = tc /\ pc' = pc /\ at' = at /\ part' = part /\ exc' = exc
        /\ status' = status
        /\ UNCHANGED <<conn, lines, said, target, blocked, have, host, start, fault, late>>
        /\ want' = [want EXCEPT ![n].flow = @ + 1] /\ host.up
        /\ extra < MaxExtra /\ extra' = extra + 1
    BY <1>3, Zenon DEF Learn, mainVars, place, ovsVars
  <2>2. PlaceType'
    BY <2>1 DEF Base, PlaceType, Width, Last, Loops
  <2>3. Control'
    BY <2>1 DEF Base, Control, Last, In
  <2>4. want \in [Node -> [Kinds -> Nat]]
    BY DEF Base, Types, Table
  <2>5. /\ \A m \in Node : m # n => want'[m] = want[m]
        /\ want'[n].flow = want[n].flow + 1 /\ want'[n].group = want[n].group
        /\ want' \in [Node -> [Kinds -> Nat]]
    BY <2>1, <2>4 DEF Kinds
  <2>6. Types'
    <3>1. extra' \in 0..MaxExtra
      BY <2>1, BoundAssumption DEF Base, Types
    <3>. QED
      BY <2>1, <2>5, <3>1 DEF Base, Types, Table
  <2>7. Wants'
    <3>1. \A m \in Node : start.have[m].flow \in Nat /\ want[m].flow \in Nat
      BY <2>4, StartType DEF Base, Types, Table, Kinds
    <3>2. \A m \in Node :
            /\ have[m].group >= start.have[m].group
            /\ want[m].group = start.have[m].group + Extra(m, VmGroups)
            /\ want[m].flow >= start.have[m].flow + Extra(m, 1)
      BY DEF Base, Wants
    <3>3. \A m \in Node : Extra(m, 1) \in Nat
      BY DEF Extra
    <3>4. \A m \in Node : /\ have'[m].group >= start'.have[m].group
                          /\ want'[m].group = start'.have[m].group + Extra(m, VmGroups)
                          /\ want'[m].flow >= start'.have[m].flow + Extra(m, 1)
      BY <2>1, <2>5, <3>1, <3>2, <3>3
    <3>5. ~(pc <= In(2, 3))
      BY <2>1 DEF Base, Wants
    <3>6. \A m \in Node : \A x : Extra(m, x)' = Extra(m, x)
      BY <2>1 DEF Extra
    <3>. QED
      BY <2>1, <3>4, <3>5, <3>6 DEF Base, Wants, In
  <2>. QED
    BY <2>2, <2>3, <2>6, <2>7 DEF Base
<1>4. CASE UNCHANGED vars
  <2>1. /\ tc' = tc /\ pc' = pc /\ at' = at /\ part' = part /\ exc' = exc
        /\ status' = status
        /\ UNCHANGED <<conn, lines, said, target, blocked,
                       have, want, host, extra, start, fault, late>>
    BY <1>4, Zenon DEF vars, mainVars, place, ovsVars, odlVars
  <2>2. PlaceType'
    BY <2>1 DEF Base, PlaceType, Width, Last, Loops
  <2>3. Control' /\ Types' /\ Wants'
    BY <2>1, WantsKept, Numbers DEF Base, Control, Types, Last, In
  <2>. QED
    BY <2>2, <2>3 DEF Base
<1>. QED
  BY <1>1, <1>2, <1>3, <1>4

LEMMA Base_Next ==
  ASSUME Base, [Next]_vars
  PROVE  Base'
BY Base_Count, Base_Boot, Base_Check, Base_Read, Base_Commands, Base_Raises, Base_Cleanup,
   Base_Others DEF Next, Main, Done

LEMMA BaseCorrect == Spec => []Base
<1>1. Init => Base
  BY Base_Init
<1>2. Base /\ [Next]_vars => Base'
  BY Base_Next
<1>. QED
  BY <1>1, <1>2, PTL DEF Spec

(***************************************************************************)
(* Every variable keeps its type, main stays at a step of its script, and  *)
(* OpenDaylight never wants a negative number of flows or groups.          *)
(***************************************************************************)
THEOREM TypeCorrect == Spec => []TypeOK
<1>1. Base => TypeOK
  <2>. SUFFICES ASSUME Base PROVE TypeOK
    OBVIOUS
  <2>1. Shape /\ DOMAIN Script[tc] = 1..Last
    <3>1. DOMAIN Script["tc11"] = 1..11 /\ DOMAIN Script["tc12"] = 1..20
      BY Statements11, Statements12, Zenon
    <3>2. DOMAIN Script[tc] = 1..Last
      BY <3>1 DEF Base, PlaceType, Last
    <3>. QED
      BY <3>2, Steps11, Steps12, Zenon DEF Base, PlaceType
  <2>2. tc \in DOMAIN Script /\ pc \in DOMAIN Script[tc]
    BY <2>1 DEF Base, PlaceType, Script
  <2>3. part \in DOMAIN Statement.body
    BY <2>1, Zenon DEF Base, PlaceType, Shape
  <2>. QED
    BY <2>2, <2>3, Zenon DEF TypeOK, Base, PlaceType, Types
<1>. QED
  BY <1>1, BaseCorrect, PTL

-----------------------------------------------------------------------------
(***************************************************************************)
(* The switches.  As long as no command is lost and none raised, the       *)
(* controller and the rules of each are what the place of main says.       *)
(***************************************************************************)
\* The loop at statement k is done with n.
Past(k, n) == pc > k \/ (pc = k /\ n < at)

TargetAt(n) ==
  IF tc = "tc11"
  THEN IF ~Past(6, n) THEN start.target[n]
       ELSE IF ~Past(8, n) THEN NoController
       ELSE start.target[1]
  ELSE IF pc = 9 /\ n = at /\ part = 2 THEN NoController
       ELSE IF ~Past(9, n) THEN start.target[n]
       ELSE start.target[1]

BlockedAt(n) ==
  start.blocked[n] +
    (IF tc = "tc12" /\ pc = 14 /\ part = 2 /\ n = at THEN 1 ELSE 0)

Smooth == "lost" \notin fault /\ ~exc /\ status # "raised"

Switches ==
  Smooth => /\ \A n \in Node : target[n] = TargetAt(n) /\ blocked[n] = BlockedAt(n)
            /\ pc > In(5, 8) => conn = start.target[1]

\* After an exception nothing touches the switches.
Abandoned ==
  /\ tc = "tc12" /\ "lost" \notin fault /\ start.target[1] # NoController
  /\ exc \/ status = "raised"
  => \A m, n \in Node : CutOff(m) /\ CutOff(n) => m = n

LEMMA PastMoves ==
  ASSUME PlaceType, NextStep, pc # Last, tc' = tc, NEW k \in Nat, NEW n \in Node,
         pc \in Loops
  PROVE  Past(k, n)' <=> Past(k, n) \/ (pc = k /\ part = Width /\ n = at)
<1>1. /\ pc \in Nat /\ at \in 1..NodeCount /\ NodeCount \in Nat /\ n \in 1..NodeCount
      /\ Width \in 1..2
  BY Numbers DEF Node, Width
<1>2. \/ pc' = pc /\ at' = at /\ part = 1 /\ Width = 2
      \/ pc' = pc /\ at < NodeCount /\ at' = at + 1 /\ part = Width
      \/ pc' = pc + 1 /\ at' = 1 /\ part = Width /\ at = NodeCount
  BY Moves
<1>3. CASE pc' = pc /\ at' = at /\ part = 1 /\ Width = 2
  BY <1>1, <1>3 DEF Past
<1>4. CASE pc' = pc /\ at < NodeCount /\ at' = at + 1 /\ part = Width
  BY <1>1, <1>4 DEF Past
<1>5. CASE pc' = pc + 1 /\ at' = 1 /\ part = Width /\ at = NodeCount
  BY <1>1, <1>5 DEF Past
<1>. QED
  BY <1>2, <1>3, <1>4, <1>5

LEMMA PastKept ==
  ASSUME PlaceType, NextStep, pc # Last, tc' = tc, NEW k \in Nat, NEW n \in Node, pc # k
  PROVE  Past(k, n)' <=> Past(k, n)
<1>1. /\ pc \in Nat /\ at \in 1..NodeCount /\ n \in 1..NodeCount /\ NodeCount \in Nat
  BY Numbers DEF Node
<1>2. \/ pc' = pc
      \/ pc' = pc + 1 /\ at' = 1
  BY Moves
<1>. QED
  BY <1>1, <1>2 DEF Past

LEMMA OnlyHere ==
  ASSUME Base, Switches, Smooth, tc = "tc12", start.target[1] # NoController,
         NEW n \in Node, CutOff(n)
  PROVE  n = at
<1>1. target[n] = TargetAt(n) /\ blocked[n] = BlockedAt(n)
  BY DEF Switches
<1>2. start.blocked[n] \in Nat
  BY StartType DEF Base, Types
<1>3. CASE start.target[n] # NoController /\ target[n] = NoController
  BY <1>1, <1>3 DEF TargetAt
<1>4. CASE blocked[n] > start.blocked[n]
  BY <1>1, <1>2, <1>4 DEF BlockedAt
<1>. QED
  BY <1>3, <1>4 DEF CutOff

\* A step that leaves the switches alone, not in the middle of a loop that
\* changes them.
LEMMA SwitchesKept ==
  ASSUME Base, Base', Switches, NextStep, tc' = tc, pc # Last,
         UNCHANGED <<target, blocked, start>>, fault \subseteq fault', exc' = exc,
         status = "running", IF tc = "tc11" THEN pc \notin {6, 8} ELSE pc \notin {9, 14},
         conn' = IF pc = In(5, 8) THEN target[1] ELSE conn
  PROVE  Switches'
<1>. SUFFICES ASSUME Smooth'
              PROVE  /\ \A n \in Node : /\ target'[n] = TargetAt(n)'
                                        /\ blocked'[n] = BlockedAt(n)'
                     /\ pc' > In(5, 8)' => conn' = start'.target[1]
  BY DEF Switches
<1>1. Smooth
  BY DEF Smooth
<1>2. \/ pc' = pc /\ at' = at /\ part = 1 /\ part' = 2 /\ Width = 2
      \/ pc' = pc /\ at < NodeCount /\ at' = at + 1 /\ part' = 1
      \/ pc' = pc + 1 /\ at' = 1 /\ part' = 1
  BY Moves DEF Base
<1>3. pc \in Nat /\ \A n \in Node : n \in Nat /\ n >= 1
  BY Numbers DEF Base, Node
<1>4. Width # 2
  BY DEF Width
<1>5. \A n \in Node : TargetAt(n)' = TargetAt(n)
  <2>. TAKE n \in Node
  <2>1. CASE tc = "tc11"
    <3>1. (Past(6, n)' <=> Past(6, n)) /\ (Past(8, n)' <=> Past(8, n))
      BY <2>1, PastKept DEF Base
    <3>. QED
      BY <2>1, <3>1 DEF TargetAt
  <2>2. CASE tc = "tc12"
    <3>1. Past(9, n)' <=> Past(9, n)
      BY <2>2, PastKept DEF Base
    <3>2. ~(pc = 9 /\ n = at /\ part = 2) /\ ~(pc' = 9 /\ n = at' /\ part' = 2)
      BY <1>2, <1>3, <1>4, <2>2
    <3>. QED
      BY <2>2, <3>1, <3>2 DEF TargetAt
  <2>. QED
    BY <2>1, <2>2 DEF Base, PlaceType
<1>6. \A n \in Node : BlockedAt(n)' = BlockedAt(n)
  <2>1. tc = "tc12" => pc # 14 /\ ~(pc' = 14 /\ part' = 2)
    BY <1>2, <1>3, <1>4
  <2>2. \A n \in Node : /\ ~(tc = "tc12" /\ pc = 14 /\ part = 2 /\ n = at)
                        /\ ~(tc' = "tc12" /\ pc' = 14 /\ part' = 2 /\ n = at')
    BY <2>1
  <2>3. start' = start
    OBVIOUS
  <2>. QED
    BY <2>2, <2>3 DEF BlockedAt
<1>7. pc' > In(5, 8)' => conn' = start'.target[1]
  <2>1. 1 \in Node /\ In(5, 8)' = In(5, 8) /\ In(5, 8) \in Nat
    BY NodeAssumption DEF Node, In
  <2>2. pc = In(5, 8) => target[1] = start.target[1]
    BY <1>1, <2>1 DEF Switches, TargetAt, Past, In, Base, PlaceType
  <2>3. pc' > In(5, 8) => pc > In(5, 8) \/ pc = In(5, 8)
    BY <1>2, <1>3, <1>4, <2>1
  <2>. QED
    BY <1>1, <2>1, <2>2, <2>3 DEF Switches
<1>. QED
  BY <1>1, <1>5, <1>6, <1>7 DEF Switches

LEMMA SwitchesCommand ==
  ASSUME Base, Base', Switches, Cut \/ Set \/ Block \/ Unblock
  PROVE  Switches'
<1>. SUFFICES ASSUME Smooth'
              PROVE  /\ \A n \in Node : /\ target'[n] = TargetAt(n)'
                                        /\ blocked'[n] = BlockedAt(n)'
                     /\ pc' > In(5, 8)' => conn' = start'.target[1]
  BY DEF Switches
<1>1. PICK op \in {"cut", "set", "block", "unblock"} :
        /\ Running(op) /\ Advance /\ UNCHANGED <<conn, lines, said, odlVars, start, late>>
        /\ \/ UNCHANGED fault /\ \/ op = "cut" /\ SetTarget(NoController)
                                 \/ op = "set" /\ SetTarget(conn)
                                 \/ op = "block" /\ SetRules(blocked[at] + 1)
                                 \/ op = "unblock" /\ SetRules(blocked[at] - 1)
           \/ fault' = fault \cup {"lost"}
  <2>1. CASE Cut
    BY <2>1 DEF Cut, Told
  <2>2. CASE Set
    BY <2>2 DEF Set, Told
  <2>3. CASE Block
    BY <2>3 DEF Block, Told
  <2>4. CASE Unblock
    BY <2>4 DEF Unblock, Told
  <2>. QED
    BY <2>1, <2>2, <2>3, <2>4
<1>2. fault' = fault
  BY <1>1 DEF Smooth
<1>3. /\ status = "running" /\ Step.op = op
  BY <1>1, Zenon DEF Running
<1>4. /\ op = "cut" <=> pc = In(6, 9) /\ part = 1
      /\ op = "set" <=> pc = In(8, 9) /\ (tc = "tc12" => part = 2)
      /\ op = "block" <=> tc = "tc12" /\ pc = 14 /\ part = 1
      /\ op = "unblock" <=> tc = "tc12" /\ pc = 14 /\ part = 2
  BY <1>3, Places, Zenon DEF PlaceOf, Base
<1>5. pc # Last /\ pc # In(7, 19)
  BY <1>4 DEF In, Last, Base, PlaceType
<1>6. tc' = tc /\ ~exc /\ exc' = exc /\ status' = "running" /\ NextStep
  BY <1>1, <1>2, <1>3, <1>5, AdvanceControl DEF Base, Control
<1>7. /\ Smooth
      /\ \A n \in Node : target[n] = TargetAt(n) /\ blocked[n] = BlockedAt(n)
      /\ pc > In(5, 8) => conn = start.target[1]
  BY <1>2, <1>3, <1>6 DEF Switches, Smooth
<1>8. \/ op = "cut" /\ SetTarget(NoController)
      \/ op = "set" /\ SetTarget(conn)
      \/ op = "block" /\ SetRules(blocked[at] + 1)
      \/ op = "unblock" /\ SetRules(blocked[at] - 1)
  BY <1>1, <1>2 DEF Smooth
<1>9. \/ pc' = pc /\ at' = at /\ part = 1 /\ part' = 2 /\ Width = 2
      \/ pc' = pc /\ at < NodeCount /\ at' = at + 1 /\ part = Width /\ part' = 1
      \/ pc' = pc + 1 /\ at' = 1 /\ part = Width /\ part' = 1 /\ (pc \in Loops => at = NodeCount)
  BY <1>5, <1>6, Moves DEF Base
<1>10. /\ target \in [Node -> Target] /\ blocked \in [Node -> Nat] /\ at \in Node
       /\ \A n \in Node : n \in 1..NodeCount /\ start.blocked[n] \in Nat
       /\ NodeCount \in Nat /\ start' = start /\ conn' = conn
  BY <1>1, StartType, NodeAssumption DEF Base, Types, PlaceType, Node
<1>11. pc' > In(5, 8)' => conn' = start'.target[1]
  <2>1. pc > In(5, 8)
    BY <1>4 DEF In, Base, PlaceType
  <2>. QED
    BY <1>7, <1>10, <2>1
<1>12. CASE tc = "tc11"
  <2>1. CASE op = "cut"
    <3>1. pc = 6 /\ Width = 1 /\ part = Width /\ pc \in Loops
      BY <1>4, <1>12, <2>1 DEF In, Width, Loops, Base, PlaceType
    <3>2. target' = [target EXCEPT ![at] = NoController] /\ blocked' = blocked
      BY <1>8, <2>1 DEF SetTarget
    <3>3. \A n \in Node : target'[n] = TargetAt(n)'
      <4>. TAKE n \in Node
      <4>1. target'[n] = IF n = at THEN NoController ELSE target[n]
        BY <1>10, <3>1, <3>2
      <4>2. (Past(6, n)' <=> Past(6, n) \/ n = at) /\ (Past(8, n)' <=> Past(8, n))
        BY <1>5, <1>6, <1>12, <3>1, PastMoves, PastKept DEF Base
      <4>. QED
        BY <1>6, <1>7, <1>9, <1>10, <1>12, <3>1, <4>1, <4>2 DEF TargetAt, Past
    <3>4. \A n \in Node : blocked'[n] = BlockedAt(n)'
      BY <1>6, <1>7, <1>9, <1>10, <1>12, <3>1, <3>2 DEF BlockedAt
    <3>. QED
      BY <1>11, <3>3, <3>4
  <2>2. CASE op = "set"
    <3>1. pc = 8 /\ Width = 1 /\ part = Width /\ pc \in Loops /\ conn = start.target[1]
      BY <1>4, <1>7, <1>12, <2>2 DEF In, Width, Loops, Base, PlaceType
    <3>2. target' = [target EXCEPT ![at] = conn] /\ blocked' = blocked
      BY <1>8, <2>2 DEF SetTarget
    <3>3. \A n \in Node : target'[n] = TargetAt(n)'
      <4>. TAKE n \in Node
      <4>1. target'[n] = IF n = at THEN start.target[1] ELSE target[n]
        BY <1>10, <3>1, <3>2
      <4>2. (Past(6, n)' <=> Past(6, n)) /\ (Past(8, n)' <=> Past(8, n) \/ n = at)
        BY <1>5, <1>6, <1>12, <3>1, PastMoves, PastKept DEF Base
      <4>. QED
        BY <1>6, <1>7, <1>9, <1>10, <1>12, <3>1, <4>1, <4>2 DEF TargetAt, Past
    <3>4. \A n \in Node : blocked'[n] = BlockedAt(n)'
      BY <1>6, <1>7, <1>9, <1>10, <1>12, <3>1, <3>2 DEF BlockedAt
    <3>. QED
      BY <1>11, <3>3, <3>4
  <2>. QED
    BY <1>4, <1>12, <2>1, <2>2
<1>13. CASE tc = "tc12"
  <2>1. CASE op = "cut"
    <3>1. pc = 9 /\ part = 1 /\ Width = 2 /\ pc \in Loops
      BY <1>4, <1>13, <2>1 DEF In, Width, Loops
    <3>2. target' = [target EXCEPT ![at] = NoController] /\ blocked' = blocked
      BY <1>8, <2>1 DEF SetTarget
    <3>3. \A n \in Node : target'[n] = TargetAt(n)'
      <4>. TAKE n \in Node
      <4>1. target'[n] = IF n = at THEN NoController ELSE target[n]
        BY <1>10, <3>1, <3>2
      <4>2. Past(9, n)' <=> Past(9, n)
        BY <1>5, <1>6, <1>13, <3>1, PastMoves, PastKept DEF Base
      <4>. QED
        BY <1>6, <1>7, <1>9, <1>10, <1>13, <3>1, <4>1, <4>2 DEF TargetAt
    <3>4. \A n \in Node : blocked'[n] = BlockedAt(n)'
      BY <1>6, <1>7, <1>9, <1>10, <1>13, <3>1, <3>2 DEF BlockedAt
    <3>. QED
      BY <1>11, <3>3, <3>4
  <2>2. CASE op = "set"
    <3>1. pc = 9 /\ part = 2 /\ Width = 2 /\ pc \in Loops /\ conn = start.target[1]
      BY <1>4, <1>7, <1>13, <2>2 DEF In, Width, Loops
    <3>2. target' = [target EXCEPT ![at] = conn] /\ blocked' = blocked
      BY <1>8, <2>2 DEF SetTarget
    <3>3. \A n \in Node : target'[n] = TargetAt(n)'
      <4>. TAKE n \in Node
      <4>1. target'[n] = IF n = at THEN start.target[1] ELSE target[n]
        BY <1>10, <3>1, <3>2
      <4>2. Past(9, n)' <=> Past(9, n) \/ n = at
        BY <1>5, <1>6, <1>13, <3>1, PastMoves, PastKept DEF Base
      <4>. QED
        BY <1>6, <1>7, <1>9, <1>10, <1>13, <3>1, <4>1, <4>2 DEF TargetAt
    <3>4. \A n \in Node : blocked'[n] = BlockedAt(n)'
      BY <1>6, <1>7, <1>9, <1>10, <1>13, <3>1, <3>2 DEF BlockedAt
    <3>. QED
      BY <1>11, <3>3, <3>4
  <2>3. CASE op = "block"
    <3>1. pc = 14 /\ part = 1 /\ Width = 2 /\ pc \in Loops
      BY <1>4, <1>13, <2>3 DEF Width, Loops
    <3>2. blocked' = [blocked EXCEPT ![at] = blocked[at] + 1] /\ target' = target
      BY <1>8, <2>3 DEF SetRules
    <3>3. \A n \in Node : target'[n] = TargetAt(n)'
      <4>. TAKE n \in Node
      <4>1. target'[n] = target[n]
        BY <1>10, <3>1, <3>2
      <4>2. Past(9, n)' <=> Past(9, n)
        BY <1>5, <1>6, <1>13, <3>1, PastMoves, PastKept DEF Base
      <4>. QED
        BY <1>6, <1>7, <1>9, <1>10, <1>13, <3>1, <4>1, <4>2 DEF TargetAt
    <3>4. \A n \in Node : blocked'[n] = BlockedAt(n)'
      BY <1>6, <1>7, <1>9, <1>10, <1>13, <3>1, <3>2 DEF BlockedAt
    <3>. QED
      BY <1>11, <3>3, <3>4
  <2>4. CASE op = "unblock"
    <3>1. pc = 14 /\ part = 2 /\ Width = 2 /\ pc \in Loops
      BY <1>4, <1>13, <2>4 DEF Width, Loops
    <3>2. blocked' = [blocked EXCEPT ![at] = blocked[at] - 1] /\ target' = target
      BY <1>8, <2>4 DEF SetRules
    <3>3. \A n \in Node : target'[n] = TargetAt(n)'
      <4>. TAKE n \in Node
      <4>1. target'[n] = target[n]
        BY <1>10, <3>1, <3>2
      <4>2. Past(9, n)' <=> Past(9, n)
        BY <1>5, <1>6, <1>13, <3>1, PastMoves, PastKept DEF Base
      <4>. QED
        BY <1>6, <1>7, <1>9, <1>10, <1>13, <3>1, <4>1, <4>2 DEF TargetAt
    <3>4. \A n \in Node : blocked'[n] = BlockedAt(n)'
      BY <1>6, <1>7, <1>9, <1>10, <1>13, <3>1, <3>2 DEF BlockedAt
    <3>. QED
      BY <1>11, <3>3, <3>4
  <2>. QED
    BY <2>1, <2>2, <2>3, <2>4
<1>. QED
  BY <1>12, <1>13 DEF Base, PlaceType

\* main reads, counts, reports, boots or cleans up.
LEMMA SwitchesQuiet ==
  ASSUME Base, Base', Switches, NEW op \in {"dump", "boot", "report", "read", "cleanup"},
         Running(op), Advance, UNCHANGED <<target, blocked, start>>, fault \subseteq fault',
         conn' = IF op = "read" THEN target[1] ELSE conn
  PROVE  Switches'
<1>1. status = "running" /\ Step.op = op
  BY Zenon DEF Running
<1>2. op \notin {"cut", "set", "block", "unblock", "return"}
  OBVIOUS
<1>3. /\ op = "read" <=> pc = In(5, 8)
      /\ pc # Last
      /\ ~(pc = In(6, 9) /\ part = 1) /\ ~(pc = In(8, 9) /\ (tc = "tc12" => part = 2))
      /\ ~(tc = "tc12" /\ pc = 14 /\ part = 1) /\ ~(tc = "tc12" /\ pc = 14 /\ part = 2)
  <2>1. op # "cut" /\ op # "set" /\ op # "block" /\ op # "unblock" /\ op # "return"
    BY <1>2
  <2>. QED
    BY <1>1, <2>1, Places, Zenon DEF PlaceOf, Base
<1>4. /\ tc' = tc /\ exc' = exc
      /\ exc \/ NextStep
  BY <1>1, <1>3, AdvanceControl DEF Base
<1>5. CASE exc
  BY <1>4, <1>5 DEF Switches, Smooth
<1>6. CASE ~exc
  <2>1. IF tc = "tc11" THEN pc \notin {6, 8} ELSE pc \notin {9, 14}
    BY <1>3 DEF In, Base, PlaceType, Width
  <2>2. conn' = IF pc = In(5, 8) THEN target[1] ELSE conn
    BY <1>3
  <2>. QED
    BY <1>1, <1>3, <1>4, <1>6, <2>1, <2>2, SwitchesKept
<1>. QED
  BY <1>5, <1>6

\* Nothing main does.
LEMMA SwitchesStill ==
  ASSUME Switches, UNCHANGED <<tc, pc, at, part, exc, conn, target, blocked, start, fault>>,
         status' = status \/ (status = "running" /\ status' = "returned")
  PROVE  Switches'
<1>1. Smooth' => Smooth
  BY DEF Smooth
<1>2. /\ \A n \in Node : TargetAt(n)' = TargetAt(n) /\ BlockedAt(n)' = BlockedAt(n)
      /\ In(5, 8)' = In(5, 8)
  BY DEF TargetAt, BlockedAt, Past, In
<1>. QED
  BY <1>1, <1>2 DEF Switches

LEMMA SwitchesNext ==
  ASSUME Base, Base', Switches, [Next]_vars
  PROVE  Switches'
<1>1. ASSUME NEW op \in {"dump", "boot", "report"}, Running(op), Advance,
             UNCHANGED <<target, blocked, start, fault, conn>>
      PROVE  Switches'
  BY <1>1, SwitchesQuiet
<1>2. CASE Count
  <2>1. Running("dump") /\ Advance /\ UNCHANGED <<target, blocked, start, fault, conn>>
    BY <1>2, Zenon DEF Count, ovsVars
  <2>. QED
    BY <1>1, <2>1
<1>3. CASE Boot
  <2>1. Running("boot") /\ Advance /\ UNCHANGED <<target, blocked, start, fault, conn>>
    BY <1>3, Zenon DEF Boot, ovsVars
  <2>. QED
    BY <1>1, <2>1
<1>4. CASE Check
  <2>1. Running("report") /\ Advance /\ UNCHANGED <<target, blocked, start, fault, conn>>
    BY <1>4, Zenon DEF Check, ovsVars
  <2>. QED
    BY <1>1, <2>1
<1>5. CASE Read
  <2>1. /\ Running("read") /\ Advance /\ UNCHANGED <<target, blocked, start, fault>>
        /\ conn' = target[1]
    BY <1>5, Zenon DEF Read, ovsVars
  <2>. QED
    BY <2>1, SwitchesQuiet
<1>6. CASE CommandRaises \/ CallRaises \/ (Cleanup /\ Raise)
  <2>1. status = "running" /\ Raise
    BY <1>6, Zenon DEF CommandRaises, CallRaises, Cleanup, Running
  <2>2. exc' \/ status' = "raised"
    BY <2>1, RaiseControl DEF Base
  <2>. QED
    BY <2>2 DEF Switches, Smooth
<1>7. CASE Cleanup /\ ~Raise
  <2>1. /\ Running("cleanup") /\ Advance /\ UNCHANGED <<target, blocked, start, conn>>
        /\ fault' \in {fault, fault \cup {"refused"}}
    BY <1>7 DEF Cleanup, ovsVars
  <2>. QED
    BY <2>1, SwitchesQuiet
<1>8. CASE Return
  <2>1. /\ UNCHANGED <<tc, pc, at, part, exc, conn, target, blocked, start, fault>>
        /\ status = "running" /\ status' = "returned"
    BY <1>8, Zenon DEF Return, Running, place, ovsVars
  <2>. QED
    BY <2>1, SwitchesStill
<1>9. CASE (\E n \in Node : Program(n) \/ Learn(n)) \/ UNCHANGED vars
  <2>1. /\ UNCHANGED <<tc, pc, at, part, exc, conn, target, blocked, start, fault>>
        /\ status' = status
    BY <1>9, Zenon DEF Program, Learn, vars, mainVars, place, ovsVars
  <2>. QED
    BY <2>1, SwitchesStill
<1>. QED
  BY <1>2, <1>3, <1>4, <1>5, <1>6, <1>7, <1>8, <1>9, SwitchesCommand DEF Next, Main, Done

\* A step touches no switch but the one main is at, and none after an
\* exception.
LEMMA OnlyAt ==
  ASSUME Base, [Next]_vars
  PROVE  /\ tc' = tc /\ start' = start /\ fault \subseteq fault'
         /\ \A n \in Node : n # at => target'[n] = target[n] /\ blocked'[n] = blocked[n]
         /\ exc \/ status = "raised" => UNCHANGED <<target, blocked>>
<1>1. /\ target \in [Node -> Target] /\ blocked \in [Node -> Nat]
  BY DEF Base, Types
<1>2. CASE Cut \/ Set \/ Block \/ Unblock \/ CommandRaises
  <2>1. /\ status = "running" /\ Step.op \in {"cut", "set", "block", "unblock"}
        /\ start' = start /\ (Advance \/ Raise)
        /\ fault' \in {fault, fault \cup {"lost"}, fault \cup {"raised"}}
        /\ \/ UNCHANGED ovsVars
           \/ SetTarget(NoController) \/ SetTarget(conn)
           \/ SetRules(blocked[at] + 1) \/ SetRules(blocked[at] - 1)
    BY <1>2 DEF Cut, Set, Block, Unblock, Told, Running, CommandRaises, Raise
  <2>2. tc' = tc
    BY <2>1, Zenon DEF Advance, Raise
  <2>3. Step.op # "cleanup"
    BY <2>1
  <2>4. pc # In(7, 19)
    BY <2>3, Places, Zenon DEF PlaceOf, Base
  <2>5. ~exc
    BY <2>1, <2>4 DEF Base, Control
  <2>6. \A n \in Node : n # at => target'[n] = target[n] /\ blocked'[n] = blocked[n]
    BY <1>1, <2>1 DEF SetTarget, SetRules, ovsVars
  <2>. QED
    BY <2>1, <2>2, <2>5, <2>6
<1>3. CASE \/ Count \/ Boot \/ Check \/ Read \/ CallRaises \/ Cleanup \/ Return
           \/ (\E n \in Node : Program(n) \/ Learn(n)) \/ UNCHANGED vars
  <2>1. UNCHANGED <<target, blocked, start>>
    BY <1>3, Zenon DEF Count, Boot, Check, Read, CallRaises, Cleanup, Return, Program,
       Learn,
       vars, ovsVars
  <2>2. tc' = tc
    BY <1>3, Zenon DEF Count, Boot, Check, Read, CallRaises, Cleanup, Return, Program,
       Learn,
       vars, mainVars, Advance, Raise
  <2>3. fault \subseteq fault'
    BY <1>3 DEF Count, Boot, Check, Read, CallRaises, Cleanup, Return, Program, Learn,
       vars, Raise
  <2>. QED
    BY <2>1, <2>2, <2>3
<1>. QED
  BY <1>2, <1>3 DEF Next, Main, Done

LEMMA AbandonedNext ==
  ASSUME Base, Switches, Abandoned, [Next]_vars
  PROVE  Abandoned'
<1>. SUFFICES ASSUME tc' = "tc12", "lost" \notin fault', start'.target[1] # NoController,
                     NEW m \in Node, NEW n \in Node, CutOff(m)', CutOff(n)'
              PROVE  m = n
  BY DEF Abandoned
<1>1. /\ tc = "tc12" /\ "lost" \notin fault /\ start.target[1] # NoController
      /\ start' = start
  BY OnlyAt
<1>2. CASE exc \/ status = "raised"
  <2>1. CutOff(m) /\ CutOff(n)
    BY <1>2, OnlyAt DEF CutOff
  <2>. QED
    BY <1>1, <1>2, <2>1 DEF Abandoned
<1>3. CASE ~(exc \/ status = "raised")
  <2>1. \A k \in Node : CutOff(k)' /\ k # at => CutOff(k)
    BY <1>1, OnlyAt DEF CutOff
  <2>2. Smooth
    BY <1>1, <1>3 DEF Smooth
  <2>3. \A k \in Node : CutOff(k) => k = at
    BY <1>1, <2>2, OnlyHere
  <2>. QED
    BY <2>1, <2>3
<1>. QED
  BY <1>2, <1>3

LEMMA SwitchesInit ==
  ASSUME Init
  PROVE  Switches /\ Abandoned
<1>1. /\ tc \in {"tc11", "tc12"} /\ pc = 1 /\ at = 1 /\ part = 1 /\ exc = FALSE
      /\ status = "running" /\ target = start.target /\ blocked = start.blocked
      /\ start \in Found
  BY DEF Init
<1>2. \A n \in Node : n >= 1 /\ start.blocked[n] \in Nat
  BY <1>1, StartType, NodeAssumption DEF Node
<1>3. Switches
  BY <1>1, <1>2 DEF Switches, TargetAt, BlockedAt, Past, In
<1>4. Abandoned
  BY <1>1 DEF Abandoned
<1>. QED
  BY <1>3, <1>4

SwitchesInv == Base /\ Switches /\ Abandoned

LEMMA SwitchesCorrect == Spec => []SwitchesInv
<1>1. Init => SwitchesInv
  BY Base_Init, SwitchesInit DEF SwitchesInv
<1>2. SwitchesInv /\ [Next]_vars => SwitchesInv'
  BY Base_Next, SwitchesNext, AbandonedNext DEF SwitchesInv
<1>. QED
  BY <1>1, <1>2, PTL DEF Spec

(***************************************************************************)
(* At most one switch at a time is without its controller or behind the    *)
(* firewall rule in tc12, wherever main is and wherever an exception       *)
(* ended it, with any number of compute nodes.                             *)
(***************************************************************************)
THEOREM OneAtATime == Spec => []OneSwitchAtATime
<1>1. SwitchesInv => OneSwitchAtATime
  <2>. SUFFICES ASSUME SwitchesInv, tc = "tc12", "lost" \notin fault,
                       start.target[1] # NoController,
                       NEW m \in Node, NEW n \in Node, CutOff(m), CutOff(n)
                PROVE  m = n
    BY DEF OneSwitchAtATime
  <2>1. CASE exc \/ status = "raised"
    BY <2>1 DEF SwitchesInv, Abandoned
  <2>2. CASE ~(exc \/ status = "raised")
    <3>1. Smooth
      BY <2>2 DEF Smooth
    <3>. QED
      BY <3>1, OnlyHere DEF SwitchesInv
  <2>. QED
    BY <2>1, <2>2
<1>. QED
  BY <1>1, SwitchesCorrect, PTL

(***************************************************************************)
(* Whatever a testcase found on the switches, one that returns leaves each *)
(* with the controller of the first compute node and with the firewall     *)
(* rules it had, unless run_cmd lost a command.                            *)
(***************************************************************************)
THEOREM HandsBack == Spec => []HandedBack
<1>1. SwitchesInv => HandedBack
  <2>. SUFFICES ASSUME SwitchesInv, status = "returned", "lost" \notin fault, NEW n \in Node
                PROVE  target[n] = start.target[1] /\ blocked[n] = start.blocked[n]
    BY DEF HandedBack
  <2>1. pc = Last /\ ~exc
    BY DEF SwitchesInv, Base, Control
  <2>2. Smooth
    BY <2>1 DEF Smooth
  <2>3. target[n] = TargetAt(n) /\ blocked[n] = BlockedAt(n)
    BY <2>2 DEF SwitchesInv, Switches
  <2>4. tc \in {"tc11", "tc12"} /\ start.blocked[n] \in Nat
    BY StartType DEF SwitchesInv, Base, PlaceType, Types
  <2>. QED
    BY <2>1, <2>3, <2>4 DEF TargetAt, BlockedAt, Past, Last
<1>. QED
  BY <1>1, SwitchesCorrect, PTL

-----------------------------------------------------------------------------
(***************************************************************************)
(* The numbers of lines.  How many nodes main has counted for a mark, and  *)
(* for these the sums from the first node on: s of the groups that were    *)
(* there before the testcase, f and a of the flows then and with the       *)
(* instances up.                                                           *)
(***************************************************************************)
Counted(kind, mark) ==
  IF pc < DumpAt(kind, mark) THEN 0
  ELSE IF pc = DumpAt(kind, mark) THEN at - 1 ELSE NodeCount

Before(n, kind) == Lines(start.have[n][kind])

\* The lines the groups of the two instances add to a dump.
Bonus == Lines(start.have[host.node].group + VmGroups) - Before(host.node, "group")

\* Whether this dump was made while the instances were up.
WithVms(mark) == tc = "tc12" \/ mark = "added"

GroupBook(s) ==
  /\ s[0] = 0
  /\ \A i \in 1..Counted("group", "initial") : s[i] = s[i - 1] + Before(i, "group")
  /\ lines["initial"].group = s[Counted("group", "initial")]
  /\ ~late => \A m \in Marks \ {"initial"} :
       lines[m].group = s[Counted("group", m)] +
         (IF WithVms(m) /\ host.node <= Counted("group", m) THEN Bonus ELSE 0)
  /\ tc = "tc11" =>
       /\ lines["resync_1"].group >= s[Counted("group", "resync_1")]
       /\ lines["resync_1"].group = s[Counted("group", "resync_1")] =>
            \A i \in 1..Counted("group", "resync_1") : have[i].group <= Before(i, "group")

FlowBook(f, a) ==
  /\ f[0] = 0 /\ a[0] = 0
  /\ \A i \in 1..Counted("flow", "initial") : f[i] = f[i - 1] + Before(i, "flow")
  /\ lines["initial"].flow = f[Counted("flow", "initial")]
  /\ lines["added"].flow = a[Counted("flow", "added")]
  /\ \A i \in 0..Counted("flow", "added") :
       a[i] >= f[i] + (IF host.node <= i THEN 1 ELSE 0)
  /\ host.up => \A i \in 1..Counted("flow", "added") :
                  a[i] <= a[i - 1] + Lines(want[i].flow)
  /\ \A m \in {"resync_1", "resync_2"} : lines[m].flow >= a[Counted("flow", m)]

Sums == [0..NodeCount -> Nat]

\* A dump of the flows is never empty, and the groups of the two instances
\* make a difference where an empty dump counts as a line.
Visible ==
  /\ \A found \in Found, n \in Node : found.have[n].flow > 0
  /\ VmGroups > 1 \/ \A found \in Found, n \in Node : found.have[n].group > 0

GroupBooks == fault = {} => \E s \in Sums : GroupBook(s)

FlowBooks == Visible /\ fault = {} /\ ~late => \E f, a \in Sums : FlowBook(f, a)

LEMMA DumpPlace ==
  ASSUME PlaceType, NEW kind \in Kinds, NEW mark \in Marks
  PROVE  /\ DumpAt(kind, mark) \in Nat
         /\ Counted(kind, mark) \in 0..NodeCount
         /\ \A k \in Kinds, m \in Marks :
              DumpAt(k, m) = DumpAt(kind, mark) /\ DumpAt(k, m) <= Last =>
                k = kind /\ m = mark
<1>1. DumpAt(kind, mark) \in Nat
  BY DEF DumpAt
<1>2. pc \in Nat /\ at \in 1..NodeCount /\ NodeCount \in Nat
  BY Numbers
<1>3. Counted(kind, mark) \in 0..NodeCount
  BY <1>1, <1>2 DEF Counted
<1>4. \A k \in Kinds, m \in Marks :
        DumpAt(k, m) = DumpAt(kind, mark) /\ DumpAt(k, m) <= Last => k = kind /\ m = mark
  BY DEF DumpAt, Last, PlaceType, Kinds, Marks
<1>. QED
  BY <1>1, <1>3, <1>4

LEMMA CountedKept ==
  ASSUME PlaceType, NextStep, pc # Last, tc' = tc, NEW kind \in Kinds, NEW mark \in Marks,
         pc # DumpAt(kind, mark)
  PROVE  Counted(kind, mark)' = Counted(kind, mark)
<1>1. DumpAt(kind, mark)' = DumpAt(kind, mark) /\ DumpAt(kind, mark) \in Nat
  BY DumpPlace DEF DumpAt
<1>2. pc \in Nat
  BY Numbers
<1>3. \/ pc' = pc /\ (at' = at \/ pc \in Loops)
      \/ pc' = pc + 1 /\ at' = 1
  BY Moves
<1>4. pc < DumpAt(kind, mark) \/ pc > DumpAt(kind, mark)
  BY <1>1, <1>2
<1>. QED
  BY <1>1, <1>2, <1>3, <1>4 DEF Counted

\* What a dump of one node does.
LEMMA CountStep ==
  ASSUME Base, Count
  PROVE  \E kind \in Kinds, mark \in Marks :
           /\ pc = DumpAt(kind, mark) /\ pc <= Last
           /\ Counted(kind, mark) = at - 1 /\ Counted(kind, mark)' = at
           /\ \A k \in Kinds, m \in Marks :
                k # kind \/ m # mark => /\ Counted(k, m)' = Counted(k, m)
                                        /\ lines'[m][k] = lines[m][k]
           /\ lines'[mark][kind] = lines[mark][kind] + Lines(have[at][kind])
           /\ late' = (late \/ have[at] # want[at])
           /\ UNCHANGED <<tc, have, want, host, start, fault, said>>
<1>1. PICK kind \in Kinds, mark \in Marks :
        /\ pc = DumpAt(kind, mark) /\ pc \in Loops
        /\ lines' = [lines EXCEPT ![mark][kind] = @ + Lines(have[at][kind])]
  <2>1. /\ Step.op = "dump"
        /\ lines' = [lines EXCEPT ![Step.mark][Step.kind] = @ + Lines(have[at][Step.kind])]
    BY Zenon DEF Count, Running
  <2>2. /\ Step.kind \in Kinds /\ Step.mark \in Marks
        /\ pc = DumpAt(Step.kind, Step.mark) /\ pc \in Loops
    BY <2>1, Places, Zenon DEF PlaceOf, Base
  <2>. QED
    BY <2>1, <2>2, Zenon
<1>2. /\ status = "running" /\ Advance
      /\ late' = (late \/ have[at] # want[at])
      /\ UNCHANGED <<have, want, host, start, fault, said>>
  BY Zenon DEF Count, Running, odlVars
<1>3. pc \notin {In(2, 3), In(7, 19), Last} /\ Width = 1
  <2>1. pc \notin {In(2, 3), In(7, 19), Last}
    BY <1>1 DEF Base, PlaceType, Last, Loops, In
  <2>2. Width = 1
    BY <1>1 DEF Width, DumpAt, Kinds, Marks
  <2>. QED
    BY <2>1, <2>2
<1>4. tc' = tc /\ NextStep
  BY <1>2, <1>3, Ordinary
<1>5. /\ pc \in Nat /\ at \in 1..NodeCount /\ NodeCount \in Nat /\ pc <= Last
  BY Numbers DEF Base
<1>6. DumpAt(kind, mark)' = DumpAt(kind, mark)
  BY <1>4 DEF DumpAt
<1>7. Counted(kind, mark) = at - 1 /\ Counted(kind, mark)' = at
  <2>1. \/ pc' = pc /\ at' = at + 1
        \/ pc' = pc + 1 /\ at' = 1 /\ at = NodeCount
    BY <1>1, <1>3, <1>4, Moves DEF Base, PlaceType
  <2>. QED
    BY <1>1, <1>5, <1>6, <2>1 DEF Counted
<1>8. \A k \in Kinds, m \in Marks : k # kind \/ m # mark => Counted(k, m)' = Counted(k, m)
  <2>. TAKE k \in Kinds, m \in Marks
  <2>. HAVE k # kind \/ m # mark
  <2>1. pc # DumpAt(k, m)
    BY <1>1, <1>5, DumpPlace DEF Base
  <2>. QED
    BY <1>3, <1>4, <2>1, CountedKept DEF Base
<1>9. lines \in [Marks -> [Kinds -> Nat]]
  BY DEF Base, Types, Table
<1>10. /\ lines'[mark][kind] = lines[mark][kind] + Lines(have[at][kind])
       /\ \A k \in Kinds, m \in Marks : k # kind \/ m # mark => lines'[m][k] = lines[m][k]
  BY <1>1, <1>9
<1>. QED
  BY <1>1, <1>2, <1>4, <1>5, <1>7, <1>8, <1>10

\* Nothing is counted.
LEMMA BooksKept ==
  ASSUME Base, Base', GroupBooks, FlowBooks,
         UNCHANGED <<tc, start, lines, late>>, fault \subseteq fault', host'.node = host.node,
         \A k \in Kinds, m \in Marks : Counted(k, m)' = Counted(k, m),
         fault' = {} /\ tc = "tc11" =>
           \A i \in 1..Counted("group", "resync_1") :
             have[i].group <= Before(i, "group") => have'[i].group <= Before(i, "group"),
         fault' = {} /\ host'.up =>
           \A i \in 1..Counted("flow", "added") :
             host.up /\ Lines(want[i].flow) <= Lines(want'[i].flow)
  PROVE  GroupBooks' /\ FlowBooks'
<1>1. /\ NodeCount \in Nat /\ Counted("flow", "added") \in 0..NodeCount
      /\ \A i \in Node : want[i].flow \in Nat /\ want'[i].flow \in Nat
  BY DumpPlace, Numbers DEF Kinds, Marks, Base, Types, Table
<1>2. /\ \A i, k : Before(i, k)' = Before(i, k)
      /\ Bonus' = Bonus
      /\ \A m : WithVms(m)' = WithVms(m)
      /\ \A m \in Marks : /\ Counted("group", m)' = Counted("group", m)
                          /\ Counted("flow", m)' = Counted("flow", m)
  BY DEF Before, Bonus, WithVms, Kinds
<1>3. {"initial", "added", "resync_1", "resync_2"} = Marks
  BY DEF Marks
<1>4. ASSUME fault' = {}
      PROVE  \E s \in Sums : GroupBook(s)'
  <2>1. PICK s \in Sums : GroupBook(s)
    BY <1>4 DEF GroupBooks
  <2>2. GroupBook(s)'
    BY <1>2, <1>3, <1>4, <2>1 DEF GroupBook
  <2>. QED
    BY <2>2
<1>5. ASSUME Visible, fault' = {}, ~late'
      PROVE  \E f, a \in Sums : FlowBook(f, a)'
  <2>1. PICK f \in Sums, a \in Sums : FlowBook(f, a)
    BY <1>5 DEF FlowBooks
  <2>2. FlowBook(f, a)'
    <3>1. ASSUME NEW i \in 1..Counted("flow", "added"), host'.up
          PROVE  a[i] <= a[i - 1] + Lines(want'[i].flow)
      <4>1. a[i] <= a[i - 1] + Lines(want[i].flow) /\ Lines(want[i].flow) <= Lines(want'[i].flow)
        BY <1>5, <2>1, <3>1 DEF FlowBook
      <4>2. /\ i \in 0..NodeCount /\ i - 1 \in 0..NodeCount /\ i \in Node
            /\ a[i] \in Nat /\ a[i - 1] \in Nat
        BY <1>1, <2>1 DEF Sums, Node
      <4>3. Lines(want[i].flow) \in Nat /\ Lines(want'[i].flow) \in Nat
        BY <1>1, <4>2 DEF Lines
      <4>. QED
        BY <4>1, <4>2, <4>3
    <3>. QED
      BY <1>2, <1>3, <2>1, <3>1 DEF FlowBook
  <2>. QED
    BY <2>2
<1>. QED
  BY <1>4, <1>5 DEF GroupBooks, FlowBooks, Sums

LEMMA Books_Init ==
  ASSUME Init
  PROVE  GroupBooks /\ FlowBooks
<1>1. /\ pc = 1 /\ at = 1 /\ Base /\ host.node \in 1..NodeCount /\ ~host.up
      /\ NodeCount \in Nat
  BY Base_Init, Numbers DEF Init, Base, Types, Node
<1>2. \A k \in Kinds, m \in Marks : Counted(k, m) = 0
  <2>. TAKE k \in Kinds, m \in Marks
  <2>1. DumpAt(k, m) >= 1
    BY <1>1 DEF DumpAt, Kinds, Marks, Base, PlaceType
  <2>. QED
    BY <1>1, <2>1, DumpPlace DEF Counted, Base
<1>3. \A k \in Kinds, m \in Marks : lines[m][k] = 0
  BY DEF Init
<1>. DEFINE zero == [i \in 0..NodeCount |-> 0]
<1>4. zero \in Sums /\ zero[0] = 0
  BY <1>1 DEF Sums
<1>. HIDE DEF zero
<1>5. /\ Counted("group", "initial") = 0 /\ Counted("group", "resync_1") = 0
      /\ Counted("flow", "initial") = 0 /\ Counted("flow", "added") = 0
      /\ \A m \in Marks : Counted("group", m) = 0 /\ Counted("flow", m) = 0
      /\ \A m \in Marks : lines[m].group = 0 /\ lines[m].flow = 0
      /\ lines["initial"].group = 0 /\ lines["resync_1"].group = 0
      /\ lines["initial"].flow = 0 /\ lines["added"].flow = 0
  BY <1>2, <1>3 DEF Kinds, Marks
<1>6. GroupBook(zero)
  BY <1>1, <1>4, <1>5 DEF GroupBook
<1>7. FlowBook(zero, zero)
  <2>1. "resync_1" \in Marks /\ "resync_2" \in Marks
    BY DEF Marks
  <2>. QED
    BY <1>1, <1>4, <1>5, <2>1 DEF FlowBook
<1>. QED
  BY <1>4, <1>6, <1>7 DEF GroupBooks, FlowBooks

\* What is counted, and what the switches hold when it is.
LEMMA Held ==
  ASSUME Base, fault = {}, NEW m \in Marks, pc = DumpAt("group", m), pc <= Last
  PROVE  /\ host.up <=> m # "initial" /\ WithVms(m)
         /\ m = "initial" => have = start.have
         /\ \A n \in Node :
              want[n].group = start.have[n].group +
                 (IF m # "initial" /\ WithVms(m) /\ n = host.node THEN VmGroups ELSE 0)
<1>1. host.up <=> In(2, 3) < pc /\ pc <= In(7, 19)
  BY DEF Base, Wants
<1>2. host.up <=> m # "initial" /\ WithVms(m)
  BY <1>1 DEF DumpAt, In, WithVms, Marks, Last, Base, PlaceType
<1>3. m = "initial" => pc <= In(2, 3)
  BY DEF DumpAt, In
<1>. QED
  BY <1>2, <1>3 DEF Base, Wants, Extra

LEMMA LinesType ==
  /\ \A n \in Nat : Lines(n) \in Nat /\ Lines(n) >= 1 /\ Lines(n) >= n
  /\ \A n, m \in Nat : n <= m => Lines(n) <= Lines(m)
BY DEF Lines

LEMMA GroupBook_Other ==
  ASSUME Base, Base', NEW s \in Sums, GroupBook(s),
         UNCHANGED <<tc, have, host, start>>, late' = late \/ late',
         \A m \in Marks : /\ Counted("group", m)' = Counted("group", m)
                          /\ lines'[m].group = lines[m].group
  PROVE  GroupBook(s)'
<1>1. /\ \A i, k : Before(i, k)' = Before(i, k)
      /\ Bonus' = Bonus
      /\ \A m : WithVms(m)' = WithVms(m)
  BY DEF Before, Bonus, WithVms
<1>2. {"initial", "added", "resync_1", "resync_2"} = Marks
  BY DEF Marks
<1>. QED
  BY <1>1, <1>2 DEF GroupBook

LEMMA GroupBooks_Count ==
  ASSUME Base, Base', GroupBooks, Count
  PROVE  GroupBooks'
<1>1. PICK kind \in Kinds, mark \in Marks :
        /\ pc = DumpAt(kind, mark) /\ pc <= Last
        /\ Counted(kind, mark) = at - 1 /\ Counted(kind, mark)' = at
        /\ \A k \in Kinds, m \in Marks :
             k # kind \/ m # mark => /\ Counted(k, m)' = Counted(k, m)
                                     /\ lines'[m][k] = lines[m][k]
        /\ lines'[mark][kind] = lines[mark][kind] + Lines(have[at][kind])
        /\ late' = (late \/ have[at] # want[at])
        /\ UNCHANGED <<tc, have, want, host, start, fault, said>>
  BY CountStep
<1>. SUFFICES ASSUME fault = {}
              PROVE  \E s \in Sums : GroupBook(s)'
  BY <1>1 DEF GroupBooks, Sums
<1>2. PICK s \in Sums : GroupBook(s)
  BY DEF GroupBooks
<1>3. /\ at \in 1..NodeCount /\ at \in Node /\ NodeCount \in Nat
      /\ host.node \in 1..NodeCount /\ VmGroups \in Nat
  BY Numbers, BoundAssumption DEF Base, Types, PlaceType, Node
<1>4. /\ \A n \in Node : /\ have[n].group \in Nat /\ want[n].group \in Nat
                         /\ start.have[n].group \in Nat
      /\ \A m \in Marks : lines[m].group \in Nat
  BY StartType DEF Base, Types, Table, Kinds
<1>5. /\ \A i : Before(i, "group")' = Before(i, "group")
      /\ \A i \in Node : Before(i, "group") \in Nat
      /\ Bonus' = Bonus /\ Bonus \in Int
      /\ \A m : WithVms(m)' = WithVms(m)
  <2>1. /\ \A i : Before(i, "group")' = Before(i, "group")
        /\ \A m : WithVms(m)' = WithVms(m)
    BY <1>1 DEF Before, WithVms
  <2>2. \A i \in Node : Before(i, "group") \in Nat
    BY <1>4, LinesType DEF Before
  <2>3. host.node \in Node /\ start.have[host.node].group + VmGroups \in Nat
    BY <1>3, <1>4 DEF Node
  <2>4. Bonus \in Int
    BY <2>2, <2>3, LinesType DEF Bonus
  <2>. QED
    BY <1>1, <2>1, <2>2, <2>4 DEF Bonus
<1>6. CASE kind # "group"
  <2>1. \A m \in Marks : /\ Counted("group", m)' = Counted("group", m)
                         /\ lines'[m].group = lines[m].group
    BY <1>1, <1>6 DEF Kinds
  <2>2. late' = late \/ late'
    BY <1>1 DEF Base, Types
  <2>3. GroupBook(s)'
    BY <1>1, <1>2, <2>1, <2>2, GroupBook_Other
  <2>. QED
    BY <2>3
<1>7. CASE kind = "group" /\ mark = "initial"
  <2>1. /\ s \in [0..NodeCount -> Nat] /\ at \in 0..NodeCount /\ at - 1 \in 0..NodeCount
    BY <1>2, <1>3 DEF Sums
  <2>2. PICK t \in Sums :
          /\ t[at] = s[at - 1] + Before(at, "group")
          /\ \A i \in 0..NodeCount : i # at => t[i] = s[i]
    <3>. DEFINE u == [s EXCEPT ![at] = s[at - 1] + Before(at, "group")]
    <3>1. /\ u \in Sums /\ u[at] = s[at - 1] + Before(at, "group")
          /\ \A i \in 0..NodeCount : i # at => u[i] = s[i]
      BY <1>3, <1>5, <2>1 DEF Sums
    <3>. QED
      BY <3>1
  <2>3. \A m \in Marks : m # "initial" =>
          /\ Counted("group", m) = 0 /\ Counted("group", m)' = 0
          /\ lines'[m].group = lines[m].group
    <3>. SUFFICES ASSUME NEW m \in Marks, m # "initial"
                  PROVE  Counted("group", m) = 0
      BY <1>1, <1>7 DEF Kinds
    <3>1. pc < DumpAt("group", m)
      BY <1>1, <1>7 DEF DumpAt, Marks
    <3>. QED
      BY <3>1 DEF Counted
  <2>4. have = start.have
    BY <1>1, <1>7, Held
  <2>5. Lines(have[at].group) = Before(at, "group")
    BY <2>4 DEF Before
  <2>6. /\ Counted("group", "initial") = at - 1 /\ Counted("group", "initial")' = at
        /\ lines'["initial"].group = lines["initial"].group + Before(at, "group")
        /\ lines["initial"].group = s[at - 1]
    BY <1>1, <1>2, <1>7, <2>5 DEF GroupBook
  <2>7. t[0] = 0
    BY <1>2, <1>3, <2>2 DEF GroupBook
  <2>8. \A i \in 1..at : t[i] = t[i - 1] + Before(i, "group")
    <3>. TAKE i \in 1..at
    <3>1. CASE i = at
      BY <1>3, <2>1, <2>2, <3>1
    <3>2. CASE i # at
      <4>1. i \in 1..(at - 1) /\ i \in 0..NodeCount /\ i - 1 \in 0..NodeCount /\ i - 1 # at
        BY <1>3, <3>2
      <4>2. s[i] = s[i - 1] + Before(i, "group")
        BY <1>2, <2>6, <4>1 DEF GroupBook
      <4>. QED
        BY <2>2, <3>2, <4>1, <4>2
    <3>. QED
      BY <3>1, <3>2
  <2>9. \A m \in Marks : m # "initial" /\ ~late' => lines'[m].group = t[0]
    <3>. SUFFICES ASSUME NEW m \in Marks, m # "initial", ~late'
                  PROVE  lines[m].group = 0
      BY <2>3, <2>7
    <3>1. ~late /\ s[0] = 0
      BY <1>1, <1>2 DEF GroupBook
    <3>. QED
      BY <1>2, <1>3, <2>3, <3>1 DEF GroupBook
  <2>10. "resync_1" \in Marks /\ "resync_1" # "initial"
    BY DEF Marks
  <2>11. GroupBook(t)'
    <3>1. lines'["initial"].group = t[Counted("group", "initial")']
      BY <2>2, <2>6
    <3>2. Counted("group", "resync_1")' = 0 /\ Counted("group", "resync_1") = 0
      BY <2>3, <2>10
    <3>3. tc' = "tc11" => lines'["resync_1"].group >= t[0]
      <4>1. tc = "tc11" => lines["resync_1"].group >= s[0] /\ s[0] = 0
        BY <1>2, <3>2 DEF GroupBook
      <4>2. lines'["resync_1"].group = lines["resync_1"].group
        BY <2>3, <2>10
      <4>. QED
        BY <1>1, <2>7, <4>1, <4>2
    <3>4. \A m \in Marks \ {"initial"} :
            ~(host'.node <= Counted("group", m)') /\ Counted("group", m)' = 0
      BY <1>1, <1>3, <2>3
    <3>5. ~late' => \A m \in Marks \ {"initial"} :
            lines'[m].group = t[Counted("group", m)'] +
              (IF WithVms(m)' /\ host'.node <= Counted("group", m)' THEN Bonus' ELSE 0)
      BY <2>7, <2>9, <3>4
    <3>6. \A i \in 1..Counted("group", "initial")' : t[i] = t[i - 1] + Before(i, "group")'
      BY <1>5, <2>6, <2>8
    <3>7. tc' = "tc11" =>
            /\ lines'["resync_1"].group >= t[Counted("group", "resync_1")']
            /\ \A i \in 1..Counted("group", "resync_1")' :
                 have'[i].group <= Before(i, "group")'
      <4>1. \A i : i \notin 1..0
        OBVIOUS
      <4>. QED
        BY <2>7, <3>2, <3>3, <4>1
    <3>. QED
      BY <2>7, <3>1, <3>5, <3>6, <3>7 DEF GroupBook
  <2>. QED
    BY <2>2, <2>11
<1>8. CASE kind = "group" /\ mark # "initial"
  <2>1. /\ Counted("group", mark) = at - 1 /\ Counted("group", mark)' = at
        /\ lines'[mark].group = lines[mark].group + Lines(have[at].group)
        /\ \A m \in Marks : m # mark => /\ Counted("group", m)' = Counted("group", m)
                                        /\ lines'[m].group = lines[m].group
    BY <1>1, <1>8
  <2>2. Counted("group", "initial") = NodeCount
    <3>1. pc > DumpAt("group", "initial")
      BY <1>1, <1>8 DEF DumpAt, Marks
    <3>2. pc \in Nat /\ DumpAt("group", "initial") \in Nat
      BY DumpPlace, Numbers DEF Base, Kinds, Marks
    <3>. QED
      BY <3>1, <3>2 DEF Counted
  <2>3. /\ s[at] = s[at - 1] + Before(at, "group")
        /\ s[at] \in Nat /\ s[at - 1] \in Nat
    <3>1. at \in 0..NodeCount /\ at - 1 \in 0..NodeCount /\ at \in 1..NodeCount
      BY <1>3
    <3>2. s[at] = s[at - 1] + Before(at, "group")
      BY <1>2, <2>2, <3>1 DEF GroupBook
    <3>. QED
      BY <1>2, <3>1, <3>2 DEF Sums
  <2>4. ASSUME ~late'
        PROVE  lines'[mark].group = s[at] +
                 (IF WithVms(mark) /\ host.node <= at THEN Bonus ELSE 0)
    <3>1. ~late /\ have[at] = want[at]
      BY <1>1, <2>4
    <3>2. lines[mark].group = s[at - 1] +
            (IF WithVms(mark) /\ host.node <= at - 1 THEN Bonus ELSE 0)
      BY <1>2, <1>8, <2>1, <3>1 DEF GroupBook
    <3>3. have[at].group = start.have[at].group +
            (IF WithVms(mark) /\ at = host.node THEN VmGroups ELSE 0)
      BY <1>1, <1>3, <1>8, <3>1, Held
    <3>4. CASE WithVms(mark) /\ at = host.node
      <4>1. Lines(have[at].group) = Before(at, "group") + Bonus
        <5>1. Lines(have[at].group) = Lines(start.have[at].group + VmGroups)
          BY <1>3, <1>4, <3>3, <3>4
        <5>2. start.have[at].group + VmGroups \in Nat
          BY <1>3, <1>4
        <5>3. Lines(start.have[at].group + VmGroups) \in Nat /\ Before(at, "group") \in Nat
          BY <1>3, <1>5, <5>2, LinesType
        <5>. QED
          BY <3>4, <5>1, <5>3 DEF Bonus
      <4>2. ~(host.node <= at - 1) /\ host.node <= at
        BY <1>3, <3>4
      <4>. QED
        BY <1>3, <1>5, <2>1, <2>3, <3>2, <3>4, <4>1, <4>2
    <3>5. CASE ~(WithVms(mark) /\ at = host.node)
      <4>1. Lines(have[at].group) = Before(at, "group")
        BY <1>3, <1>4, <3>3, <3>5 DEF Before
      <4>2. WithVms(mark) => (host.node <= at - 1 <=> host.node <= at)
        BY <1>3, <3>5
      <4>. QED
        BY <1>3, <1>5, <2>1, <2>3, <3>2, <4>1, <4>2
    <3>. QED
      BY <3>4, <3>5
  <2>5. ASSUME tc = "tc11", mark = "resync_1"
        PROVE  /\ lines'[mark].group >= s[at]
               /\ lines'[mark].group = s[at] =>
                    \A i \in 1..at : have[i].group <= Before(i, "group")
    <3>1. /\ lines[mark].group >= s[at - 1]
          /\ lines[mark].group = s[at - 1] =>
               \A i \in 1..(at - 1) : have[i].group <= Before(i, "group")
      BY <1>2, <2>1, <2>5 DEF GroupBook
    <3>2. have[at].group >= start.have[at].group
      BY <1>3 DEF Base, Wants
    <3>3. Lines(have[at].group) >= Before(at, "group") /\ Lines(have[at].group) >= have[at].group
      BY <1>3, <1>4, <3>2, LinesType DEF Before
    <3>4. Lines(have[at].group) \in Nat /\ lines[mark].group \in Nat
      BY <1>3, <1>4, LinesType
    <3>5. lines'[mark].group >= s[at]
      BY <1>3, <1>5, <2>1, <2>3, <3>1, <3>3, <3>4
    <3>6. ASSUME lines'[mark].group = s[at], NEW i \in 1..at
          PROVE  have[i].group <= Before(i, "group")
      <4>1. lines[mark].group = s[at - 1] /\ Lines(have[at].group) = Before(at, "group")
        BY <1>3, <1>5, <2>1, <2>3, <3>1, <3>3, <3>4, <3>6
      <4>2. CASE i = at
        BY <3>3, <4>1, <4>2
      <4>3. CASE i # at
        BY <1>3, <3>1, <4>1, <4>3
      <4>. QED
        BY <4>2, <4>3
    <3>. QED
      BY <3>5, <3>6
  <2>6. GroupBook(s)'
    <3>1. "initial" \in Marks /\ "resync_1" \in Marks
      BY DEF Marks
    <3>2. /\ s[0] = 0
          /\ \A i \in 1..Counted("group", "initial")' : s[i] = s[i - 1] + Before(i, "group")'
          /\ lines'["initial"].group = s[Counted("group", "initial")']
      BY <1>2, <1>5, <1>8, <2>1, <3>1 DEF GroupBook
    <3>3. ~late' => \A m \in Marks \ {"initial"} :
            lines'[m].group = s[Counted("group", m)'] +
              (IF WithVms(m)' /\ host'.node <= Counted("group", m)' THEN Bonus' ELSE 0)
      <4>. SUFFICES ASSUME ~late', NEW m \in Marks \ {"initial"}
                    PROVE  lines'[m].group = s[Counted("group", m)'] +
                             (IF WithVms(m) /\ host.node <= Counted("group", m)'
                              THEN Bonus ELSE 0)
        BY <1>1, <1>5
      <4>1. CASE m = mark
        BY <2>1, <2>4, <4>1
      <4>2. CASE m # mark
        BY <1>1, <1>2, <2>1, <4>2 DEF GroupBook
      <4>. QED
        BY <4>1, <4>2
    <3>4. tc' = "tc11" =>
            /\ lines'["resync_1"].group >= s[Counted("group", "resync_1")']
            /\ lines'["resync_1"].group = s[Counted("group", "resync_1")'] =>
                 \A i \in 1..Counted("group", "resync_1")' :
                   have'[i].group <= Before(i, "group")'
      <4>1. CASE mark = "resync_1"
        BY <1>1, <1>5, <2>1, <2>5, <4>1
      <4>2. CASE mark # "resync_1"
        BY <1>1, <1>2, <1>5, <2>1, <3>1, <4>2 DEF GroupBook
      <4>. QED
        BY <4>1, <4>2
    <3>. QED
      BY <3>2, <3>3, <3>4 DEF GroupBook
  <2>. QED
    BY <2>6
<1>. QED
  BY <1>6, <1>7, <1>8

LEMMA FlowBook_Other ==
  ASSUME NEW f \in Sums, NEW a \in Sums, FlowBook(f, a),
         UNCHANGED <<tc, want, host, start>>,
         \A m \in Marks : /\ Counted("flow", m)' = Counted("flow", m)
                          /\ lines'[m].flow = lines[m].flow
  PROVE  FlowBook(f, a)'
<1>1. \A i, k : Before(i, k)' = Before(i, k)
  BY DEF Before
<1>2. {"initial", "added", "resync_1", "resync_2"} = Marks
  BY DEF Marks
<1>. QED
  BY <1>1, <1>2 DEF FlowBook

\* One number more in a sum.
LEMMA Appended ==
  ASSUME NEW s \in Sums, NEW i \in 1..NodeCount, NEW x \in Nat
  PROVE  \E t \in Sums : t[i] = s[i - 1] + x /\ \A j \in 0..NodeCount : j # i => t[j] = s[j]
<1>. DEFINE t == [s EXCEPT ![i] = s[i - 1] + x]
<1>1. NodeCount \in Nat
  BY NodeAssumption
<1>2. /\ t \in Sums /\ t[i] = s[i - 1] + x
      /\ \A j \in 0..NodeCount : j # i => t[j] = s[j]
  BY <1>1 DEF Sums
<1>. QED
  BY <1>2

LEMMA FlowBooks_Count ==
  ASSUME Base, Base', FlowBooks, Count
  PROVE  FlowBooks'
<1>1. PICK kind \in Kinds, mark \in Marks :
        /\ pc = DumpAt(kind, mark) /\ pc <= Last
        /\ Counted(kind, mark) = at - 1 /\ Counted(kind, mark)' = at
        /\ \A k \in Kinds, m \in Marks :
             k # kind \/ m # mark => /\ Counted(k, m)' = Counted(k, m)
                                     /\ lines'[m][k] = lines[m][k]
        /\ lines'[mark][kind] = lines[mark][kind] + Lines(have[at][kind])
        /\ late' = (late \/ have[at] # want[at])
        /\ UNCHANGED <<tc, have, want, host, start, fault, said>>
  BY CountStep
<1>. SUFFICES ASSUME Visible, fault = {}, ~late'
              PROVE  \E f, a \in Sums : FlowBook(f, a)'
  BY <1>1 DEF FlowBooks, Sums
<1>2. ~late /\ have[at] = want[at]
  BY <1>1
<1>3. PICK f \in Sums, a \in Sums : FlowBook(f, a)
  BY <1>2 DEF FlowBooks
<1>4. /\ at \in 1..NodeCount /\ at \in Node /\ NodeCount \in Nat
      /\ at \in 0..NodeCount /\ at - 1 \in 0..NodeCount
      /\ host.node \in 1..NodeCount
  <2>1. at \in 1..NodeCount /\ NodeCount \in Nat
    BY Numbers DEF Base
  <2>2. host.node \in Node
    BY DEF Base, Types
  <2>. QED
    BY <2>1, <2>2 DEF Node
<1>5. /\ \A n \in Node : /\ want[n].flow \in Nat /\ start.have[n].flow \in Nat
                         /\ start.have[n].flow > 0
      /\ \A m \in Marks : lines[m].flow \in Nat
  BY StartType DEF Base, Types, Table, Kinds, Visible
<1>6. /\ \A i : Before(i, "flow")' = Before(i, "flow")
      /\ \A i \in Node : Before(i, "flow") = start.have[i].flow
  BY <1>1, <1>5 DEF Before, Lines
<1>7. Lines(want[at].flow) \in Nat /\ Before(at, "flow") \in Nat
  BY <1>4, <1>5, <1>6, LinesType
<1>8. \A i \in 0..NodeCount : f[i] \in Nat /\ a[i] \in Nat
  BY DEF Sums
<1>9. CASE kind # "flow"
  <2>1. \A m \in Marks : /\ Counted("flow", m)' = Counted("flow", m)
                         /\ lines'[m].flow = lines[m].flow
    BY <1>1, <1>9 DEF Kinds
  <2>2. FlowBook(f, a)'
    BY <1>1, <1>3, <2>1, FlowBook_Other
  <2>. QED
    BY <2>2
<1>10. ASSUME kind = "flow"
       PROVE  /\ tc = "tc12"
              /\ \A m \in Marks : m # mark => /\ Counted("flow", m)' = Counted("flow", m)
                                              /\ lines'[m].flow = lines[m].flow
              /\ Counted("flow", mark) = at - 1 /\ Counted("flow", mark)' = at
              /\ lines'[mark].flow = lines[mark].flow + Lines(want[at].flow)
  <2>1. tc = "tc12"
    BY <1>1, <1>10 DEF DumpAt, Last, Base, PlaceType
  <2>. QED
    BY <1>1, <1>2, <1>10, <2>1
<1>11. CASE kind = "flow" /\ mark = "initial"
  <2>1. PICK g \in Sums : /\ g[at] = f[at - 1] + Before(at, "flow")
                          /\ \A i \in 0..NodeCount : i # at => g[i] = f[i]
    BY <1>4, <1>7, Appended
  <2>2. \A m \in Marks : m # "initial" => Counted("flow", m) = 0 /\ Counted("flow", m)' = 0
    <3>. SUFFICES ASSUME NEW m \in Marks, m # "initial"
                  PROVE  Counted("flow", m) = 0
      BY <1>10, <1>11
    <3>1. pc < DumpAt("flow", m)
      BY <1>1, <1>10, <1>11 DEF DumpAt, Marks
    <3>. QED
      BY <3>1 DEF Counted
  <2>3. want[at].flow = start.have[at].flow
    <3>1. pc <= In(2, 3)
      BY <1>1, <1>10, <1>11 DEF DumpAt, In
    <3>2. want = start.have
      BY <3>1 DEF Base, Wants
    <3>. QED
      BY <3>2
  <2>4. /\ Counted("flow", "initial") = at - 1 /\ Counted("flow", "initial")' = at
        /\ lines'["initial"].flow = lines["initial"].flow + Before(at, "flow")
    BY <1>10, <1>11, <2>3 DEF Before
  <2>5. {"initial", "added", "resync_1", "resync_2"} = Marks
    BY DEF Marks
  <2>6. /\ g[0] = 0 /\ a[0] = 0
        /\ lines'["initial"].flow = g[Counted("flow", "initial")']
    BY <1>3, <1>4, <2>1, <2>4 DEF FlowBook
  <2>7. \A i \in 1..Counted("flow", "initial")' : g[i] = g[i - 1] + Before(i, "flow")'
    <3>. SUFFICES ASSUME NEW i \in 1..at
                  PROVE  g[i] = g[i - 1] + Before(i, "flow")
      BY <1>6, <2>4
    <3>1. CASE i = at
      BY <1>4, <2>1, <3>1
    <3>2. CASE i # at
      <4>1. i \in 1..(at - 1) /\ i \in 0..NodeCount /\ i - 1 \in 0..NodeCount /\ i - 1 # at
        BY <1>4, <3>2
      <4>2. f[i] = f[i - 1] + Before(i, "flow")
        BY <1>3, <2>4, <4>1 DEF FlowBook
      <4>. QED
        BY <2>1, <3>2, <4>1, <4>2
    <3>. QED
      BY <3>1, <3>2
  <2>8. /\ Counted("flow", "added")' = 0
        /\ \A m \in Marks : m # "initial" => /\ lines'[m].flow = lines[m].flow
                                             /\ Counted("flow", m)' = 0
    BY <1>10, <1>11, <2>2, <2>5
  <2>9. /\ lines'["added"].flow = a[0]
        /\ \A m \in {"resync_1", "resync_2"} : lines'[m].flow >= a[0]
    BY <1>3, <1>10, <1>11, <2>2, <2>5 DEF FlowBook
  <2>10. \A i \in 0..0 : a[i] >= g[i] + (IF host'.node <= i THEN 1 ELSE 0)
    BY <1>1, <1>4, <2>6
  <2>11. \A i : i \notin 1..0
    OBVIOUS
  <2>12. FlowBook(g, a)'
    BY <2>5, <2>6, <2>7, <2>8, <2>9, <2>10, <2>11 DEF FlowBook
  <2>. QED
    BY <2>12
<1>12. CASE kind = "flow" /\ mark = "added"
  <2>1. PICK b \in Sums : /\ b[at] = a[at - 1] + Lines(want[at].flow)
                          /\ \A i \in 0..NodeCount : i # at => b[i] = a[i]
    BY <1>4, <1>7, Appended
  <2>2. Counted("flow", "initial") = NodeCount /\ Counted("flow", "initial")' = NodeCount
    BY <1>1, <1>10, <1>12 DEF Counted, DumpAt, Marks
  <2>3. \A m \in {"resync_1", "resync_2"} :
          /\ m \in Marks /\ m # "added"
          /\ Counted("flow", m) = 0 /\ Counted("flow", m)' = 0
    <3>. SUFFICES ASSUME NEW m \in {"resync_1", "resync_2"}
                  PROVE  m \in Marks /\ m # "added" /\ Counted("flow", m) = 0
      BY <1>10, <1>12
    <3>1. pc < DumpAt("flow", m)
      BY <1>1, <1>10, <1>12 DEF DumpAt
    <3>. QED
      BY <3>1 DEF Counted, Marks
  <2>4. host.up
    BY <1>1, <1>10, <1>12 DEF Base, Wants, In, DumpAt
  <2>5. /\ Counted("flow", "added") = at - 1 /\ Counted("flow", "added")' = at
        /\ lines'["added"].flow = b[at]
    BY <1>3, <1>10, <1>12, <2>1 DEF FlowBook
  <2>6. Lines(want[at].flow) >= Before(at, "flow") + (IF host.node = at THEN 1 ELSE 0)
    <3>1. want[at].flow >= start.have[at].flow + (IF host.node = at THEN 1 ELSE 0)
      BY <1>4, <2>4 DEF Base, Wants, Extra
    <3>. QED
      BY <1>4, <1>5, <1>6, <3>1, LinesType DEF Lines
  <2>7. \A i \in 0..at : b[i] >= f[i] + (IF host.node <= i THEN 1 ELSE 0)
    <3>. TAKE i \in 0..at
    <3>1. CASE i = at
      <4>1. a[at - 1] >= f[at - 1] + (IF host.node <= at - 1 THEN 1 ELSE 0)
        BY <1>3, <1>4, <2>5 DEF FlowBook
      <4>2. f[at] = f[at - 1] + Before(at, "flow")
        BY <1>3, <1>4, <2>2 DEF FlowBook
      <4>3. f[at] \in Nat /\ f[at - 1] \in Nat /\ a[at - 1] \in Nat
        BY <1>4, <1>8
      <4>. QED
        BY <1>4, <1>7, <2>1, <2>6, <3>1, <4>1, <4>2, <4>3
    <3>2. CASE i # at
      <4>1. i \in 0..(at - 1) /\ i \in 0..NodeCount
        BY <1>4, <3>2
      <4>2. a[i] >= f[i] + (IF host.node <= i THEN 1 ELSE 0)
        BY <1>3, <2>5, <4>1 DEF FlowBook
      <4>. QED
        BY <2>1, <3>2, <4>1, <4>2
    <3>. QED
      BY <3>1, <3>2
  <2>8. \A i \in 1..at : b[i] <= b[i - 1] + Lines(want[i].flow)
    <3>. TAKE i \in 1..at
    <3>1. CASE i = at
      <4>1. b[at - 1] = a[at - 1] /\ b[at - 1] \in Nat
        BY <1>4, <1>8, <2>1
      <4>. QED
        BY <1>7, <2>1, <3>1, <4>1
    <3>2. CASE i # at
      <4>1. i \in 1..(at - 1) /\ i \in 0..NodeCount /\ i - 1 \in 0..NodeCount /\ i - 1 # at
        BY <1>4, <3>2
      <4>2. a[i] <= a[i - 1] + Lines(want[i].flow)
        BY <1>3, <2>4, <2>5, <4>1 DEF FlowBook
      <4>. QED
        BY <2>1, <3>2, <4>1, <4>2
    <3>. QED
      BY <3>1, <3>2
  <2>9. /\ f[0] = 0 /\ b[0] = 0
        /\ lines'["initial"].flow = f[NodeCount]
        /\ \A i \in 1..NodeCount : f[i] = f[i - 1] + Before(i, "flow")'
    <3>1. "initial" \in Marks /\ "initial" # "added"
      BY DEF Marks
    <3>. QED
      BY <1>3, <1>4, <1>6, <1>10, <1>12, <2>1, <2>2, <3>1 DEF FlowBook
  <2>10. \A m \in {"resync_1", "resync_2"} : lines'[m].flow >= b[Counted("flow", m)']
    <3>1. \A m \in {"resync_1", "resync_2"} : lines[m].flow >= a[0] /\ b[0] = a[0]
      BY <1>3, <1>4, <2>1, <2>3 DEF FlowBook
    <3>. QED
      BY <1>10, <1>12, <2>3, <3>1
  <2>11. FlowBook(f, b)'
    BY <1>1, <2>2, <2>5, <2>7, <2>8, <2>9, <2>10 DEF FlowBook
  <2>. QED
    BY <2>11
<1>13. CASE kind = "flow" /\ mark \in {"resync_1", "resync_2"}
  <2>1. Counted("flow", "added") = NodeCount
    BY <1>1, <1>10, <1>13 DEF Counted, DumpAt, Marks
  <2>2. host.up
    BY <1>1, <1>10, <1>13 DEF Base, Wants, In, DumpAt
  <2>3. a[at] <= a[at - 1] + Lines(want[at].flow) /\ a[at] \in Nat /\ a[at - 1] \in Nat
    BY <1>3, <1>4, <1>8, <2>1, <2>2 DEF FlowBook
  <2>4. lines[mark].flow >= a[at - 1] /\ lines[mark].flow \in Nat
    BY <1>3, <1>5, <1>10, <1>13 DEF FlowBook
  <2>5. lines'[mark].flow >= a[at]
    BY <1>7, <1>10, <1>13, <2>3, <2>4
  <2>6. /\ "initial" \in Marks /\ "added" \in Marks /\ "initial" # mark /\ "added" # mark
        /\ "resync_1" \in Marks /\ "resync_2" \in Marks
    BY <1>13 DEF Marks
  <2>7. \A m \in {"resync_1", "resync_2"} : lines'[m].flow >= a[Counted("flow", m)']
    <3>. TAKE m \in {"resync_1", "resync_2"}
    <3>1. CASE m = mark
      BY <1>10, <1>13, <2>5, <3>1
    <3>2. CASE m # mark
      BY <1>3, <1>10, <1>13, <2>6, <3>2 DEF FlowBook
    <3>. QED
      BY <3>1, <3>2
  <2>8. /\ Counted("flow", "initial")' = Counted("flow", "initial")
        /\ Counted("flow", "added")' = Counted("flow", "added")
        /\ lines'["initial"].flow = lines["initial"].flow
        /\ lines'["added"].flow = lines["added"].flow
    BY <1>10, <1>13, <2>6
  <2>9. FlowBook(f, a)'
    BY <1>1, <1>3, <1>6, <2>7, <2>8 DEF FlowBook
  <2>. QED
    BY <2>9
<1>. QED
  BY <1>9, <1>11, <1>12, <1>13 DEF Marks

\* main does something else than count.
LEMMA BooksQuiet ==
  ASSUME Base, Base', GroupBooks, FlowBooks,
         NEW op \in {"boot", "report", "read", "cut", "set", "block", "unblock", "cleanup"},
         Running(op), Advance, UNCHANGED <<start, lines, late, have>>, fault \subseteq fault',
         host'.node = host.node,
         op = "boot" \/ (op = "cleanup" /\ ~host'.up) \/ UNCHANGED <<want, host>>
  PROVE  GroupBooks' /\ FlowBooks'
<1>1. CASE fault' # {}
  BY <1>1 DEF GroupBooks, FlowBooks
<1>2. CASE fault' = {}
  <2>1. status = "running" /\ Step.op = op
    BY Zenon DEF Running
  <2>2. op # "dump" /\ op # "return"
    OBVIOUS
  <2>3. /\ op = "boot" <=> pc = In(2, 3)
        /\ op = "read" <=> pc = In(5, 8)
        /\ op = "cut" <=> pc = In(6, 9) /\ part = 1
        /\ op = "set" <=> pc = In(8, 9) /\ (tc = "tc12" => part = 2)
        /\ op = "block" <=> tc = "tc12" /\ pc = 14 /\ part = 1
        /\ op = "unblock" <=> tc = "tc12" /\ pc = 14 /\ part = 2
        /\ op = "cleanup" <=> pc = In(7, 19)
        /\ op = "return" <=> pc = Last
        /\ op = "report" => pc \notin Loops
    BY <2>1, Places, Zenon DEF PlaceOf, Base
  <2>4. pc # Last /\ pc <= Last
    BY <2>2, <2>3, Numbers DEF Base
  <2>5. tc' = tc /\ ~exc /\ NextStep
    <3>1. exc => fault' # {}
      BY DEF Base, Control
    <3>. QED
      BY <1>2, <2>1, <2>4, <3>1, AdvanceControl DEF Base
  <2>6. \A k \in Kinds, m \in Marks : DumpAt(k, m) \in Loops \/ DumpAt(k, m) > Last
    BY DEF DumpAt, Loops, Last, Base, PlaceType, Kinds, Marks
  <2>7. \A k \in Kinds, m \in Marks : pc # DumpAt(k, m)
    <3>1. CASE op = "report"
      BY <2>3, <2>4, <2>6, <3>1, Numbers, DumpPlace DEF Base
    <3>2. CASE op # "report"
      <4>1. \/ pc \in {In(2, 3), In(5, 8), In(6, 9), In(8, 9), In(7, 19)}
            \/ tc = "tc12" /\ pc = 14
        BY <2>3, <3>2
      <4>2. tc = "tc11" => pc \in {2, 5, 6, 7, 8}
        BY <4>1 DEF In
      <4>3. tc = "tc12" => pc \in {3, 8, 9, 14, 19}
        BY <4>1 DEF In
      <4>. QED
        BY <4>2, <4>3 DEF DumpAt, Base, PlaceType, Kinds, Marks
    <3>. QED
      BY <3>1, <3>2
  <2>8. \A k \in Kinds, m \in Marks : Counted(k, m)' = Counted(k, m)
    BY <2>4, <2>5, <2>7, CountedKept DEF Base
  <2>9. op = "boot" => Counted("flow", "added") = 0
    BY <2>3 DEF Counted, DumpAt, In, Base, PlaceType
  <2>10. host'.up => \A i \in 1..Counted("flow", "added") :
                       host.up /\ Lines(want[i].flow) <= Lines(want'[i].flow)
    <3>1. \A i : i \notin 1..0
      OBVIOUS
    <3>2. CASE op = "boot"
      BY <2>9, <3>1, <3>2
    <3>3. CASE op # "boot"
      <4>. SUFFICES ASSUME host'.up, NEW i \in 1..Counted("flow", "added")
                    PROVE  host.up /\ Lines(want[i].flow) <= Lines(want'[i].flow)
        OBVIOUS
      <4>1. want' = want /\ host' = host
        BY <3>3
      <4>2. i \in Node
        <5>1. Counted("flow", "added") \in 0..NodeCount /\ NodeCount \in Nat
          BY DumpPlace, Numbers DEF Base, Kinds, Marks
        <5>. QED
          BY <5>1 DEF Node
      <4>3. Lines(want[i].flow) \in Nat
        BY <4>2, LinesType DEF Base, Types, Table, Kinds
      <4>. QED
        BY <4>1, <4>3
    <3>. QED
      BY <3>2, <3>3
  <2>. QED
    BY <2>5, <2>8, <2>10, BooksKept
<1>. QED
  BY <1>1, <1>2

\* In tc11 OpenDaylight brings no groups once the instances are gone.
LEMMA HaveKept ==
  ASSUME Base, fault = {}, tc = "tc11", pc > 7, NEW i \in Node,
         \/ Return \/ (\E n \in Node : Program(n) \/ Learn(n)) \/ UNCHANGED vars,
         have[i].group <= Before(i, "group")
  PROVE  have'[i].group <= Before(i, "group")
<1>1. want[i].group = start.have[i].group + Extra(i, VmGroups) /\ start.have[i].group \in Nat
  BY StartType DEF Base, Wants, Types, Table, Kinds
<1>2. ~host.up
  <2>1. pc \in Nat /\ In(7, 19) = 7
    BY Numbers DEF Base, In
  <2>. QED
    BY <2>1 DEF Base, Wants
<1>3. want[i].group <= Before(i, "group")
  BY <1>1, <1>2, LinesType DEF Before, Extra
<1>4. have'[i] = have[i] \/ have'[i] = want[i]
  <2>1. have \in [Node -> Table]
    BY DEF Base, Types
  <2>2. have' = have \/ \E n \in Node : have' = [have EXCEPT ![n] = want[n]]
    BY Zenon DEF Return, Program, Learn, vars, odlVars
  <2>. QED
    BY <2>1, <2>2
<1>. QED
  BY <1>3, <1>4

\* main does nothing.
LEMMA BooksStill ==
  ASSUME Base, Base', GroupBooks, FlowBooks,
         \/ Return \/ (\E n \in Node : Program(n) \/ Learn(n)) \/ UNCHANGED vars
  PROVE  GroupBooks' /\ FlowBooks'
<1>1. UNCHANGED <<tc, pc, at, start, lines, late, fault>> /\ host' = host
  BY Zenon DEF Return, Program, Learn, vars, mainVars, place, odlVars
<1>2. \A k \in Kinds, m \in Marks : Counted(k, m)' = Counted(k, m)
  BY <1>1 DEF Counted, DumpAt
<1>3. Counted("flow", "added") \in 0..NodeCount /\ Counted("group", "resync_1") \in 0..NodeCount
  BY DumpPlace DEF Base, Kinds, Marks
<1>4. NodeCount \in Nat /\ \A i \in Node : want[i].flow \in Nat /\ want[i].group \in Nat
                                           /\ start.have[i].group \in Nat
  BY Numbers, StartType DEF Base, Types, Table, Kinds
<1>5. ASSUME fault = {}, tc = "tc11", NEW i \in 1..Counted("group", "resync_1"),
             have[i].group <= Before(i, "group")
      PROVE  have'[i].group <= Before(i, "group")
  <2>1. i \in Node
    BY <1>3, <1>4 DEF Node
  <2>2. pc >= 9
    <3>1. DumpAt("group", "resync_1") = 9 /\ pc \in Nat
      BY <1>5, Numbers DEF DumpAt, Base
    <3>2. Counted("group", "resync_1") # 0
      BY <1>3, <1>4
    <3>. QED
      BY <3>1, <3>2 DEF Counted
  <2>3. pc > 7
    BY <2>2, Numbers DEF Base
  <2>. QED
    BY <1>5, <2>1, <2>3, HaveKept
<1>6. ASSUME host.up, NEW i \in 1..Counted("flow", "added")
      PROVE  Lines(want[i].flow) <= Lines(want'[i].flow)
  <2>1. i \in Node /\ want[i].flow \in Nat
    BY <1>3, <1>4 DEF Node
  <2>2. want \in [Node -> [Kinds -> Nat]]
    BY DEF Base, Types, Table
  <2>3. want' = want \/ \E n \in Node : want' = [want EXCEPT ![n].flow = @ + 1]
    BY Zenon DEF Return, Program, Learn, vars, odlVars
  <2>4. want'[i].flow = want[i].flow \/ want'[i].flow = want[i].flow + 1
    BY <2>1, <2>2, <2>3 DEF Kinds
  <2>. QED
    BY <2>1, <2>4, LinesType DEF Lines
<1>. QED
  BY <1>1, <1>2, <1>5, <1>6, BooksKept

LEMMA Books_Next ==
  ASSUME Base, Base', GroupBooks, FlowBooks, [Next]_vars
  PROVE  GroupBooks' /\ FlowBooks'
<1>1. CASE Count
  BY <1>1, GroupBooks_Count, FlowBooks_Count
<1>2. CASE Boot
  <2>1. /\ Running("boot") /\ Advance /\ UNCHANGED <<start, lines, late, have, fault>>
        /\ host' = [host EXCEPT !.up = TRUE]
    BY <1>2, Zenon DEF Boot
  <2>2. host'.node = host.node
    BY <2>1 DEF Base, Types
  <2>. QED
    BY <2>1, <2>2, BooksQuiet
<1>3. CASE Check
  <2>1. Running("report") /\ Advance /\ UNCHANGED <<start, lines, late, have, fault, want, host>>
    BY <1>3, Zenon DEF Check, odlVars
  <2>. QED
    BY <2>1, BooksQuiet
<1>4. CASE Read
  <2>1. Running("read") /\ Advance /\ UNCHANGED <<start, lines, late, have, fault, want, host>>
    BY <1>4, Zenon DEF Read, odlVars
  <2>. QED
    BY <2>1, BooksQuiet
<1>5. CASE Cut \/ Set \/ Block \/ Unblock
  <2>1. PICK op \in {"cut", "set", "block", "unblock"} :
          /\ Running(op) /\ Advance /\ UNCHANGED <<start, lines, late, have, want, host>>
          /\ fault \subseteq fault'
    BY <1>5 DEF Cut, Set, Block, Unblock, Told, odlVars
  <2>. QED
    BY <2>1, BooksQuiet
<1>6. CASE CommandRaises \/ CallRaises \/ (Cleanup /\ Raise)
  <2>1. fault' # {}
    BY <1>6 DEF CommandRaises, CallRaises, Cleanup, Raise
  <2>. QED
    BY <2>1 DEF GroupBooks, FlowBooks
<1>7. CASE Cleanup /\ ~Raise
  <2>1. /\ Running("cleanup") /\ Advance /\ UNCHANGED <<start, lines, late>>
        /\ fault \subseteq fault' /\ (Unwant \/ UNCHANGED odlVars)
    BY <1>7 DEF Cleanup
  <2>2. CASE Unwant
    <3>1. have' = have
      BY <2>2 DEF Unwant
    <3>. QED
      BY <2>1, <2>2, <3>1, Unwanted, BooksQuiet
  <2>3. CASE UNCHANGED odlVars
    <3>1. UNCHANGED <<have, want, host>>
      BY <2>3 DEF odlVars
    <3>. QED
      BY <2>1, <3>1, BooksQuiet
  <2>. QED
    BY <2>1, <2>2, <2>3
<1>8. CASE Return \/ (\E n \in Node : Program(n) \/ Learn(n)) \/ UNCHANGED vars
  BY <1>8, BooksStill
<1>. QED
  BY <1>1, <1>2, <1>3, <1>4, <1>5, <1>6, <1>7, <1>8 DEF Next, Main, Done

\* The instances always show in the groups.
LEMMA BonusShows ==
  ASSUME Base, Visible
  PROVE  Bonus \in Nat /\ Bonus > 0
<1>1. /\ host.node \in Node /\ start \in Found /\ VmGroups \in Nat /\ VmGroups >= 1
      /\ start.have[host.node].group \in Nat
  BY StartType, BoundAssumption DEF Base, Types, Table, Kinds
<1>2. VmGroups > 1 \/ start.have[host.node].group > 0
  BY <1>1 DEF Visible
<1>. QED
  BY <1>1, <1>2 DEF Bonus, Before, Lines

\* A testcase that nothing went wrong in, and that waited long enough, passes
\* whatever it checks.
LEMMA Passes ==
  ASSUME Base, GroupBooks, FlowBooks, Visible, fault = {}, ~late,
         status = "running", Step.op = "report", NEW name, name = Step.name
  PROVE  Success(name)
<1>1. PICK s \in Sums : GroupBook(s)
  BY DEF GroupBooks
<1>2. PICK f \in Sums, a \in Sums : FlowBook(f, a)
  BY DEF FlowBooks
<1>3. /\ NodeCount \in Nat /\ NodeCount >= 1 /\ host.node \in 1..NodeCount
  <2>1. host.node \in Node
    BY DEF Base, Types
  <2>. QED
    BY <2>1, Numbers DEF Base, Node
<1>4. /\ s[NodeCount] \in Nat /\ f[NodeCount] \in Nat /\ a[NodeCount] \in Nat
      /\ Bonus \in Nat /\ Bonus > 0
  BY <1>3, BonusShows DEF Sums
<1>5. /\ name \in Checks
      /\ name = "new_group" <=> tc = "tc11" /\ pc = 4
      /\ name = "group_deleted" <=> tc = "tc11" /\ pc = 10
      /\ name = "new_flows" <=> tc = "tc12" /\ pc = 6
      /\ name = "new_groups" <=> tc = "tc12" /\ pc = 7
      /\ name = "flows_1" <=> tc = "tc12" /\ pc = 12
      /\ name = "groups_1" <=> tc = "tc12" /\ pc = 13
      /\ name = "flows_2" <=> tc = "tc12" /\ pc = 17
      /\ name = "groups_2" <=> tc = "tc12" /\ pc = 18
  BY Places, Zenon DEF PlaceOf, Base
<1>6. \A m \in {"added", "resync_1", "resync_2"} :
        Counted("group", m) = NodeCount =>
          lines[m].group = s[NodeCount] + (IF WithVms(m) THEN Bonus ELSE 0)
  BY <1>1, <1>3 DEF GroupBook, Marks
<1>7. Counted("group", "initial") = NodeCount => lines["initial"].group = s[NodeCount]
  BY <1>1 DEF GroupBook
<1>8. CASE name \in {"new_group", "new_groups"}
  <2>1. Counted("group", "initial") = NodeCount /\ Counted("group", "added") = NodeCount
    BY <1>5, <1>8 DEF Counted, DumpAt
  <2>2. lines["initial"].group = s[NodeCount] /\ lines["added"].group = s[NodeCount] + Bonus
    BY <1>4, <1>6, <1>7, <2>1 DEF WithVms
  <2>3. /\ lines["initial"].group # lines["added"].group
        /\ lines["added"].group - lines["initial"].group > 0
    BY <1>4, <2>2
  <2>4. CASE name = "new_group"
    BY <2>3, <2>4 DEF Success, Changed
  <2>5. CASE name = "new_groups"
    BY <2>3, <2>5 DEF Success, Diff
  <2>. QED
    BY <1>8, <2>4, <2>5
<1>9. CASE name = "group_deleted"
  <2>1. Counted("group", "initial") = NodeCount /\ Counted("group", "resync_1") = NodeCount
    BY <1>5, <1>9 DEF Counted, DumpAt
  <2>2. lines["initial"].group = s[NodeCount] /\ lines["resync_1"].group = s[NodeCount]
    BY <1>4, <1>5, <1>6, <1>7, <1>9, <2>1 DEF WithVms
  <2>. QED
    BY <1>9, <2>2 DEF Success, Gone
<1>10. CASE name = "new_flows"
  <2>1. Counted("flow", "initial") = NodeCount /\ Counted("flow", "added") = NodeCount
    BY <1>5, <1>10 DEF Counted, DumpAt
  <2>2. /\ lines["initial"].flow = f[NodeCount] /\ lines["added"].flow = a[NodeCount]
        /\ a[NodeCount] >= f[NodeCount] + 1
    BY <1>2, <1>3, <2>1 DEF FlowBook
  <2>3. lines["added"].flow - lines["initial"].flow > 0
    BY <1>4, <2>2
  <2>. QED
    BY <1>10, <2>3 DEF Success, Diff
<1>11. ASSUME NEW mark \in {"resync_1", "resync_2"}, tc = "tc12",
              pc > DumpAt("group", mark)
       PROVE  Resynced("flow", mark) /\ Resynced("group", mark)
  <2>1. /\ Counted("flow", "added") = NodeCount /\ Counted("group", "added") = NodeCount
        /\ Counted("flow", mark) = NodeCount /\ Counted("group", mark) = NodeCount
    BY <1>11, Numbers DEF Counted, DumpAt, Base
  <2>2. lines["added"].flow <= lines[mark].flow
    BY <1>2, <1>4, <2>1 DEF FlowBook
  <2>3. lines["added"].group = lines[mark].group
    BY <1>6, <1>11, <2>1 DEF WithVms
  <2>. QED
    BY <2>2, <2>3 DEF Resynced
<1>12. CASE name \in {"flows_1", "groups_1"}
  <2>1. tc = "tc12" /\ pc > DumpAt("group", "resync_1")
    BY <1>5, <1>12 DEF DumpAt
  <2>. QED
    BY <1>11, <1>12, <2>1 DEF Success
<1>13. CASE name \in {"flows_2", "groups_2"}
  <2>1. tc = "tc12" /\ pc > DumpAt("group", "resync_2")
    BY <1>5, <1>13 DEF DumpAt
  <2>. QED
    BY <1>11, <1>13, <2>1 DEF Success
<1>. QED
  BY <1>5, <1>8, <1>9, <1>10, <1>12, <1>13 DEF Checks

\* What the reports say.
Deleted ==
  said["group_deleted"] = "PASS" /\ fault = {} =>
    tc = "tc11" /\ pc > 10 /\ \A n \in Node : have[n].group <= Before(n, "group")

Alarms == Visible /\ fault = {} /\ ~late => \A c \in Checks : said[c] # "FAIL"

LEMMA Alarms_Next ==
  ASSUME Base, GroupBooks, FlowBooks, Alarms, [Next]_vars
  PROVE  Alarms'
<1>. SUFFICES ASSUME Visible, fault' = {}, ~late', NEW c \in Checks
              PROVE  said'[c] # "FAIL"
  BY DEF Alarms, Visible
<1>1. CASE Check
  <2>. DEFINE name == Step.name
  <2>1. /\ status = "running" /\ Step.op = "report" /\ UNCHANGED <<fault, late>>
        /\ said' = [said EXCEPT ![name] = IF Success(name) THEN "PASS" ELSE "FAIL"]
    BY <1>1, Zenon DEF Check, Running
  <2>2. Success(name)
    BY <2>1, Passes
  <2>. HIDE DEF name
  <2>3. said' = [said EXCEPT ![name] = "PASS"]
    BY <2>1, <2>2
  <2>4. said \in [Checks -> {"none", "PASS", "FAIL"}] /\ said[c] # "FAIL"
    BY <2>1 DEF Base, Types, Alarms
  <2>. QED
    BY <2>3, <2>4
<1>2. CASE ~Check
  <2>1. said' = said
    BY <1>2, Zenon DEF Next, Main, Done, Count, Boot, Read, Cut, Set, Block, Unblock, Told,
       CommandRaises, CallRaises, Cleanup, Raise, Return, Program, Learn, vars, mainVars
  <2>2. fault = {} /\ ~late
    <3>1. fault \subseteq fault'
      BY OnlyAt
    <3>2. late => late'
      BY Zenon DEF Next, Main, Done, Count, Boot, Read, Check, Cut, Set, Block, Unblock,
         Told,
         CommandRaises, CallRaises, Cleanup, Raise, Return, Program, Learn, vars
    <3>. QED
      BY <3>1, <3>2
  <2>. QED
    BY <2>1, <2>2 DEF Alarms
<1>. QED
  BY <1>1, <1>2

LEMMA Deleted_Next ==
  ASSUME Base, Base', GroupBooks, Deleted, [Next]_vars
  PROVE  Deleted'
<1>. SUFFICES ASSUME said'["group_deleted"] = "PASS", fault' = {}
              PROVE  /\ tc' = "tc11" /\ pc' > 10
                     /\ \A n \in Node : have'[n].group <= Before(n, "group")'
  BY DEF Deleted
<1>1. /\ tc' = tc /\ start' = start /\ fault = {}
      /\ \A n \in Node : Before(n, "group")' = Before(n, "group")
  BY OnlyAt DEF Before
<1>2. CASE said["group_deleted"] = "PASS"
  <2>1. tc = "tc11" /\ pc > 10 /\ \A n \in Node : have[n].group <= Before(n, "group")
    BY <1>1, <1>2 DEF Deleted
  <2>2. pc = Last /\ pc > 7
    BY <2>1, Numbers DEF Base, Last
  <2>3. Return \/ (\E n \in Node : Program(n) \/ Learn(n)) \/ UNCHANGED vars
    <3>1. Step.op = "return"
      BY <2>2, Places, Zenon DEF PlaceOf, Base
    <3>. QED
      BY <3>1 DEF Next, Main, Done, Count, Boot, Check, Read, Cut, Set, Block, Unblock,
         Told,
         CommandRaises, CallRaises, Cleanup, Running
  <2>4. pc' = pc
    BY <2>3, Zenon DEF Return, Program, Learn, vars, mainVars, place
  <2>5. \A n \in Node : have'[n].group <= Before(n, "group")
    BY <1>1, <2>1, <2>2, <2>3, HaveKept
  <2>. QED
    BY <1>1, <2>1, <2>4, <2>5
<1>3. CASE said["group_deleted"] # "PASS"
  <2>. DEFINE name == Step.name
  <2>1. Check
    BY <1>3, Zenon DEF Next, Main, Done, Count, Boot, Read, Cut, Set, Block, Unblock, Told,
       CommandRaises, CallRaises, Cleanup, Raise, Return, Program, Learn, vars, mainVars
  <2>2. /\ status = "running" /\ Step.op = "report" /\ Advance
        /\ UNCHANGED <<fault, have, want, host>>
        /\ said' = [said EXCEPT ![name] = IF Success(name) THEN "PASS" ELSE "FAIL"]
    BY <2>1, Zenon DEF Check, Running, odlVars
  <2>3. (name = "group_deleted" <=> tc = "tc11" /\ pc = 10) /\ name \in Checks
    BY <2>2, Places, Zenon DEF PlaceOf, Base
  <2>. HIDE DEF name
  <2>4. said \in [Checks -> {"none", "PASS", "FAIL"}] /\ "group_deleted" \in Checks
    BY DEF Base, Types, Checks
  <2>5. name = "group_deleted" /\ Success(name)
    BY <1>3, <2>2, <2>3, <2>4
  <2>6. tc = "tc11" /\ pc = 10 /\ Gone
    BY <2>3, <2>5 DEF Success
  <2>7. pc' = 11
    <3>1. pc \notin {In(2, 3), In(7, 19), Last} /\ pc \notin Loops /\ Width = 1
      BY <2>6 DEF In, Last, Loops, Width
    <3>2. NextStep /\ tc' = tc
      BY <2>2, <3>1, Ordinary, <1>1
    <3>. QED
      BY <2>6, <3>1, <3>2, Moves DEF Base
  <2>8. \A n \in Node : have[n].group <= Before(n, "group")
    <3>1. PICK s \in Sums : GroupBook(s)
      BY <1>1 DEF GroupBooks
    <3>2. Counted("group", "initial") = NodeCount /\ Counted("group", "resync_1") = NodeCount
      BY <2>6 DEF Counted, DumpAt
    <3>. QED
      BY <2>6, <3>1, <3>2 DEF GroupBook, Gone, Node
  <2>. QED
    BY <1>1, <2>2, <2>6, <2>7, <2>8
<1>. QED
  BY <1>2, <1>3

BooksInv == Base /\ GroupBooks /\ FlowBooks /\ Alarms /\ Deleted

LEMMA BooksCorrect == Spec => []BooksInv
<1>1. Init => BooksInv
  <2>1. ASSUME Init
        PROVE  Alarms /\ Deleted
    BY <2>1 DEF Init, Alarms, Deleted, Checks
  <2>. QED
    BY <2>1, Base_Init, Books_Init DEF BooksInv
<1>2. BooksInv /\ [Next]_vars => BooksInv'
  BY Base_Next, Books_Next, Alarms_Next, Deleted_Next DEF BooksInv
<1>. QED
  BY <1>1, <1>2, PTL DEF Spec

(***************************************************************************)
(* "Group was deleted from ovs" compares two totals over all the nodes.    *)
(* It says something of every switch all the same, for any number of       *)
(* nodes: none ever holds fewer groups than tc11 found on it, so the       *)
(* totals only agree when none counted more lines, and OpenDaylight,       *)
(* which wants no more groups once the instances are gone, brings none     *)
(* back.                                                                   *)
(***************************************************************************)
THEOREM GroupsAreDeleted == Spec => []GroupsDeleted
<1>1. BooksInv => GroupsDeleted
  BY DEF BooksInv, Deleted, GroupsDeleted, Before
<1>. QED
  BY <1>1, BooksCorrect, PTL

(***************************************************************************)
(* If every fixed wait was long enough and nothing failed, no check of     *)
(* the two testcases fails, for any number of nodes and whatever flows     *)
(* OpenDaylight adds. The code relies on two facts about the deployment:   *)
(* an empty dump counts as a line, so new flows are not seen on a switch   *)
(* that had none, nor is one new group on a switch that had none.          *)
(***************************************************************************)
THEOREM NoAlarms ==
  ASSUME Visible
  PROVE  Spec => []NoFalseAlarm
<1>1. BooksInv => NoFalseAlarm
  BY DEF BooksInv, Alarms, NoFalseAlarm
<1>. QED
  BY <1>1, BooksCorrect, PTL
=============================================================================
