--------------------------- MODULE ProgramsProofs ---------------------------
(***************************************************************************)
(* For every finite set of processes: at most one wukong executes a        *)
(* command, and one that is alone is not refused.  The semaphores play no  *)
(* part; pidof alone gives this, whatever the programs do (Programs is a   *)
(* run of InstanceGuard).                                                  *)
(*                                                                         *)
(* For any programs that run one after the other, any display and any      *)
(* block: the points that CalcBlockAvoidPoint may answer are exactly those *)
(* of the screen outside the block, no touch lands in the block, and none  *)
(* lies beyond the display unless it was turned under the program; and a   *)
(* replay makes the touches of the last recording.                         *)
(***************************************************************************)
EXTENDS Programs, Sequences, FiniteSetTheorems, TLAPS

(* The processes whose pidof has begun and whose answer still holds.       *)
Looking == {"scanning", "executing"}

(* A process that pidof has found was started, and pidof finds its own.    *)
SeenInv ==
  \A p, q \in Process :
    /\ q \in seen[p] => pc[q] # "idle"
    /\ pc[p] \in Looking /\ p \in examined[p] => p \in seen[p]

(* pidof has looked for nobody before it was run.                          *)
FreshInv ==
  \A p \in Process : pc[p] \in {"idle", "started"} => examined[p] = {}

(* If p looked for q and did not find it, q was started later, and so q    *)
(* finds p: of two processes at least one sees the other.                  *)
LaterSeesEarlier ==
  \A p, q \in Process :
    /\ pc[p] \in Looking /\ pc[q] \in Looking
    /\ q \in examined[p] /\ q \notin seen[p]
    /\ p \in examined[q]
    => p \in seen[q]

(* A process that executes a command has looked for everyone and found     *)
(* only itself.                                                            *)
AloneInv ==
  \A p \in Process :
    pc[p] = "executing" => examined[p] = Process /\ seen[p] = {p}

IInv == TypeOK /\ SeenInv /\ FreshInv /\ LaterSeesEarlier /\ AloneInv

-----------------------------------------------------------------------------

(* The answer "one pid" of a pidof that looked for everyone is its own.    *)
LEMMA OnlyItself ==
  ASSUME TypeOK, NEW p \in Process, p \in seen[p]
  PROVE  Cardinality(seen[p]) = 1 <=> seen[p] = {p}
<1>1. IsFiniteSet(seen[p])
  BY FS_Subset, ProcessAssumption DEF TypeOK
<1>2. Cardinality(seen[p]) = 1 <=> \E x : seen[p] = {x}
  BY <1>1, FS_Singleton, Zenon
<1> QED
  BY <1>2, Zenon

(* Nothing was started yet.                                                *)
LEMMA InitInv == Init => IInv
  BY DEF Init, IInv, TypeOK, SeenInv, FreshInv, LaterSeesEarlier, AloneInv,
         Looking, Running

(* Every step of every process keeps the invariant.                        *)
LEMMA StepInv == IInv /\ [Next]_vars => IInv'
<1> SUFFICES ASSUME IInv, [Next]_vars
             PROVE  IInv'
  OBVIOUS
<1> USE DEF IInv, TypeOK, SeenInv, FreshInv, LaterSeesEarlier, AloneInv,
            Looking, Running
<1>1. ASSUME NEW p \in Process, Start(p)
      PROVE  IInv'
  BY <1>1 DEF Start
<1>2. ASSUME NEW p \in Process, Popen(p)
      PROVE  IInv'
  BY <1>2 DEF Popen
<1>3. ASSUME NEW p \in Process, NEW q \in Process, Examine(p, q)
      PROVE  IInv'
  <2> USE <1>3 DEF Examine, alive
  <2>1. TypeOK'
    OBVIOUS
  <2>2. SeenInv'
    OBVIOUS
  <2>3. FreshInv'
    OBVIOUS
  <2>4. LaterSeesEarlier'
    OBVIOUS
  <2>5. AloneInv'
    OBVIOUS
  <2> QED
    BY <2>1, <2>2, <2>3, <2>4, <2>5 DEF IInv
<1>4. ASSUME NEW p \in Process, Decide(p)
      PROVE  IInv'
  <2>1. pc'[p] = "executing" => seen[p] = {p}
    BY <1>4, OnlyItself DEF Decide
  <2> QED
    BY <1>4, <2>1 DEF Decide
<1>5. ASSUME NEW p \in Process, Exit(p)
      PROVE  IInv'
  BY <1>5 DEF Exit
<1>6. CASE UNCHANGED vars
  BY <1>6 DEF vars
<1> QED
  BY <1>1, <1>2, <1>3, <1>4, <1>5, <1>6 DEF Next

(* Every reachable state satisfies the invariant.                          *)
LEMMA IInvHolds == Spec => []IInv
  BY InitInv, StepInv, PTL DEF Spec

-----------------------------------------------------------------------------

(* The processes and what their pidof has seen keep their types.           *)
THEOREM TypeCorrect == Spec => []TypeOK
<1>1. IInv => TypeOK
  BY DEF IInv
<1> QED
  BY <1>1, IInvHolds, PTL

(* At most one wukong executes a command, however many are started and     *)
(* whatever starts or exits while pidof looks.                             *)
THEOREM MutualExclusion == Spec => []OneProgramRuns
<1>1. IInv => OneProgramRuns
  <2> SUFFICES ASSUME IInv, NEW p \in Process, NEW q \in Process,
                      pc[p] = "executing", pc[q] = "executing", p # q
               PROVE  FALSE
    BY DEF OneProgramRuns
  <2>1. /\ examined[p] = Process /\ seen[p] = {p}
        /\ examined[q] = Process /\ seen[q] = {q}
    BY DEF IInv, AloneInv
  <2>2. p \in seen[q]
    BY <2>1 DEF IInv, LaterSeesEarlier, Looking
  <2> QED
    BY <2>1, <2>2
<1> QED
  BY <1>1, IInvHolds, PTL

(* A wukong is refused only when another one was started before.           *)
THEOREM AloneRuns == Spec => AloneIsNotRefused
<1> DEFINE A == \A p \in Process :
                  pc[p] # pc'[p] /\ pc'[p] = "refused" =>
                    \E q \in Process \ {p} : pc[q] # "idle"
<1>1. IInv /\ [Next]_vars => [A]_vars
  <2> SUFFICES ASSUME IInv, Next, NEW p \in Process, pc[p] # pc'[p],
                      pc'[p] = "refused"
               PROVE  \E q \in Process \ {p} : pc[q] # "idle"
    BY DEF vars
  <2>1. Decide(p)
    BY DEF Next, Start, Popen, Examine, Decide, Exit, IInv, TypeOK
  <2>2. p \in seen[p] /\ Cardinality(seen[p]) # 1
    BY <2>1 DEF Decide, IInv, TypeOK, SeenInv, Looking
  <2>3. seen[p] # {p}
    BY <2>2, OnlyItself DEF IInv
  <2>4. PICK q \in Process \ {p} : q \in seen[p]
    BY <2>2, <2>3 DEF IInv, TypeOK
  <2> QED
    BY <2>4 DEF IInv, SeenInv
<1> QED
  BY <1>1, IInvHolds, PTL DEF Spec, AloneIsNotRefused

-----------------------------------------------------------------------------

(* The programs on a device start, look for one another and end as         *)
(* InstanceGuard has them.                                                 *)
THEOREM ProgramsAreGuarded == ProgramsSpec => Spec
<1>1. ProgramsInit => Init
  BY DEF ProgramsInit
<1>2. [ProgramsNext]_programsVars => [Next]_vars
  <2> SUFFICES ASSUME ProgramsNext \/ UNCHANGED programsVars
               PROVE  Next \/ UNCHANGED vars
    OBVIOUS
  <2>1. ASSUME NEW p \in Process, Guard(p) \/ Begin(p) \/ End(p)
        PROVE  Next
    BY <2>1 DEF Guard, Begin, End, Next
  <2>2. CASE Rotate \/ RandomTouch \/ RecordOrReplay
    BY <2>2 DEF Rotate, RandomTouch, RecordOrReplay, guardVars, vars
  <2>3. CASE UNCHANGED programsVars
    BY <2>3 DEF programsVars, guardVars, vars
  <2> QED
    BY <2>1, <2>2, <2>3 DEF ProgramsNext
<1> QED
  BY <1>1, <1>2, PTL DEF ProgramsSpec, Spec

(* At most one program on the device executes its command, whatever the    *)
(* programs do and wherever they are killed.                               *)
THEOREM OneProgramOnDevice == ProgramsSpec => []OneProgramRuns
  BY ProgramsAreGuarded, MutualExclusion, PTL

-----------------------------------------------------------------------------
(* CalcBlockAvoidPoint.                                                    *)

(* A coordinate cut down to the size is in range, and cutting changes no   *)
(* comparison with a coordinate of the screen.                             *)
LEMMA ClampBounds ==
  ASSUME NEW size \in Nat \ {0}, NEW v \in Int
  PROVE  /\ ClampTo(size, v) \in 0 .. size
         /\ \A x \in 0 .. size - 1 : ClampTo(size, v) <= x <=> v <= x
  BY SMT DEF ClampTo

(* The clamped block is a rectangle of the screen, with its corners in     *)
(* order.                                                                  *)
LEMMA ClampedBounds ==
  ASSUME NEW width \in Nat \ {0}, NEW height \in Nat \ {0},
         NEW block \in Rect
  PROVE  LET b == Clamped(width, height, block)
         IN  /\ b.x1 \in 0 .. width /\ b.x2 \in 0 .. width /\ b.x1 <= b.x2
             /\ b.y1 \in 0 .. height /\ b.y2 \in 0 .. height
             /\ b.y1 <= b.y2
<1>1. /\ ClampTo(width, block.x1) \in 0 .. width
      /\ ClampTo(width, block.x2) \in 0 .. width
      /\ ClampTo(height, block.y1) \in 0 .. height
      /\ ClampTo(height, block.y2) \in 0 .. height
  BY ClampBounds DEF Rect
<1> QED
  BY <1>1, SMTT(30) DEF Clamped, Ordered

(* On the screen, clamping does not change what is inside the block.       *)
LEMMA ClampedInside ==
  ASSUME NEW width \in Nat \ {0}, NEW height \in Nat \ {0},
         NEW block \in Rect,
         NEW x \in 0 .. width - 1, NEW y \in 0 .. height - 1
  PROVE  Inside(x, y, Clamped(width, height, block)) <=>
           Inside(x, y, Ordered(block))
<1>1. /\ ClampTo(width, block.x1) \in 0 .. width
      /\ ClampTo(width, block.x2) \in 0 .. width
      /\ ClampTo(height, block.y1) \in 0 .. height
      /\ ClampTo(height, block.y2) \in 0 .. height
      /\ block.x1 \in Int /\ block.x2 \in Int
      /\ block.y1 \in Int /\ block.y2 \in Int
  BY ClampBounds DEF Rect
<1>2. /\ ClampTo(width, block.x1) <= x <=> block.x1 <= x
      /\ ClampTo(width, block.x2) <= x <=> block.x2 <= x
      /\ ClampTo(height, block.y1) <= y <=> block.y1 <= y
      /\ ClampTo(height, block.y2) <= y <=> block.y2 <= y
  BY <1>1, ClampBounds
<1> QED
  BY <1>1, <1>2, SMT DEF Clamped, Ordered, Inside

(* The four pieces around a rectangle of the screen cover what is outside  *)
(* it, and nothing of it; the pieces without area have no points.          *)
LEMMA PiecesCover ==
  ASSUME NEW width \in Nat \ {0}, NEW height \in Nat \ {0}, NEW b,
         b.x1 \in 0 .. width, b.x2 \in 0 .. width, b.x1 <= b.x2,
         b.y1 \in 0 .. height, b.y2 \in 0 .. height, b.y1 <= b.y2,
         NEW x \in 0 .. width - 1, NEW y \in 0 .. height - 1
  PROVE  (\E s \in WeightedPickSubRect(
                     DecomposeAvailableArea(width, height, b)) :
            Inside(x, y, s))
           <=> ~Inside(x, y, b)
<1> DEFINE above == [x1 |-> 0, y1 |-> 0, x2 |-> width, y2 |-> b.y1]
           below == [x1 |-> 0, y1 |-> b.y2, x2 |-> width, y2 |-> height]
           left  == [x1 |-> 0, y1 |-> b.y1, x2 |-> b.x1, y2 |-> b.y2]
           right == [x1 |-> b.x2, y1 |-> b.y1, x2 |-> width, y2 |-> b.y2]
           pieces == WeightedPickSubRect(
                       DecomposeAvailableArea(width, height, b))
<1>1. ASSUME NEW s \in pieces, Inside(x, y, s)
      PROVE  ~Inside(x, y, b)
  <2>1. s \in {above, below, left, right}
    BY <1>1 DEF WeightedPickSubRect, DecomposeAvailableArea
  <2> QED
    BY <1>1, <2>1, SMT DEF Inside
<1>2. ASSUME ~Inside(x, y, b)
      PROVE  \E s \in pieces : Inside(x, y, s)
  <2> USE DEF Inside
  <2>1. CASE y < b.y1
    <3>1. above \in DecomposeAvailableArea(width, height, b)
      BY <2>1 DEF DecomposeAvailableArea
    <3>2. above \in pieces
      BY <2>1, <3>1, SMT DEF WeightedPickSubRect
    <3>3. Inside(x, y, above)
      BY <2>1, SMT
    <3> QED
      BY <3>2, <3>3
  <2>2. CASE b.y2 <= y
    <3>1. below \in DecomposeAvailableArea(width, height, b)
      BY <2>2 DEF DecomposeAvailableArea
    <3>2. below \in pieces
      BY <2>2, <3>1, SMT DEF WeightedPickSubRect
    <3>3. Inside(x, y, below)
      BY <2>2, SMT
    <3> QED
      BY <3>2, <3>3
  <2>3. CASE b.y1 <= y /\ y < b.y2 /\ x < b.x1
    <3>1. left \in DecomposeAvailableArea(width, height, b)
      BY <2>3 DEF DecomposeAvailableArea
    <3>2. left \in pieces
      BY <2>3, <3>1, SMT DEF WeightedPickSubRect
    <3>3. Inside(x, y, left)
      BY <2>3, SMT
    <3> QED
      BY <3>2, <3>3
  <2>4. CASE b.y1 <= y /\ y < b.y2 /\ b.x2 <= x
    <3>1. right \in DecomposeAvailableArea(width, height, b)
      BY <2>4 DEF DecomposeAvailableArea
    <3>2. right \in pieces
      BY <2>4, <3>1, SMT DEF WeightedPickSubRect
    <3>3. Inside(x, y, right)
      BY <2>4, SMT
    <3> QED
      BY <3>2, <3>3
  <2> QED
    BY <1>2, <2>1, <2>2, <2>3, <2>4, SMT
<1> QED
  BY <1>1, <1>2

(* CalcBlockAvoidPoint may answer every point of the screen outside the    *)
(* block and no other, for every screen and every argument of -X.          *)
THEOREM AvoidPointsAreFreePoints ==
  ASSUME NEW width \in Nat \ {0}, NEW height \in Nat \ {0},
         NEW block \in Rect
  PROVE  CalcBlockAvoidPoint(width, height, block) =
           FreePoints(width, height, block)
<1> DEFINE b == Clamped(width, height, block)
<1>1. ASSUME NEW x \in 0 .. width - 1, NEW y \in 0 .. height - 1
      PROVE  (\E s \in WeightedPickSubRect(
                         DecomposeAvailableArea(width, height, b)) :
                Inside(x, y, s))
               <=> ~Inside(x, y, Ordered(block))
  <2>1. /\ b.x1 \in 0 .. width /\ b.x2 \in 0 .. width /\ b.x1 <= b.x2
        /\ b.y1 \in 0 .. height /\ b.y2 \in 0 .. height /\ b.y1 <= b.y2
    BY ClampedBounds
  <2>2. Inside(x, y, b) <=> Inside(x, y, Ordered(block))
    BY ClampedInside
  <2> HIDE DEF b
  <2>3. (\E s \in WeightedPickSubRect(
                 DecomposeAvailableArea(width, height, b)) :
           Inside(x, y, s))
          <=> ~Inside(x, y, b)
    BY <2>1, PiecesCover
  <2> QED
    BY <2>2, <2>3, Zenon
<1>2. ASSUME NEW p \in (0 .. width - 1) \X (0 .. height - 1)
      PROVE  p \in CalcBlockAvoidPoint(width, height, block) <=>
               p \in FreePoints(width, height, block)
  <2>1. p[1] \in 0 .. width - 1 /\ p[2] \in 0 .. height - 1
    OBVIOUS
  <2> QED
    BY <1>1, <2>1 DEF CalcBlockAvoidPoint, FreePoints
<1>3. /\ CalcBlockAvoidPoint(width, height, block)
           \subseteq (0 .. width - 1) \X (0 .. height - 1)
      /\ FreePoints(width, height, block)
           \subseteq (0 .. width - 1) \X (0 .. height - 1)
  BY DEF CalcBlockAvoidPoint, FreePoints
<1> QED
  BY <1>2, <1>3

(* TouchInput cuts the screen around the block as BlockRect does.          *)
LEMMA SameRectangles ==
  ASSUME NEW width, NEW height, NEW block, NEW x, NEW y
  PROVE  /\ Touch!CalcBlockAvoidPoint(width, height, block) =
              CalcBlockAvoidPoint(width, height, block)
         /\ Touch!FreePoints(width, height, block) =
              FreePoints(width, height, block)
         /\ Touch!Inside(x, y, Touch!Ordered(block)) <=>
              Inside(x, y, Ordered(block))
  BY DEF Touch!CalcBlockAvoidPoint, CalcBlockAvoidPoint, Touch!FreePoints,
         FreePoints, Touch!Inside, Inside, Touch!Ordered, Ordered,
         Touch!Clamped, Clamped, Touch!ClampTo, ClampTo,
         Touch!DecomposeAvailableArea, DecomposeAvailableArea,
         Touch!WeightedPickSubRect, WeightedPickSubRect

-----------------------------------------------------------------------------
(* The random touches of the programs, one after the other.                *)

(* What is true of the point chosen, from ChoosePoint until the finger is  *)
(* up: with a block, it is outside.                                        *)
Avoids(p) ==
  Touch!HasBlockRect => ~Inside(p[1], p[2], Ordered(blockRect[1]))

AvoidInv ==
  /\ touchPc \in {"down", "up"} => Avoids(touch)
  /\ finger # <<>> => Avoids(finger)

(* A point is chosen, and the finger put down, only on the screen whose    *)
(* size was read; from then on the size does not change.                   *)
OnScreen(p) == p[1] < screen.w /\ p[2] < screen.h

ScreenInv ==
  /\ touchPc # "idle" => screenRead
  /\ touchPc \in {"down", "up"} => OnScreen(touch)
  /\ finger # <<>> => screenRead /\ OnScreen(finger)

TouchInv == Touch!TypeOK /\ AvoidInv /\ ScreenInv

(* The screen that was read has a size, and the block, if there is one, is *)
(* a rectangle.                                                            *)
LEMMA ScreenAndBlock ==
  ASSUME Touch!TypeOK
  PROVE  /\ screen.w \in Nat \ {0} /\ screen.h \in Nat \ {0}
         /\ Touch!HasBlockRect => blockRect[1] \in Rect
  BY BlocksAssumption DEF Touch!TypeOK, Touch!Size, Touch!HasBlockRect

(* A coordinate of the screen is natural.                                  *)
LEMMA ScreenPoints ==
  ASSUME NEW width \in Nat \ {0}, NEW height \in Nat \ {0},
         NEW p \in (0 .. width - 1) \X (0 .. height - 1)
  PROVE  p \in Nat \X Nat
  OBVIOUS

(* What ChoosePoint may choose.                                            *)
LEMMA ChosenPoint ==
  ASSUME Touch!TypeOK, Touch!ChoosePoint
  PROVE  /\ touch' \in Nat \X Nat
         /\ touchPc' \in {"down", "up"} => Avoids(touch)' /\ OnScreen(touch)'
<1>1. screen.w \in Nat \ {0} /\ screen.h \in Nat \ {0}
  BY ScreenAndBlock
<1>2. UNCHANGED <<blockRect, screen>>
  BY DEF Touch!ChoosePoint
<1>3. CASE Touch!HasBlockRect
  <2>1. blockRect[1] \in Rect
    BY <1>3, ScreenAndBlock
  <2>2. Touch!CalcBlockAvoidPoint(screen.w, screen.h, blockRect[1]) =
          FreePoints(screen.w, screen.h, blockRect[1])
    BY <1>1, <2>1, AvoidPointsAreFreePoints, SameRectangles
  <2>3. \/ touchPc' = "idle" /\ UNCHANGED touch
        \/ touch' \in FreePoints(screen.w, screen.h, blockRect[1])
    BY <1>3, <2>2 DEF Touch!ChoosePoint
  <2>4. CASE touch' \in FreePoints(screen.w, screen.h, blockRect[1])
    <3>1. touch' \in (0 .. screen.w - 1) \X (0 .. screen.h - 1)
      BY <2>4 DEF FreePoints
    <3>2. ~Inside(touch'[1], touch'[2], Ordered(blockRect[1]))
      BY <2>4 DEF FreePoints
    <3> QED
      BY <1>1, <1>2, <3>1, <3>2, ScreenPoints
      DEF Avoids, Touch!HasBlockRect, OnScreen
  <2> QED
    BY <2>3, <2>4 DEF Touch!TypeOK
<1>4. CASE ~Touch!HasBlockRect
  <2>1. \/ touchPc' = "idle" /\ UNCHANGED touch
        \/ touch' \in (0 .. screen.w - 1) \X (0 .. screen.h - 1)
    BY <1>4 DEF Touch!ChoosePoint
  <2> QED
    BY <1>1, <1>2, <1>4, <2>1, ScreenPoints
    DEF Touch!TypeOK, Avoids, Touch!HasBlockRect, OnScreen
<1> QED
  BY <1>3, <1>4

(* The first state satisfies the invariant.                                *)
LEMMA InitTouchInv == Touch!Init => TouchInv
<1> SUFFICES ASSUME Touch!Init
             PROVE  TouchInv
  OBVIOUS
<1>1. Touch!TypeOK
  BY DisplaysAssumption DEF Touch!Init, Touch!TypeOK, Touch!Size, Size
<1> QED
  BY <1>1 DEF Touch!Init, TouchInv, AvoidInv, ScreenInv

(* Every step keeps it, a rotation too: the block is in absolute pixels.   *)
LEMMA TouchStepInv ==
  ASSUME TouchInv, [Touch!Next \/ Touch!Restart]_(Touch!vars)
  PROVE  TouchInv'
<1> USE DEF TouchInv, Touch!TypeOK, AvoidInv, Avoids, Touch!HasBlockRect,
            ScreenInv, OnScreen
<1>1. CASE Touch!GetScreenSize
  BY <1>1 DEF Touch!GetScreenSize
<1>2. CASE Touch!ChoosePoint
  <2>1. touchPc' \in {"idle", "down"}
    BY <1>2 DEF Touch!ChoosePoint
  <2>2. /\ touch' \in Nat \X Nat
        /\ touchPc' \in {"down", "up"} => Avoids(touch)' /\ OnScreen(touch)'
    BY <1>2, ChosenPoint
  <2>3. /\ touchPc = "choose"
        /\ UNCHANGED <<display, screen, screenRead, blockRect, finger>>
    BY <1>2 DEF Touch!ChoosePoint
  <2> QED
    BY <2>1, <2>2, <2>3
<1>3. CASE Touch!PointerDown
  BY <1>3 DEF Touch!PointerDown
<1>4. CASE Touch!PointerUp
  BY <1>4 DEF Touch!PointerUp
<1>5. CASE Touch!Rotate
  BY <1>5 DEF Touch!Rotate, Touch!Size
<1>6. CASE Touch!Restart
  BY <1>6 DEF Touch!Restart
<1>7. CASE UNCHANGED Touch!vars
  BY <1>7 DEF Touch!vars
<1> QED
  BY <1>1, <1>2, <1>3, <1>4, <1>5, <1>6, <1>7 DEF Touch!Next

(* The programs of a device touch it one after the other, each with what   *)
(* it has read of the screen itself.                                       *)
THEOREM ProgramsTouch == ProgramsSpec => Touch!Spec
<1>1. ProgramsInit => Touch!Init
  BY DEF ProgramsInit
<1>2. [ProgramsNext]_programsVars =>
        [Touch!Next \/ Touch!Restart]_(Touch!vars)
  <2> SUFFICES ASSUME ProgramsNext \/ UNCHANGED programsVars
               PROVE  Touch!Next \/ Touch!Restart \/ UNCHANGED Touch!vars
    OBVIOUS
  <2>1. ASSUME NEW p \in Process, Guard(p)
        PROVE  UNCHANGED Touch!vars
    BY <2>1 DEF Guard, touchVars, Touch!vars
  <2>2. ASSUME NEW p \in Process, Begin(p) \/ End(p)
        PROVE  Touch!Restart
    BY <2>2 DEF Begin, End
  <2>3. CASE Rotate \/ RandomTouch
    BY <2>3 DEF Rotate, RandomTouch, Touch!Next
  <2>4. CASE RecordOrReplay
    BY <2>4 DEF RecordOrReplay, touchVars, Touch!vars
  <2>5. CASE UNCHANGED programsVars
    BY <2>5 DEF programsVars, touchVars, Touch!vars
  <2> QED
    BY <2>1, <2>2, <2>3, <2>4, <2>5 DEF ProgramsNext
<1> QED
  BY <1>1, <1>2, PTL DEF ProgramsSpec, Touch!Spec

(* Every state of the programs satisfies the invariant of the touches.     *)
LEMMA TouchInvHolds == ProgramsSpec => []TouchInv
<1>1. Touch!Spec => []TouchInv
  BY InitTouchInv, TouchStepInv, PTL DEF Touch!Spec
<1> QED
  BY <1>1, ProgramsTouch, PTL

(* The sizes, the points and the place in RandomInput keep their types.    *)
THEOREM TouchTypes == ProgramsSpec => []Touch!TypeOK
<1>1. TouchInv => Touch!TypeOK
  BY DEF TouchInv
<1> QED
  BY <1>1, TouchInvHolds, PTL

(* With -X, no finger of any program is ever down inside the block that it *)
(* was given, whatever its corners, the screen and its rotations.          *)
THEOREM AvoidanceOnDevice == ProgramsSpec => []TouchAvoidsBlock
<1>1. TouchInv => TouchAvoidsBlock
  BY SameRectangles
  DEF TouchInv, AvoidInv, Avoids, TouchAvoidsBlock, Touch!TouchAvoidsBlock
<1> QED
  BY <1>1, TouchInvHolds, PTL

(* With -X or without, no finger is down beyond the screen size that the   *)
(* program has read, or before it has read one.                            *)
THEOREM TouchOnScreen == ProgramsSpec => []ScreenInv
<1>1. TouchInv => ScreenInv
  BY DEF TouchInv
<1> QED
  BY <1>1, TouchInvHolds, PTL

(* No free point of the screen is out of reach of the draw.                *)
THEOREM NoPointLeftOut == ProgramsSpec => []Touch!EveryFreePointChosen
<1>1. TouchInv => Touch!EveryFreePointChosen
  <2> SUFFICES ASSUME Touch!TypeOK, Touch!HasBlockRect
               PROVE  Touch!FreePoints(screen.w, screen.h, blockRect[1]) =
                        Touch!CalcBlockAvoidPoint(screen.w, screen.h,
                                                  blockRect[1])
    BY DEF Touch!EveryFreePointChosen, TouchInv
  <2> QED
    BY ScreenAndBlock, AvoidPointsAreFreePoints, SameRectangles
<1> QED
  BY <1>1, TouchInvHolds, PTL

(* A round is skipped only when the program was given a block, and it      *)
(* covers the screen that the program has read.                            *)
THEOREM SkipOnDevice == ProgramsSpec => SkipsOnlyWhenCovered
<1> DEFINE
      Skipped == touchPc = "choose" /\ touchPc' = "idle" /\ screenRead' =>
                   /\ Touch!HasBlockRect
                   /\ Touch!FreePoints(screen.w, screen.h, blockRect[1]) = {}
<1>1. TouchInv /\ [Touch!Next \/ Touch!Restart]_(Touch!vars) =>
        [Skipped]_(Touch!vars)
  <2> SUFFICES ASSUME Touch!TypeOK, Touch!Next \/ Touch!Restart,
                      touchPc = "choose", touchPc' = "idle", screenRead'
               PROVE  /\ Touch!HasBlockRect
                      /\ Touch!FreePoints(screen.w, screen.h,
                                          blockRect[1]) = {}
    BY DEF Touch!vars, TouchInv
  <2>1. screen.w \in Nat \ {0} /\ screen.h \in Nat \ {0}
    BY ScreenAndBlock
  <2>2. Touch!ChoosePoint
    BY DEF Touch!Next, Touch!GetScreenSize, Touch!PointerDown,
           Touch!PointerUp, Touch!Rotate, Touch!Restart
  <2>3. CASE Touch!HasBlockRect
    <3>1. Touch!CalcBlockAvoidPoint(screen.w, screen.h, blockRect[1]) = {}
      BY <2>2, <2>3 DEF Touch!ChoosePoint
    <3> QED
      BY <2>3, <3>1, ScreenAndBlock, AvoidPointsAreFreePoints,
         SameRectangles
  <2>4. CASE ~Touch!HasBlockRect
    <3>1. (0 .. screen.w - 1) \X (0 .. screen.h - 1) = {}
      BY <2>2, <2>4 DEF Touch!ChoosePoint
    <3>2. <<0, 0>> \in (0 .. screen.w - 1) \X (0 .. screen.h - 1)
      BY <2>1
    <3> QED
      BY <3>1, <3>2
  <2> QED
    BY <2>3, <2>4
<1> QED
  BY <1>1, TouchInvHolds, ProgramsTouch, PTL
  DEF Touch!Spec, SkipsOnlyWhenCovered, Touch!SkipsOnlyWhenCovered

-----------------------------------------------------------------------------

(* The size of a display that was turned.                                  *)
Swapped(size) == [w |-> size.h, h |-> size.w]

(* The memory of a program dies with it; while the program lives, the size *)
(* it has read is that of the display, turned or not.                      *)
TurnedInv ==
  /\ turned \in BOOLEAN
  /\ command # "none" \/ screenRead \/ turned => Executing
  /\ turned => screenRead
  /\ screenRead => display = IF turned THEN Swapped(screen) ELSE screen

(* Turning a display twice gives it its size back.                         *)
LEMMA TurnedTwice ==
  ASSUME NEW size \in Size
  PROVE  Swapped(Swapped(size)) = size
  BY DEF Swapped, Size

(* A program begins to execute only when no other one does.                *)
LEMMA BeginsAlone ==
  ASSUME IInv, IInv', NEW p \in Process, Begin(p)
  PROVE  ~Executing
<1>1. /\ Decide(p) /\ pc'[p] = "executing"
      /\ pc[p] # "executing"
      /\ \A q \in Process : q # p => pc'[q] = pc[q]
  BY DEF Begin, Decide, IInv, TypeOK
<1>2. ASSUME NEW q \in Process, pc[q] = "executing"
      PROVE  FALSE
  <2>1. q # p /\ pc'[q] = "executing"
    BY <1>1, <1>2
  <2>2. /\ examined'[p] = Process /\ seen'[p] = {p}
        /\ examined'[q] = Process /\ seen'[q] = {q}
    BY <1>1, <2>1 DEF IInv, AloneInv
  <2>3. p \in seen'[q]
    BY <1>1, <2>1, <2>2 DEF IInv, LaterSeesEarlier, Looking
  <2> QED
    BY <2>1, <2>2, <2>3
<1> QED
  BY <1>2 DEF Executing

(* Every step of the programs keeps what they know of the display.         *)
LEMMA TurnedStep ==
  ASSUME IInv, IInv', TouchInv, TurnedInv, [ProgramsNext]_programsVars
  PROVE  TurnedInv'
<1>1. ASSUME NEW p \in Process, Guard(p)
      PROVE  TurnedInv'
  <2>1. UNCHANGED <<command, display, screen, screenRead, turned>>
    BY <1>1 DEF Guard, touchVars
  <2>2. ASSUME NEW q \in Process, pc[q] = "executing"
        PROVE  pc'[q] = "executing"
    BY <1>1, <2>2 DEF Guard, Start, Popen, Examine, Decide, Exit, IInv, TypeOK
  <2>3. Executing => Executing'
    BY <2>2 DEF Executing
  <2> QED
    BY <2>1, <2>3 DEF TurnedInv
<1>2. ASSUME NEW p \in Process, Begin(p)
      PROVE  TurnedInv'
  <2>1. ~Executing
    BY <1>2, BeginsAlone
  <2>2. turned = FALSE
    BY <2>1 DEF TurnedInv
  <2>3. Executing'
    BY <1>2 DEF Begin, Executing
  <2>4. screenRead' = FALSE /\ turned' = FALSE
    BY <1>2, <2>2 DEF Begin, Touch!Restart
  <2> QED
    BY <2>3, <2>4 DEF TurnedInv
<1>3. ASSUME NEW p \in Process, End(p)
      PROVE  TurnedInv'
  BY <1>3 DEF End, Touch!Restart, TurnedInv
<1>4. CASE Rotate
  <2>1. /\ display' = Swapped(display)
        /\ UNCHANGED <<command, screen, screenRead>>
        /\ UNCHANGED pc
    BY <1>4 DEF Rotate, Touch!Rotate, Swapped, guardVars
  <2>2. turned' = (screenRead /\ ~turned)
    BY <1>4 DEF Rotate
  <2>3. screen \in Size /\ screenRead \in BOOLEAN
    BY DEF TouchInv, Touch!TypeOK, Size, Touch!Size
  <2>4. Executing' <=> Executing
    BY <2>1 DEF Executing
  <2>5. screenRead =>
          display' = IF turned' THEN Swapped(screen) ELSE screen
    BY <2>1, <2>2, <2>3, TurnedTwice DEF TurnedInv
  <2>6. turned' \in BOOLEAN /\ (turned' => screenRead)
    BY <2>2, <2>3
  <2> QED
    BY <2>1, <2>4, <2>5, <2>6 DEF TurnedInv
<1>5. CASE RandomTouch
  <2>1. command = "exec" /\ UNCHANGED <<command, turned, pc>>
    BY <1>5 DEF RandomTouch, guardVars
  <2>2. Executing'
    BY <2>1 DEF TurnedInv, Executing
  <2>3. CASE Touch!GetScreenSize
    BY <2>1, <2>2, <2>3 DEF Touch!GetScreenSize, TurnedInv
  <2>4. CASE Touch!ChoosePoint \/ Touch!PointerDown \/ Touch!PointerUp
    <3>1. UNCHANGED <<display, screen, screenRead>>
      BY <2>4 DEF Touch!ChoosePoint, Touch!PointerDown, Touch!PointerUp
    <3> QED
      BY <2>1, <2>2, <3>1 DEF TurnedInv
  <2> QED
    BY <1>5, <2>3, <2>4 DEF RandomTouch
<1>6. CASE RecordOrReplay \/ UNCHANGED programsVars
  <2>1. UNCHANGED <<pc, command, display, screen, screenRead, turned>>
    BY <1>6 DEF RecordOrReplay, programsVars, guardVars, touchVars
  <2> QED
    BY <2>1 DEF TurnedInv, Executing
<1> QED
  BY <1>1, <1>2, <1>3, <1>4, <1>5, <1>6 DEF ProgramsNext

(* A touch beyond the display means that the display was turned after the  *)
(* program, not one before it, asked for its size.                         *)
THEOREM BeyondOnlyWhenTurned == ProgramsSpec => []TouchBeyondExplained
<1>1. ProgramsInit => TurnedInv
  BY DEF ProgramsInit, Touch!Init, TurnedInv
<1>2. IInv /\ IInv' /\ TouchInv /\ TurnedInv
        /\ [ProgramsNext]_programsVars => TurnedInv'
  BY TurnedStep
<1>3. TurnedInv /\ TouchInv => TouchBeyondExplained
  BY DEF TurnedInv, TouchInv, ScreenInv, OnScreen,
         TouchBeyondExplained
<1> QED
  BY ProgramsAreGuarded, IInvHolds, TouchInvHolds, <1>1, <1>2, <1>3, PTL
  DEF ProgramsSpec

-----------------------------------------------------------------------------
(* Recordings and replays.                                                 *)

(* The programs of a device record and replay one after the other: what    *)
(* other programs do leaves the file of a recording alone.                 *)
THEOREM ProgramsRecord == ProgramsSpec => Record!Spec
<1>1. ProgramsInit => Record!Init
  BY DEF ProgramsInit
<1>2. [ProgramsNext]_programsVars =>
        [Record!Next \/ Record!Restart]_(Record!vars)
  <2> SUFFICES ASSUME ProgramsNext \/ UNCHANGED programsVars
               PROVE  Record!Next \/ Record!Restart \/ UNCHANGED Record!vars
    OBVIOUS
  <2> USE DEF recordVars, Record!vars, Record!csv, Record!clock,
              Record!touched
  <2>1. ASSUME NEW p \in Process, Guard(p)
        PROVE  UNCHANGED Record!vars
    BY <2>1 DEF Guard
  <2>2. ASSUME NEW p \in Process, Begin(p)
        PROVE  Record!Restart
    BY <2>2 DEF Begin
  <2>3. ASSUME NEW p \in Process, End(p)
        PROVE  Record!Restart
    BY <2>3 DEF End
  <2>4. CASE Rotate \/ RandomTouch
    BY <2>4 DEF Rotate, RandomTouch
  <2>5. CASE RecordOrReplay
    BY <2>5 DEF RecordOrReplay
  <2>6. CASE UNCHANGED programsVars
    BY <2>6 DEF programsVars
  <2> QED
    BY <2>1, <2>2, <2>3, <2>4, <2>5, <2>6 DEF ProgramsNext
<1> QED
  BY <1>1, <1>2, PTL DEF ProgramsSpec, Record!Spec

(* The file is empty, or holds the head and the positions accepted.        *)
FileInv ==
  /\ file = <<>> => accepted = <<>>
  /\ file # <<>> =>
       /\ Len(file) = Len(accepted) + 1
       /\ \A k \in 1 .. Len(accepted) : file[k + 1] = accepted[k]
  /\ recordPc = "head" => file = <<>>
  /\ recordPc \in {"monitor", "getc", "finished"} => file # <<>>
  /\ event # <<>> => Record!Monitored

(* How many touches have been made when line lines have been read.         *)
Made ==
  IF recordPc = "down" THEN line - 2 ELSE IF line = 0 THEN 0 ELSE line - 1

ReplayInv ==
  /\ \A k \in 1 .. Len(pressed) : pressed[k] = accepted[k]
  /\ Len(pressed) <= Len(accepted)
  /\ recordPc \in {"read", "down", "up"} =>
       line <= Len(file) /\ Len(pressed) = Made
  /\ recordPc \in {"down", "up"} => line >= 2
  /\ recordPc = "passed" => Len(pressed) = Len(accepted)
  /\ recordPc \in {"idle", "head", "monitor", "getc", "finished", "over"} =>
       pressed = <<>>

(* While the system clock is left alone, it tells the real time.           *)
ClockInv == started /\ ~clockSet => age = quiet

RecordInv == Record!TypeOK /\ FileInv /\ ReplayInv /\ ClockInv

(* The empty sequence.                                                     *)
LEMMA EmptySeq ==
  ASSUME NEW S
  PROVE  <<>> \in Seq(S) /\ Len(<<>>) = 0
  OBVIOUS

(* What TypeOK says of the variables that hold no tuples.                  *)
PlainTypes ==
  /\ (command = "record") \in BOOLEAN
  /\ recordPc \in {"idle", "head", "monitor", "getc", "finished", "over",
                  "read", "down", "up", "passed", "failed"}
  /\ line \in Nat
  /\ started \in BOOLEAN
  /\ age \in Int
  /\ quiet \in Nat
  /\ clockSet \in BOOLEAN

(* The first state satisfies RecordInv.                                    *)
LEMMA InitRecordInv == Record!Init => RecordInv
<1> SUFFICES ASSUME Record!Init PROVE RecordInv
  OBVIOUS
<1> USE DEF Record!Init, Record!Fresh
<1>1. /\ file \in Seq(Positions \cup {Record!EventHead})
      /\ accepted \in Seq(Positions) /\ pressed \in Seq(Positions)
  BY EmptySeq
<1>2. Record!TypeOK
  <2>1. PlainTypes
    <3>1. /\ (command = "record") \in BOOLEAN /\ started \in BOOLEAN
          /\ clockSet \in BOOLEAN
      OBVIOUS
    <3>2. line \in Nat /\ age \in Int /\ quiet \in Nat
      OBVIOUS
    <3> QED
      BY <3>1, <3>2 DEF PlainTypes
  <2>2. /\ event \in Positions \cup {<<>>}
        /\ replayFinger \in Positions \cup {<<>>}
    OBVIOUS
  <2> HIDE DEF Record!Init, Record!Fresh
  <2> QED
    BY <1>1, <2>1, <2>2 DEF Record!TypeOK, PlainTypes
<1>3. FileInv
  BY DEF FileInv
<1>4. ReplayInv
  BY EmptySeq DEF ReplayInv
<1>5. ClockInv
  BY DEF ClockInv
<1> QED
  BY <1>2, <1>3, <1>4, <1>5 DEF RecordInv

(* The next program finds the file as the last one left it.                *)
LEMMA RecordRestartInv ==
  ASSUME RecordInv, Record!Restart
  PROVE  RecordInv'
<1> USE DEF RecordInv, Record!Restart, Record!csv
<1>1. Record!TypeOK'
  <2>1. pressed' \in Seq(Positions)
    BY EmptySeq
  <2>2. PlainTypes'
    <3>1. /\ (command = "record")' \in BOOLEAN /\ started' \in BOOLEAN
          /\ clockSet' \in BOOLEAN
      OBVIOUS
    <3>2. line' \in Nat /\ age' \in Int /\ quiet' \in Nat
      OBVIOUS
    <3> QED
      BY <3>1, <3>2 DEF PlainTypes
  <2>3. /\ event' \in Positions \cup {<<>>}
        /\ replayFinger' \in Positions \cup {<<>>}
    OBVIOUS
  <2>4. UNCHANGED <<file, accepted>>
    OBVIOUS
  <2> HIDE DEF Record!Restart
  <2> QED
    BY <2>1, <2>2, <2>3, <2>4 DEF Record!TypeOK, PlainTypes
<1>2. FileInv'
  BY DEF FileInv, Record!Monitored
<1>3. ReplayInv'
  BY EmptySeq DEF ReplayInv, Record!TypeOK
<1>4. ClockInv'
  BY DEF ClockInv
<1> QED
  BY <1>1, <1>2, <1>3, <1>4

(* The steps of the main thread of a recording.                            *)
LEMMA MainInv ==
  ASSUME RecordInv,
         \/ Record!OpenFile \/ Record!WriteEventHead
         \/ Record!AddMonitor \/ Record!Getc
  PROVE  RecordInv'
<1> USE DEF RecordInv, Record!csv, Record!clock, Record!touched
<1>1. CASE Record!OpenFile
  <2> USE <1>1 DEF Record!OpenFile
  <2>1. Record!TypeOK'
    BY EmptySeq DEF Record!TypeOK, Record!EventHead
  <2>2. FileInv'
    BY DEF FileInv, Record!Monitored
  <2>3. ReplayInv'
    BY EmptySeq DEF ReplayInv, Record!TypeOK
  <2> QED
    BY <2>1, <2>2, <2>3 DEF ClockInv
<1>2. CASE Record!WriteEventHead
  <2> USE <1>2 DEF Record!WriteEventHead
  <2>1. Record!TypeOK'
    BY DEF Record!TypeOK, Record!EventHead
  <2>2. file = <<>> /\ accepted = <<>> /\ file' = <<Record!EventHead>>
    BY DEF FileInv
  <2>3. FileInv'
    BY <2>2, EmptySeq DEF FileInv, Record!Monitored
  <2>4. ReplayInv'
    BY EmptySeq DEF ReplayInv, Record!TypeOK
  <2> QED
    BY <2>1, <2>3, <2>4 DEF ClockInv
<1>3. CASE Record!AddMonitor \/ Record!Getc
  <2> USE <1>3 DEF Record!AddMonitor, Record!Getc
  <2>1. Record!TypeOK'
    BY DEF Record!TypeOK
  <2>2. FileInv'
    BY DEF FileInv, Record!Monitored
  <2>3. ReplayInv'
    BY DEF ReplayInv, Made, Record!TypeOK
  <2> QED
    BY <2>1, <2>2, <2>3 DEF ClockInv
<1> QED
  BY <1>1, <1>2, <1>3

(* The callback, the time and the clock.                                   *)
LEMMA CallbackInv ==
  ASSUME RecordInv,
         \/ Record!EventArrives \/ Record!OnInputEvent
         \/ Record!TimePasses \/ Record!SetClock
  PROVE  RecordInv'
<1> USE DEF RecordInv
<1>1. CASE Record!OnInputEvent
  <2> USE <1>1 DEF Record!OnInputEvent
  <2>1. /\ event \in Positions /\ Record!Monitored
        /\ file \in Seq(Positions \cup {Record!EventHead})
        /\ accepted \in Seq(Positions)
        /\ file # <<>> /\ pressed = <<>>
        /\ Len(file) = Len(accepted) + 1
    BY DEF Record!TypeOK, FileInv, ReplayInv, Record!Monitored
  <2>2. CASE Record!WriteEventData
    <3> USE <2>2 DEF Record!WriteEventData, Record!touched
    <3>1. /\ Len(file') = Len(accepted') + 1
          /\ \A k \in 1 .. Len(accepted') : file'[k + 1] = accepted'[k]
      BY <2>1 DEF FileInv
    <3>2. Record!TypeOK'
      <4>1. /\ file' \in Seq(Positions \cup {Record!EventHead})
            /\ accepted' \in Seq(Positions)
        BY <2>1
      <4>2. PlainTypes'
        <5>1. /\ (command = "record")' \in BOOLEAN /\ started' \in BOOLEAN
              /\ clockSet' \in BOOLEAN
          BY DEF Record!TypeOK, Record!clock
        <5>2. line' \in Nat /\ age' \in Int /\ quiet' \in Nat
          BY DEF Record!TypeOK, Record!clock
        <5> QED
          BY <5>1, <5>2 DEF Record!TypeOK, PlainTypes
      <4>3. /\ event' \in Positions \cup {<<>>}
            /\ replayFinger' \in Positions \cup {<<>>}
            /\ pressed' \in Seq(Positions)
        BY DEF Record!TypeOK
      <4> QED
        BY <4>1, <4>2, <4>3 DEF Record!TypeOK, PlainTypes
    <3>3. file' # <<>>
      BY <2>1, <3>1, <3>2, EmptySeq DEF Record!TypeOK
    <3>4. FileInv'
      BY <2>1, <3>1, <3>3 DEF FileInv, Record!Monitored
    <3>5. ReplayInv'
      BY <2>1, <3>2, EmptySeq DEF ReplayInv, Record!TypeOK, Record!Monitored
    <3>6. ClockInv'
      BY DEF ClockInv, Record!clock
    <3> QED
      BY <3>2, <3>4, <3>5, <3>6
  <2>3. CASE UNCHANGED <<Record!csv, Record!clock>>
    <3> USE <2>3 DEF Record!csv, Record!clock, Record!touched
    <3>1. Record!TypeOK'
      BY DEF Record!TypeOK
    <3>2. FileInv' /\ ReplayInv' /\ ClockInv'
      BY DEF FileInv, ReplayInv, ClockInv, Made, Record!Monitored,
             Record!TypeOK
    <3> QED
      BY <3>1, <3>2
  <2> QED
    BY <2>2, <2>3
<1>2. CASE Record!EventArrives
  <2> USE <1>2 DEF Record!EventArrives, Record!csv, Record!clock,
                   Record!touched
  <2>1. Record!TypeOK'
    BY DEF Record!TypeOK
  <2>2. FileInv'
    BY DEF FileInv, Record!Monitored
  <2>3. ReplayInv'
    BY DEF ReplayInv, Made, Record!TypeOK
  <2>4. ClockInv'
    BY DEF ClockInv
  <2> QED
    BY <2>1, <2>2, <2>3, <2>4
<1>3. CASE Record!TimePasses \/ Record!SetClock
  <2> USE <1>3 DEF Record!TimePasses, Record!SetClock, Record!csv,
                   Record!touched
  <2>1. Record!TypeOK'
    <3>1. CASE Record!TimePasses
      BY <3>1 DEF Record!TypeOK
    <3>2. CASE Record!SetClock
      <4>1. age' \in Int
        BY <3>2, MaxPauseAssumption
      <4> QED
        BY <3>2, <4>1 DEF Record!TypeOK
    <3> QED
      BY <3>1, <3>2
  <2>2. FileInv'
    BY DEF FileInv, Record!Monitored
  <2>3. ReplayInv'
    BY DEF ReplayInv, Made, Record!TypeOK
  <2>4. ClockInv'
    <3>1. CASE Record!TimePasses
      BY <3>1 DEF ClockInv
    <3>2. CASE Record!SetClock
      BY <3>2 DEF ClockInv
    <3> QED
      BY <3>1, <3>2
  <2> QED
    BY <2>1, <2>2, <2>3, <2>4
<1> QED
  BY <1>1, <1>2, <1>3

(* The steps of a replay.                                                  *)
LEMMA ReplayStepInv ==
  ASSUME RecordInv,
         \/ Record!OpenReplay \/ Record!ReadEventLine
         \/ Record!PointerDown \/ Record!PointerUp
  PROVE  RecordInv'
<1> USE DEF RecordInv
<1>1. CASE Record!OpenReplay
  <2> USE <1>1 DEF Record!OpenReplay, Record!csv, Record!clock
  <2>1. Record!TypeOK'
    <3>1. pressed' \in Seq(Positions)
      BY EmptySeq
    <3> QED
      BY <3>1 DEF Record!TypeOK
  <2>2. FileInv' /\ ClockInv'
    BY DEF FileInv, ClockInv, Record!Monitored
  <2>3. ReplayInv'
    BY EmptySeq DEF ReplayInv, Made, Record!TypeOK
  <2> QED
    BY <2>1, <2>2, <2>3
<1>2. CASE Record!ReadEventLine
  <2> USE <1>2 DEF Record!ReadEventLine, Record!csv, Record!clock,
                   Record!touched
  <2>1. Record!TypeOK'
    BY DEF Record!TypeOK
  <2>2. FileInv' /\ ClockInv'
    BY DEF FileInv, ClockInv, Record!Monitored
  <2>3. CASE line < Len(file)
    BY <2>1, <2>2, <2>3 DEF ReplayInv, Made, Record!TypeOK
  <2>4. CASE ~(line < Len(file))
    <3>1. line = Len(file) /\ Len(pressed) = Made
      BY <2>4 DEF ReplayInv, Record!TypeOK
    <3>2. Len(pressed) = Len(accepted)
      <4>1. CASE file = <<>>
        BY <3>1, <4>1, EmptySeq DEF FileInv, Made
      <4>2. CASE file # <<>>
        BY <3>1, <4>2 DEF FileInv, Made, Record!TypeOK
      <4> QED
        BY <4>1, <4>2
    <3>3. ReplayInv'
      BY <2>4, <3>2 DEF ReplayInv
    <3> QED
      BY <2>1, <2>2, <3>3
  <2> QED
    BY <2>3, <2>4
<1>3. CASE Record!PointerDown
  <2>0. \/ /\ replayFinger' = file[line]
           /\ pressed' = Append(pressed, file[line])
           /\ recordPc' = "up"
        \/ UNCHANGED Record!touched /\ recordPc' = "failed"
    BY <1>3, Zenon DEF Record!PointerDown
  <2> USE <1>3 DEF Record!PointerDown, Record!csv, Record!clock, Record!touched
  <2>1. /\ line \in Nat /\ line >= 2 /\ line <= Len(file)
        /\ Len(pressed) = line - 2
        /\ accepted \in Seq(Positions) /\ pressed \in Seq(Positions)
    BY DEF ReplayInv, Made, Record!TypeOK
  <2>2. Len(file) = Len(accepted) + 1
    BY <2>1, EmptySeq DEF FileInv
  <2>3. /\ line - 1 \in 1 .. Len(accepted)
        /\ file[line] = accepted[line - 1]
    <3>1. line - 1 \in 1 .. Len(accepted)
      BY <2>1, <2>2
    <3>2. file # <<>>
      BY <2>1, EmptySeq
    <3>3. \A k \in 1 .. Len(accepted) : file[k + 1] = accepted[k]
      BY <3>2 DEF FileInv
    <3> HIDE <1>3
    <3>4. file[(line - 1) + 1] = accepted[line - 1]
      BY <3>1, <3>3
    <3> QED
      BY <2>1, <3>1, <3>4
  <2>4. file[line] \in Positions
    BY <2>1, <2>3
  <2>5. FileInv' /\ ClockInv'
    BY DEF FileInv, ClockInv, Record!Monitored
  <2>6. CASE /\ replayFinger' = file[line]
             /\ pressed' = Append(pressed, file[line])
             /\ recordPc' = "up"
    <3>1. Record!TypeOK'
      <4>1. pressed' \in Seq(Positions) /\ replayFinger' \in Positions
        BY <2>1, <2>4, <2>6
      <4> QED
        BY <2>6, <4>1 DEF Record!TypeOK
    <3>2. /\ Len(pressed') = line - 1
          /\ \A k \in 1 .. Len(pressed') : pressed'[k] = accepted[k]
      BY <2>1, <2>3, <2>6 DEF ReplayInv
    <3>3. ReplayInv'
      BY <2>1, <2>2, <2>6, <3>2 DEF ReplayInv, Made
    <3> QED
      BY <2>5, <3>1, <3>3
  <2>7. CASE UNCHANGED Record!touched /\ recordPc' = "failed"
    <3>1. Record!TypeOK'
      BY <2>7 DEF Record!TypeOK
    <3>2. ReplayInv'
      BY <2>7 DEF ReplayInv
    <3> QED
      BY <2>5, <3>1, <3>2
  <2> QED
    BY <2>6, <2>7, <2>0
<1>4. CASE Record!PointerUp
  <2> USE <1>4 DEF Record!PointerUp, Record!csv, Record!clock
  <2>1. Record!TypeOK'
    BY DEF Record!TypeOK
  <2>2. FileInv' /\ ClockInv'
    BY DEF FileInv, ClockInv, Record!Monitored
  <2>3. ReplayInv'
    BY DEF ReplayInv, Made, Record!TypeOK
  <2> QED
    BY <2>1, <2>2, <2>3
<1> QED
  BY <1>1, <1>2, <1>3, <1>4

(* Every step keeps it.                                                    *)
LEMMA RecordStepInv ==
  ASSUME RecordInv, [Record!Next \/ Record!Restart]_(Record!vars)
  PROVE  RecordInv'
<1>1. CASE Record!Next \/ Record!Restart
  BY <1>1, RecordRestartInv, MainInv, CallbackInv, ReplayStepInv
  DEF Record!Next
<1>2. CASE UNCHANGED Record!vars
  BY <1>2 DEF Record!vars, Record!csv, Record!clock, Record!touched,
              RecordInv, Record!TypeOK, FileInv, ReplayInv, ClockInv, Made,
              Record!Monitored
<1> QED
  BY <1>1, <1>2

(* Every state of the programs satisfies RecordInv.                        *)
LEMMA RecordInvHolds == ProgramsSpec => []RecordInv
<1>1. Record!Spec => []RecordInv
  BY InitRecordInv, RecordStepInv, PTL DEF Record!Spec
<1> QED
  BY <1>1, ProgramsRecord, PTL

(* The file, the places and the times of recordings and replays keep their *)
(* types.                                                                  *)
THEOREM RecordTypes == ProgramsSpec => []Record!TypeOK
<1>1. RecordInv => Record!TypeOK
  BY DEF RecordInv
<1> QED
  BY <1>1, RecordInvHolds, PTL

(* A replay makes the touches of the last recording and no other, all of   *)
(* them when it passes, whatever programs ran, were refused or were killed *)
(* in between.                                                             *)
THEOREM ReplayOnDevice == ProgramsSpec => []ReplayIsRecorded
<1>1. RecordInv => ReplayIsRecorded
  <2> SUFFICES ASSUME RecordInv PROVE Record!ReplayIsRecorded
    BY DEF ReplayIsRecorded
  <2> USE DEF RecordInv, ReplayInv
  <2>1. recordPc = "passed" => pressed = accepted
    <3> SUFFICES ASSUME recordPc = "passed" PROVE pressed = accepted
      OBVIOUS
    <3>1. /\ pressed \in Seq(Positions) /\ accepted \in Seq(Positions)
          /\ Len(pressed) = Len(accepted)
          /\ \A k \in 1 .. Len(pressed) : pressed[k] = accepted[k]
      BY DEF Record!TypeOK
    <3> QED
      BY <3>1
  <2> QED
    BY <2>1 DEF Record!ReplayIsRecorded
<1> QED
  BY <1>1, RecordInvHolds, PTL

(* Whatever programs ran before, a recording drops an event exactly when   *)
(* less than OPERATIONINTERVAL has really gone since the last one it       *)
(* recorded, unless the clock is set.                                      *)
THEOREM PausesOnDevice == ProgramsSpec => PausesAreReal
<1> DEFINE
      Held == event # <<>> /\ event' = <<>> /\ recordPc' = recordPc
              /\ started /\ ~clockSet
      Decided == IF quiet < OperationInterval
                 THEN accepted' = accepted
                 ELSE accepted' = Append(accepted, event) /\ age = quiet
<1>1. ASSUME RecordInv, Record!Next \/ Record!Restart, Held
      PROVE  Decided
  <2>1. age = quiet /\ recordPc \in {"getc", "finished"}
    BY <1>1 DEF RecordInv, ClockInv, FileInv, Record!Monitored
  <2>2. Record!OnInputEvent
    BY <1>1, <2>1 DEF Record!Next, Record!Restart, Record!OpenFile,
         Record!WriteEventHead, Record!AddMonitor, Record!Getc,
         Record!EventArrives, Record!TimePasses, Record!SetClock,
         Record!OpenReplay, Record!ReadEventLine, Record!PointerDown,
         Record!PointerUp
  <2> QED
    BY <1>1, <2>1, <2>2
    DEF Record!OnInputEvent, Record!WriteEventData, Record!csv
<1>2. RecordInv /\ [Record!Next \/ Record!Restart]_(Record!vars) =>
        [Held => Decided]_(Record!vars)
  BY <1>1
<1> QED
  BY <1>2, RecordInvHolds, ProgramsRecord, PTL
  DEF Record!Spec, PausesAreReal, Record!PausesAreReal

=============================================================================
