------------------------- MODULE LoaderUpdateProofs -------------------------
(***************************************************************************)
(* Proofs about the loader update, for any number of id blocks, pieces,    *)
(* images, power losses and faults.                                        *)
(***************************************************************************)
EXTENDS LoaderUpdate, FiniteSetTheorems, SequenceTheorems, TLAPS

-----------------------------------------------------------------------------
(* Counting blocks.                                                        *)

(* A set of blocks is finite and larger sets have at least as many.        *)
LEMMA CardSub ==
    ASSUME NEW T \in SUBSET Blocks, NEW S \in SUBSET T
    PROVE  /\ IsFiniteSet(T) /\ Cardinality(T) \in Nat
           /\ Cardinality(S) \in Nat /\ Cardinality(S) <= Cardinality(T)
<1>1. IsFiniteSet(Blocks)
    BY FS_Interval, BlocksAssumption DEF Blocks
<1>2. IsFiniteSet(T)
    BY <1>1, FS_Subset
<1>3. IsFiniteSet(S) /\ Cardinality(S) <= Cardinality(T)
    BY <1>2, FS_Subset
<1> QED
    BY <1>2, <1>3, FS_CardinalityType

(* One more block adds at most one.                                        *)
LEMMA CardAdd ==
    ASSUME NEW T \in SUBSET Blocks, NEW x \in Blocks, NEW S \in SUBSET (T \union {x})
    PROVE  Cardinality(S) <= Cardinality(T) + 1
<1>1. IsFiniteSet(T) /\ Cardinality(T) \in Nat
    BY CardSub
<1>2. Cardinality(T \union {x}) <= Cardinality(T) + 1
    BY <1>1, FS_AddElement
<1>3. /\ Cardinality(T \union {x}) \in Nat
      /\ Cardinality(S) \in Nat /\ Cardinality(S) <= Cardinality(T \union {x})
    BY CardSub
<1> QED
    BY <1>1, <1>2, <1>3

-----------------------------------------------------------------------------
(* The operators the actions are built from.                               *)

(* FindAllIDB returns blocks, each once, in ascending order.               *)
LEMMA FindAllIDBType ==
    ASSUME NEW R \in SUBSET Blocks, NEW s \in FindAllIDB(R)
    PROVE  /\ s \in Seq(Blocks)
           /\ \A a, b \in DOMAIN s : a < b => s[a] < s[b]
<1>1. PICK n \in 0..IDB_COPIES : s \in [1..n -> R]
    BY DEF FindAllIDB
<1>2. n \in Nat
    BY BlocksAssumption
<1>3. s \in Seq(R)
    BY <1>1, <1>2
<1>4. s \in Seq(Blocks)
    BY <1>1, <1>2
<1> QED
    BY <1>4 DEF FindAllIDB

(* Writing a piece touches the present copy only, and there that piece.    *)
LEMMA ProgramEffect ==
    ASSUME TypeOK, LoopInv, NEW c \in Contents, Program(c)
    PROVE  /\ found[i] \in Blocks
           /\ idb' \in [Blocks -> Block]
           /\ \A b \in Blocks : b # found[i] => idb'[b] = idb[b]
           /\ idb'[found[i]] = [idb[found[i]] EXCEPT ![iCount] = c]
           /\ \A a \in DOMAIN found : /\ found[a] \in Blocks
                                      /\ a # i => found[a] # found[i]
<1>1. i \in DOMAIN found /\ found \in Seq(Blocks)
    BY DEF TypeOK, LoopInv
<1>2. \A a \in DOMAIN found : found[a] \in Blocks
    BY <1>1
<1>3. iCount \in 0..Pieces - 1
    BY PiecesAssumption DEF TypeOK, LoopInv
<1>4. \A a \in DOMAIN found : a # i => found[a] # found[i]
  <2> SUFFICES ASSUME NEW a \in DOMAIN found, a # i
               PROVE  found[a] # found[i]
    OBVIOUS
  <2>1. a \in Int /\ i \in Int /\ found[a] \in Int /\ found[i] \in Int
    BY <1>1, <1>2, BlocksAssumption DEF Blocks
  <2>2. CASE a < i
    BY <1>1, <2>1, <2>2 DEF LoopInv
  <2>3. CASE i < a
    BY <1>1, <2>1, <2>3 DEF LoopInv
  <2> QED
    BY <2>1, <2>2, <2>3
<1>5. [idb[found[i]] EXCEPT ![iCount] = c] \in Block
    BY <1>1, <1>2, <1>3 DEF TypeOK, Block
<1>6. idb' = [idb EXCEPT ![found[i]] = [idb[found[i]] EXCEPT ![iCount] = c]]
    BY DEF Program
<1> QED
    BY <1>1, <1>2, <1>4, <1>5, <1>6 DEF TypeOK

(* The last piece makes the present copy the whole new image.              *)
LEMMA LastPiece ==
    ASSUME TypeOK, LoopInv, Program(g_pLoader), iCount + 1 >= Pieces
    PROVE  idb'[found[i]] = Image(g_pLoader)
<1>1. g_pLoader \in Contents
    BY DEF LoopInv, Contents
<1>2. /\ found[i] \in Blocks
      /\ idb'[found[i]] = [idb[found[i]] EXCEPT ![iCount] = g_pLoader]
    BY <1>1, ProgramEffect
<1>3. idb[found[i]] \in [0..Pieces - 1 -> Contents]
    BY <1>2 DEF TypeOK, Block
<1>4. iCount \in Nat /\ iCount = Pieces - 1
    BY PiecesAssumption DEF TypeOK, LoopInv
<1>5. ASSUME NEW p \in 0..Pieces - 1, p # iCount
      PROVE  idb[found[i]][p] = g_pLoader
  <2>1. p \in 0..iCount - 1
    BY <1>4, <1>5, PiecesAssumption
  <2> QED
    BY <2>1 DEF LoopInv
<1> QED
    BY <1>2, <1>3, <1>5, Zenon DEF Image

(* What Return leaves, and its types.                                      *)
LEMMA ReturnType ==
    ASSUME TypeOK, NEW r \in -6..0, Return(r), ~dataLoaded => todo # <<>>
    PROVE  /\ iRet' = r /\ reboot' \in BOOLEAN
           /\ pc' \in {"up", "cmd", "clear"}
           /\ todo' \in Seq({"update-bootloader", "other"})
<1>1. iRet' = r /\ pc' \in {"up", "cmd", "clear"}
    BY DEF Return
<1>2. CASE ~dataLoaded /\ r = 0
  <2>1. todo # <<>> /\ todo \in Seq({"update-bootloader", "other"})
    BY <1>2 DEF TypeOK
  <2>2. Tail(todo) \in Seq({"update-bootloader", "other"})
    BY <2>1
  <2> QED
    BY <1>1, <1>2, <2>2 DEF Return
<1>3. CASE ~(~dataLoaded /\ r = 0)
    BY <1>1, <1>3 DEF Return, TypeOK
<1> QED
    BY <1>2, <1>3

-----------------------------------------------------------------------------
(* The steps of WriteXIDBlock.                                             *)

(* The conjuncts of the invariant that Continue establishes, once the      *)
(* present copy is written (ok), to be tried again (again) or given up.    *)
LEMMA ContinueStep ==
    ASSUME IInv, pc = "write",
           NEW c \in Contents, Program(c), UNCHANGED <<call, sound>>,
           NEW j, NEW w, Continue(j, w),
           \/ j = i /\ w = write_failed
           \/ j = i + 1 /\ w = write_failed /\ idb'[found[i]] = Image(g_pLoader)
           \/ j = i + 1 /\ w = write_failed + 1
    PROVE  /\ pc' = "write" => LoopInv'
           /\ ResultTrue'
           /\ pc' # "write" /\ sound => Bootable'
           /\ i' \in Nat /\ write_failed' \in Nat /\ iCount' \in Nat
           /\ iRet' \in {NoRet, 0, -5} /\ reboot' \in BOOLEAN
           /\ pc' \in {"write", "up", "cmd", "clear"}
           /\ pc' = "write" => iRet' = NoRet /\ todo' = todo
           /\ todo' \in Seq({"update-bootloader", "other"})
<1> DEFINE n == Len(found)
           img == Image(g_pLoader)
<1>1. TypeOK /\ LoopInv /\ iRet = NoRet
    BY DEF IInv
<1>2. /\ found[i] \in Blocks
      /\ idb' \in [Blocks -> Block]
      /\ \A b \in Blocks : b # found[i] => idb'[b] = idb[b]
      /\ \A a \in DOMAIN found : /\ found[a] \in Blocks
                                 /\ a # i => found[a] # found[i]
    BY <1>1, ProgramEffect, Zenon
<1>3. /\ n \in Nat /\ i \in 1..n /\ write_failed \in Nat /\ j \in Nat /\ w \in Nat
      /\ write_failed < i /\ n - write_failed > 1 /\ DOMAIN found = 1..n
    BY <1>1 DEF TypeOK, LoopInv
<1>4. found' = found /\ g_pLoader' = g_pLoader /\ sound' = sound
    BY DEF call
<1>5. i' = j /\ write_failed' = w /\ iCount' = 0
    BY DEF Continue
<1>6. \A a \in 1..n : a # i => idb'[found[a]] = idb[found[a]]
    BY <1>2, <1>3
<1>7. w < j - 1 => \E a \in 1..j - 1 : a <= n /\ idb'[found[a]] = img
  <2> SUFFICES ASSUME w < j - 1
               PROVE  \E a \in 1..j - 1 : a <= n /\ idb'[found[a]] = img
    OBVIOUS
  <2>1. CASE write_failed < i - 1
    <3>1. PICK a \in 1..i - 1 : idb[found[a]] = img
      BY <1>1, <2>1 DEF LoopInv
    <3>2. a \in 1..n /\ a # i /\ a \in 1..j - 1
      BY <1>3
    <3> QED
      BY <1>6, <3>1, <3>2
  <2>2. CASE ~(write_failed < i - 1)
    <3>1. j = i + 1 /\ idb'[found[i]] = img
      BY <1>3, <2>2
    <3> QED
      BY <1>3, <3>1
  <2> QED
    BY <2>1, <2>2
<1>8. w = 0 => \A a \in 1..j - 1 : idb'[found[a]] = img
  <2> SUFFICES ASSUME w = 0, NEW a \in 1..j - 1
               PROVE  idb'[found[a]] = img
    OBVIOUS
  <2>1. write_failed = 0
    BY <1>3
  <2>2. CASE a = i
    BY <1>3, <2>2
  <2>3. CASE a # i
    <3>1. a \in 1..i - 1 /\ a \in 1..n
      BY <1>3, <2>3
    <3>2. idb[found[a]] = img
      BY <1>1, <2>1, <3>1 DEF LoopInv
    <3> QED
      BY <1>6, <2>3, <3>1, <3>2
  <2> QED
    BY <2>2, <2>3
<1>9. sound => \A a \in i + 1..n : Whole(idb'[found[a]])
  <2> SUFFICES ASSUME sound, NEW a \in i + 1..n
               PROVE  Whole(idb'[found[a]])
    OBVIOUS
  <2>1. a \in 1..n /\ a # i
    BY <1>3
  <2>2. Whole(idb[found[a]])
    BY <1>1 DEF LoopInv
  <2> QED
    BY <1>6, <2>1, <2>2
<1>10. CASE j <= n /\ n - w > 1
  <2>1. pc' = "write" /\ iRet' = iRet /\ todo' = todo /\ reboot' = reboot
    BY <1>10 DEF Continue
  <2>2. j \in 1..n /\ w < j
    BY <1>3, <1>10
  <2>3. \A p \in 0..0 - 1 : idb'[found[j]][p] = g_pLoader
    OBVIOUS
  <2>4. w < j - 1 => \E a \in 1..j - 1 : idb'[found[a]] = img
    BY <1>7
  <2>5. sound => \A a \in j + 1..n : Whole(idb'[found[a]])
    BY <1>3, <1>9
  <2>6. LoopInv'
    <3>1. /\ g_pLoader' \in Versions
          /\ i' \in 1..Len(found') /\ write_failed' < i' /\ Len(found') - write_failed' > 1
          /\ iCount' < Pieces
      BY <1>1, <1>4, <1>5, <1>10, <2>2, PiecesAssumption DEF LoopInv
    <3>2. \A a, b \in DOMAIN found' : a < b => found'[a] < found'[b]
      BY <1>1, <1>4 DEF LoopInv
    <3>3. Image(g_pLoader)' = img
      BY <1>4 DEF Image
    <3>4. sound' => \A a \in i' + 1..Len(found') : Whole(idb'[found'[a]])
      BY <1>4, <1>5, <2>5
    <3>5. \A p \in 0..iCount' - 1 : idb'[found'[i']][p] = g_pLoader'
      BY <1>4, <1>5, <2>3
    <3>6. write_failed' < i' - 1 => \E a \in 1..i' - 1 : idb'[found'[a]] = Image(g_pLoader)'
      BY <1>4, <1>5, <2>4, <3>3
    <3>7. write_failed' = 0 => \A a \in 1..i' - 1 : idb'[found'[a]] = Image(g_pLoader)'
      BY <1>4, <1>5, <1>8, <3>3
    <3> QED
      BY <3>1, <3>2, <3>4, <3>5, <3>6, <3>7, Zenon DEF LoopInv, Whole, Image
  <2>7. ResultTrue'
    BY <1>1, <2>1 DEF ResultTrue, NoRet
  <2> QED
    BY <1>1, <1>3, <1>5, <2>1, <2>6, <2>7 DEF TypeOK
<1>11. CASE ~(j <= n /\ n - w > 1)
  <2> DEFINE r == IF j = n + 1 THEN 0 ELSE -5
  <2>1. Return(r) /\ r \in -6..0
    BY <1>11 DEF Continue
  <2>2. ~dataLoaded => todo # <<>>
    BY DEF IInv
  <2>3. /\ iRet' = r /\ reboot' \in BOOLEAN
        /\ pc' \in {"up", "cmd", "clear"}
        /\ todo' \in Seq({"update-bootloader", "other"})
    BY <1>1, <2>1, <2>2, ReturnType
  <2>4. j = n + 1 => w < j - 1
    BY <1>3
  <2>5. j # n + 1 => n \in i + 1..n
    BY <1>3, <1>11
  <2>6. ResultTrue'
    <3>1. Image(g_pLoader)' = img
      BY <1>4 DEF Image
    <3>2. CASE j = n + 1
      <4>1. \E a \in 1..n : idb'[found[a]] = img
        BY <1>3, <1>7, <2>4, <3>2
      <4>2. w = 0 => \A a \in 1..n : idb'[found[a]] = img
        BY <1>3, <1>8, <3>2
      <4>3. iRet' = 0
        BY <2>3, <3>2
      <4>4. \E a \in DOMAIN found' : idb'[found'[a]] = Image(g_pLoader)'
        BY <1>3, <1>4, <3>1, <4>1
      <4>5. write_failed' = 0 =>
              \A a \in DOMAIN found' : idb'[found'[a]] = Image(g_pLoader)'
        BY <1>3, <1>4, <1>5, <3>1, <4>2
      <4>6. iRet' # -5
        BY <4>3
      <4> QED
        BY <4>4, <4>5, <4>6 DEF ResultTrue
    <3>3. CASE j # n + 1
      <4>1. sound => Whole(idb'[found[n]])
        BY <1>9, <2>5, <3>3
      <4>2. iRet' = -5
        BY <2>3, <3>3
      <4>3. Whole(idb'[found[n]]) => Whole(idb[found[Len(found)]])'
        BY <1>4 DEF Whole, Image
      <4>4. iRet' # 0
        BY <4>2
      <4> QED
        BY <1>4, <4>1, <4>3, <4>4 DEF ResultTrue
    <3> QED
      BY <3>2, <3>3
  <2>7. sound => Bootable'
    <3> SUFFICES ASSUME sound PROVE Bootable'
      OBVIOUS
    <3>1. CASE j = n + 1
      <4>1. PICK a \in 1..j - 1 : a <= n /\ idb'[found[a]] = img
        BY <1>7, <2>4, <3>1
      <4>2. found[a] \in Blocks /\ g_pLoader \in Versions
        BY <1>1, <1>2, <1>3, <4>1 DEF LoopInv
      <4> QED
        BY <4>1, <4>2, Zenon DEF Bootable, Whole, Blocks, Image
    <3>2. CASE j # n + 1
      <4>1. Whole(idb'[found[n]]) /\ found[n] \in Blocks
        BY <1>2, <1>3, <1>9, <2>5, <3>2
      <4> QED
        BY <4>1, Zenon DEF Bootable, Whole, Blocks, Image
    <3> QED
      BY <3>1, <3>2
  <2> QED
    BY <1>3, <1>5, <2>3, <2>6, <2>7
<1> QED
    BY <1>10, <1>11

(* While the loop runs over copies that were whole, one besides the        *)
(* present one is: an earlier one that holds the new image, or a later one.*)
LEMMA LoopSpare ==
    ASSUME TypeOK, LoopInv, sound
    PROVE  \E a \in DOMAIN found : a # i /\ found[a] \in Blocks /\ Whole(idb[found[a]])
<1>1. /\ found \in Seq(Blocks) /\ Len(found) \in Nat /\ DOMAIN found = 1..Len(found)
      /\ i \in 1..Len(found) /\ write_failed \in Nat
      /\ write_failed < i /\ Len(found) - write_failed > 1
    BY DEF TypeOK, LoopInv
<1>2. \A a \in 1..Len(found) : found[a] \in Blocks
    BY <1>1
<1>3. CASE write_failed < i - 1
  <2>1. PICK a \in 1..i - 1 : idb[found[a]] = Image(g_pLoader)
    BY <1>3 DEF LoopInv
  <2>2. a \in 1..Len(found) /\ a # i /\ g_pLoader \in Versions
    BY <1>1 DEF LoopInv
  <2> QED
    BY <1>1, <1>2, <2>1, <2>2 DEF Whole
<1>4. CASE ~(write_failed < i - 1)
  <2>1. i + 1 \in i + 1..Len(found) /\ i + 1 \in 1..Len(found) /\ i + 1 # i
    BY <1>1, <1>4
  <2>2. Whole(idb[found[i + 1]])
    BY <2>1 DEF LoopInv
  <2> QED
    BY <1>1, <1>2, <2>1, <2>2
<1> QED
    BY <1>3, <1>4

(* Hence the board can boot.                                               *)
LEMMA LoopBootable == TypeOK /\ LoopInv /\ sound => Bootable
    BY LoopSpare DEF Bootable

(* A step of the loop changes what is broken in the present copy only.     *)
LEMMA BrokenStep ==
    ASSUME TypeOK, LoopInv, pc = "write", NEW c \in Contents, Program(c)
    PROVE  /\ Broken' \ {found[i]} = Given
           /\ Broken' \subseteq Given \union {found[i]}
           /\ Given \in SUBSET Blocks /\ found[i] \in Blocks
<1>1. /\ found[i] \in Blocks
      /\ \A b \in Blocks : b # found[i] => idb'[b] = idb[b]
    BY ProgramEffect, Zenon
<1>2. Broken' = {b \in Blocks : ~Whole(idb'[b])}
    BY DEF Broken, Blocks, Whole, Image
<1>3. Given = Broken \ {found[i]}
    BY DEF Given
<1>4. Given \in SUBSET Blocks
    BY <1>3 DEF Broken
<1>5. Broken' \ {found[i]} = Given
    BY <1>1, <1>2, <1>3 DEF Broken
<1> QED
    BY <1>1, <1>4, <1>5

(* A copy is lost only when it is given up.                                *)
LEMMA CountStep ==
    ASSUME IInv, pc = "write", NEW c \in Contents, Program(c), UNCHANGED found,
           hurt' \in Nat,
           \/ pc' = "write" /\ i' = i /\ hurt' = hurt
           \/ idb'[found[i]] = Image(g_pLoader) /\ hurt' = hurt
           \/ hurt' = hurt + 1
    PROVE  Cardinality(Given') <= hurt'
<1>1. TypeOK /\ LoopInv /\ Cardinality(Given) <= hurt /\ hurt \in Nat
    BY DEF IInv, TypeOK
<1>2. /\ Broken' \ {found[i]} = Given
      /\ Broken' \subseteq Given \union {found[i]}
      /\ Given \in SUBSET Blocks /\ found[i] \in Blocks
    BY <1>1, BrokenStep
<1>3. Given' = Broken' \ (IF pc' = "write" THEN {found'[i']} ELSE {})
    BY DEF Given
<1>4. Cardinality(Given) \in Nat
    BY <1>2, CardSub
<1>5. CASE pc' = "write" /\ i' = i /\ hurt' = hurt
    BY <1>1, <1>2, <1>3, <1>5
<1>6. CASE idb'[found[i]] = Image(g_pLoader) /\ hurt' = hurt
  <2>1. found[i] \notin Broken'
    BY <1>1, <1>6, Zenon DEF Broken, Whole, Image, LoopInv, Blocks
  <2>2. Given' \in SUBSET Given
    BY <1>2, <1>3, <2>1
  <2>3. Cardinality(Given') \in Nat /\ Cardinality(Given') <= Cardinality(Given)
    BY <1>2, <2>2, CardSub
  <2> QED
    BY <1>1, <1>4, <1>6, <2>3
<1>7. CASE hurt' = hurt + 1
  <2>1. Given' \in SUBSET (Given \union {found[i]})
    BY <1>2, <1>3
  <2>2. Cardinality(Given') <= Cardinality(Given) + 1
    BY <1>2, <2>1, CardAdd
  <2>3. Cardinality(Given') \in Nat
    BY <1>2, <2>1, CardSub
  <2> QED
    BY <1>1, <1>4, <1>7, <2>2, <2>3
<1> QED
    BY <1>5, <1>6, <1>7

(* An invariant state whose image in the next state is one as well: what   *)
(* each action has to show when it leaves the id blocks alone.             *)
LEMMA QuietStep ==
    ASSUME IInv, TypeOK', UNCHANGED <<idb, hurt, sound>>,
           pc # "write", pc' # "write",
           pc' = "update" /\ dataLoaded' => g_pLoader' \in Versions,
           pc' = "update" /\ ~dataLoaded' => todo' # <<>>,
           pc' \notin {"cmd", "clear", "up"} => iRet' = NoRet,
           \/ iRet' \notin {0, -5}
           \/ UNCHANGED <<iRet, found, g_pLoader, write_failed>>
    PROVE  IInv'
<1>1. SoundUpdateSurvives'
    BY DEF IInv, SoundUpdateSurvives, Bootable, Whole, Image, Blocks
<1>2. Given' = Given
    BY DEF Given, Broken, Whole, Image, Blocks
<1>3. ResultTrue'
  <2>1. CASE iRet' \notin {0, -5}
    BY <2>1 DEF ResultTrue
  <2>2. CASE UNCHANGED <<iRet, found, g_pLoader, write_failed>>
    BY <2>2, Zenon DEF IInv, ResultTrue, Whole, Image
  <2> QED
    BY <2>1, <2>2
<1>4. Cardinality(Given') <= hurt'
    BY <1>2 DEF IInv
<1> QED
    BY <1>1, <1>3, <1>4 DEF IInv

-----------------------------------------------------------------------------
(* The invariant holds at the start and every step keeps it.               *)

(* A factory board satisfies the invariant.                                *)
LEMMA InitInv == Init => IInv
<1> SUFFICES ASSUME Init PROVE IInv
    OBVIOUS
<1>1. PICK v \in Versions, f \in (SUBSET Blocks) \ {{}} :
         /\ idb = [b \in Blocks |-> Image(IF b \in f THEN v ELSE Blank)]
         /\ hurt = Cardinality(Blocks \ f)
    BY Zenon DEF Init
<1>2. \A b \in f : Whole(idb[b])
    BY <1>1 DEF Whole
<1>3. Broken \in SUBSET (Blocks \ f)
    BY <1>1, <1>2 DEF Broken
<1>4. Given \in SUBSET (Blocks \ f)
    BY <1>3 DEF Given
<1>5. Cardinality(Given) <= hurt /\ hurt \in Nat
    BY <1>1, <1>4, CardSub
<1>6. idb \in [Blocks -> Block]
  <2>1. \A b \in Blocks : Image(IF b \in f THEN v ELSE Blank) \in Block
    BY <1>1 DEF Block, Image, Contents
  <2> QED
    BY <1>1, <2>1
<1>7. TypeOK
  <2>1. todo \in Seq({"update-bootloader", "other"}) /\ found \in Seq(Blocks)
    BY DEF Init
  <2>2. /\ reboot \in BOOLEAN /\ dataLoaded \in BOOLEAN /\ retry \in BOOLEAN
        /\ sound \in BOOLEAN
    BY Zenon DEF Init
  <2>3. /\ i \in Nat /\ write_failed \in Nat /\ iCount \in Nat /\ tries \in Nat
        /\ iRet \in -6..1 /\ losses \in Nat /\ faults \in Nat /\ requests \in Nat
    BY DEF Init, NoRet
  <2>4. /\ misc \in {Message(list) : list \in Lists} \union {NoCmd} /\ pc = "off"
        /\ image \in Versions \union {NoImage} /\ g_pLoader \in Versions \union {NoImage}
    BY DEF Init
  <2> QED
    BY <1>5, <1>6, <2>1, <2>2, <2>3, <2>4 DEF TypeOK
<1>8. SoundUpdateSurvives
  <2>1. PICK b \in f : b \in Blocks
    BY <1>1
  <2>2. Bootable
    BY <1>2, <2>1 DEF Bootable
  <2> QED
    BY <2>2 DEF SoundUpdateSurvives
<1>9. ResultTrue
    BY DEF Init, ResultTrue, NoRet
<1> QED
    BY <1>5, <1>7, <1>8, <1>9 DEF IInv, Init

(* RAM after a reset has its types.                                        *)
LEMMA ColdType ==
    ASSUME ColdStart
    PROVE  /\ todo' \in Seq({"update-bootloader", "other"})
           /\ reboot' \in BOOLEAN /\ dataLoaded' \in BOOLEAN /\ retry' \in BOOLEAN
           /\ g_pLoader' \in Versions \union {NoImage}
           /\ found' \in Seq(Blocks)
           /\ i' \in Nat /\ write_failed' \in Nat /\ iCount' \in Nat /\ tries' \in Nat
           /\ iRet' \in -6..1 /\ iRet' = NoRet
<1>1. todo' \in Seq({"update-bootloader", "other"}) /\ found' \in Seq(Blocks)
    BY DEF ColdStart
<1>2. reboot' \in BOOLEAN /\ dataLoaded' \in BOOLEAN /\ retry' \in BOOLEAN
    BY Zenon DEF ColdStart
<1>3. /\ i' \in Nat /\ write_failed' \in Nat /\ iCount' \in Nat /\ tries' \in Nat
      /\ iRet' \in -6..1 /\ iRet' = NoRet
    BY DEF ColdStart, NoRet
<1>4. g_pLoader' \in Versions \union {NoImage}
    BY DEF ColdStart
<1> QED
    BY <1>1, <1>2, <1>3, <1>4

(* Power on.                                                               *)
LEMMA PowerOnInv == IInv /\ PowerOn => IInv'
<1> SUFFICES ASSUME IInv, PowerOn PROVE IInv'
    OBVIOUS
<1>1. /\ pc = "off" /\ pc' \in {"misc", "maskrom"}
      /\ UNCHANGED <<idb, misc, image, todo, reboot, dataLoaded, g_pLoader, found, i,
                     write_failed, retry, iCount, tries, iRet, sound, hurt, losses,
                     faults, requests>>
    BY DEF PowerOn, medium, call, loop, bounds
<1>2. TypeOK'
    BY <1>1 DEF IInv, TypeOK, Block, Contents, Blocks
<1> QED
    BY <1>1, <1>2, QuietStep DEF IInv

(* An update is requested in misc.                                         *)
LEMMA RequestInv ==
    ASSUME NEW list \in Lists, NEW v \in Versions, IInv, RequestUpdate(list, v)
    PROVE  IInv'
<1>1. /\ pc = "up" /\ pc' = "off" /\ misc' = Message(list) /\ image' = v
      /\ requests' = requests + 1 /\ UNCHANGED <<idb, sound, hurt, losses, faults>>
    BY DEF RequestUpdate
<1>2. ColdStart
    BY DEF RequestUpdate
<1>3. TypeOK'
  <2>1. TypeOK
    BY DEF IInv
  <2>2. /\ misc' \in {Message(m) : m \in Lists} \union {NoCmd}
        /\ image' \in Versions \union {NoImage}
    BY <1>1
  <2>3. requests' \in Nat
    BY <1>1, <2>1 DEF TypeOK
  <2>4. /\ idb' \in [Blocks -> Block] /\ sound' \in BOOLEAN
        /\ hurt' \in Nat /\ losses' \in Nat /\ faults' \in Nat
    BY <1>1, <2>1 DEF TypeOK
  <2> QED
    BY <1>1, <1>2, <2>2, <2>3, <2>4, ColdType, Zenon DEF TypeOK
<1>4. iRet' = NoRet /\ iRet' \notin {0, -5}
    BY <1>2, ColdType DEF NoRet
<1> QED
    BY <1>1, <1>3, <1>4, QuietStep

(* fastboot flash loader.                                                  *)
LEMMA StoreImageInv ==
    ASSUME NEW v \in Versions, IInv, rkimage_store_image(v)
    PROVE  IInv'
<1>1. /\ pc = "up" /\ pc' = "update" /\ g_pLoader' = v /\ dataLoaded' = TRUE
      /\ iRet' = NoRet /\ requests' = requests + 1
      /\ UNCHANGED <<idb, misc, image, todo, reboot, found, i, write_failed, retry,
                     iCount, tries, sound, hurt, losses, faults>>
    BY DEF rkimage_store_image, medium, loop
<1>2. TypeOK'
    BY <1>1 DEF IInv, TypeOK, NoRet
<1>3. iRet' \notin {0, -5}
    BY <1>1 DEF NoRet
<1> QED
    BY <1>1, <1>2, <1>3, QuietStep

(* The command in misc is looked up.                                       *)
LEMMA MiscInv == IInv /\ rkloader_run_misc_cmd => IInv'
<1> SUFFICES ASSUME IInv, rkloader_run_misc_cmd PROVE IInv'
    OBVIOUS
<1>1. /\ pc = "misc" /\ pc' \in {"cmd", "up"}
      /\ UNCHANGED <<idb, misc, image, dataLoaded, g_pLoader, found, i, write_failed,
                     retry, iCount, tries, iRet, sound, hurt, losses, faults, requests>>
    BY DEF rkloader_run_misc_cmd, medium, call, loop, bounds
<1>2. misc.recovery \in Seq({"update-bootloader", "other"})
  <2>1. misc \in {Message(list) : list \in Lists} \union {NoCmd}
    BY DEF IInv, TypeOK
  <2>2. CASE misc = NoCmd
    <3>1. misc.recovery = <<>>
      BY <2>2, Zenon DEF NoCmd
    <3> QED
      BY <3>1, EmptySeq
  <2>3. ASSUME NEW list \in Lists, misc = Message(list)
        PROVE  misc.recovery \in Seq({"update-bootloader", "other"})
    BY <2>3, ListsAssumption DEF Message
  <2> QED
    BY <2>1, <2>2, <2>3
<1>3. todo' \in Seq({"update-bootloader", "other"}) /\ reboot' \in BOOLEAN
    BY <1>2, Zenon DEF rkloader_run_misc_cmd, IInv, TypeOK
<1>4. TypeOK'
    BY <1>1, <1>3 DEF IInv, TypeOK
<1> QED
    BY <1>1, <1>4, QuietStep DEF IInv

(* One line of the command list.                                           *)
LEMMA ExecuteInv == IInv /\ execute_cmd => IInv'
<1> SUFFICES ASSUME IInv, execute_cmd PROVE IInv'
    OBVIOUS
<1>1. /\ pc = "cmd"
      /\ UNCHANGED <<idb, misc, image, reboot, g_pLoader, found, i, write_failed,
                     retry, iCount, tries, sound, hurt, losses, faults, requests>>
    BY DEF execute_cmd, medium, loop, bounds
<1>2. CASE pc' = "clear" /\ UNCHANGED <<todo, dataLoaded, iRet>>
  <2>1. TypeOK'
    BY <1>1, <1>2 DEF IInv, TypeOK
  <2> QED
    BY <1>1, <1>2, <2>1, QuietStep
<1>3. CASE todo # <<>> /\ todo' = Tail(todo) /\ UNCHANGED <<pc, dataLoaded, iRet>>
  <2>1. todo \in Seq({"update-bootloader", "other"})
    BY DEF IInv, TypeOK
  <2>2. todo' \in Seq({"update-bootloader", "other"})
    BY <1>3, <2>1
  <2>3. TypeOK'
    BY <1>1, <1>3, <2>2 DEF IInv, TypeOK
  <2> QED
    BY <1>1, <1>3, <2>3, QuietStep
<1>4. CASE /\ todo # <<>> /\ pc' = "update" /\ dataLoaded' = FALSE
           /\ iRet' = NoRet /\ UNCHANGED todo
  <2>1. TypeOK'
    <3>1. iRet' \in -6..1
      BY <1>4 DEF NoRet
    <3>2. dataLoaded' \in BOOLEAN
      BY <1>4, Zenon
    <3> QED
      BY <1>1, <1>4, <3>1, <3>2 DEF IInv, TypeOK
  <2>2. iRet' \notin {0, -5}
    BY <1>4 DEF NoRet
  <2> QED
    BY <1>1, <1>4, <2>1, <2>2, QuietStep
<1> QED
    BY <1>2, <1>3, <1>4, Zenon DEF execute_cmd

(* There is no image to be had.                                            *)
LEMMA GetBootFailsInv == IInv /\ get_rk28boot_fails => IInv'
<1> SUFFICES ASSUME IInv, get_rk28boot_fails PROVE IInv'
    OBVIOUS
<1>1. /\ pc = "update" /\ Return(-6)
      /\ UNCHANGED <<idb, misc, image, dataLoaded, g_pLoader, found, i, write_failed,
                     retry, iCount, tries, sound, hurt, losses, requests>>
    BY DEF get_rk28boot_fails, medium, call, loop
<1>2. /\ iRet' = -6 /\ reboot' \in BOOLEAN /\ pc' \in {"up", "cmd", "clear"}
      /\ todo' \in Seq({"update-bootloader", "other"})
    BY <1>1, ReturnType DEF IInv
<1>3. faults' \in Nat
    BY DEF get_rk28boot_fails, Fault, IInv, TypeOK
<1>4. TypeOK'
    BY <1>1, <1>2, <1>3 DEF IInv, TypeOK
<1> QED
    BY <1>1, <1>2, <1>4, QuietStep

(* The copies are looked up: the loop starts with its invariant, and the   *)
(* claim about the update begins anew.                                     *)
LEMMA UpdateInv == IInv /\ rkidb_update_loader => IInv'
<1> SUFFICES ASSUME IInv, rkidb_update_loader PROVE IInv'
    OBVIOUS
<1>1. /\ pc = "update"
      /\ UNCHANGED <<idb, misc, image, dataLoaded, hurt, losses, requests>>
    BY DEF rkidb_update_loader, medium
<1>2. g_pLoader' \in Versions
    BY <1>1 DEF rkidb_update_loader, IInv, TypeOK
<1> DEFINE tagged == {b \in Blocks : HasTag(b)}
<1>3. PICK lost \in SUBSET tagged :
         /\ found' \in FindAllIDB(tagged \ lost)
         /\ \/ /\ Fault(Cardinality(lost))
               /\ Len(found') = 0 /\ Return(-2) /\ UNCHANGED <<loop, sound>>
            \/ /\ Fault(Cardinality(lost))
               /\ Len(found') = 1 /\ Return(-3) /\ UNCHANGED <<loop, sound>>
            \/ /\ Fault(Cardinality(lost) + 1)
               /\ Len(found') > 1 /\ Return(-4) /\ UNCHANGED <<loop, sound>>
            \/ /\ Fault(Cardinality(lost))
               /\ Len(found') > 1
               /\ pc' = "write"
               /\ i' = 1 /\ write_failed' = 0 /\ retry' = FALSE
               /\ iCount' = 0 /\ tries' = 0
               /\ sound' = \A a \in DOMAIN found' : Whole(idb[found'[a]])
               /\ UNCHANGED <<todo, reboot, iRet>>
    BY Zenon DEF rkidb_update_loader
<1>4. /\ found' \in Seq(Blocks)
      /\ \A a, b \in DOMAIN found' : a < b => found'[a] < found'[b]
  <2>1. tagged \ lost \in SUBSET Blocks
    OBVIOUS
  <2> QED
    BY <1>3, <2>1, FindAllIDBType
<1>5. faults' \in Nat
  <2>1. lost \in SUBSET Blocks
    OBVIOUS
  <2>2. Cardinality(lost) \in Nat
    BY <2>1, CardSub
  <2>3. Fault(Cardinality(lost)) \/ Fault(Cardinality(lost) + 1)
    BY <1>3, Zenon
  <2>4. faults \in Nat
    BY DEF IInv, TypeOK
  <2> QED
    BY <2>2, <2>3, <2>4 DEF Fault
<1>6. ASSUME NEW r \in {-2, -3, -4}, Return(r), UNCHANGED <<loop, sound>>
      PROVE  IInv'
  <2>1. /\ iRet' = r /\ reboot' \in BOOLEAN /\ pc' \in {"up", "cmd", "clear"}
        /\ todo' \in Seq({"update-bootloader", "other"})
    BY <1>1, <1>6, ReturnType DEF IInv
  <2>2. UNCHANGED <<i, write_failed, retry, iCount, tries, sound>>
    BY <1>6 DEF loop
  <2>3. TypeOK'
    BY <1>1, <1>2, <1>4, <1>5, <2>1, <2>2 DEF IInv, TypeOK
  <2>4. iRet' \notin {0, -5}
    BY <2>1
  <2> QED
    BY <1>1, <2>1, <2>2, <2>3, <2>4, QuietStep
<1>7. ASSUME Len(found') > 1, pc' = "write", i' = 1, write_failed' = 0, retry' = FALSE,
             iCount' = 0, tries' = 0,
             sound' = \A a \in DOMAIN found' : Whole(idb[found'[a]]),
             UNCHANGED <<todo, reboot, iRet>>
      PROVE  IInv'
  <2>1. sound' \in BOOLEAN /\ retry' \in BOOLEAN
    BY <1>7, Zenon
  <2>2. TypeOK'
    BY <1>1, <1>2, <1>4, <1>5, <1>7, <2>1 DEF IInv, TypeOK
  <2>3. Len(found') \in Nat /\ DOMAIN found' = 1..Len(found')
    BY <1>4
  <2>4. sound' => \A a \in DOMAIN found' : Whole(idb'[found'[a]])
    BY <1>1, <1>7, Zenon
  <2>5. sound' => \A a \in i' + 1..Len(found') : Whole(idb'[found'[a]])
    <3> SUFFICES ASSUME sound', NEW a \in i' + 1..Len(found')
                 PROVE  Whole(idb'[found'[a]])
      OBVIOUS
    <3>1. a \in DOMAIN found'
      BY <1>7, <2>3
    <3> QED
      BY <2>4, <3>1
  <2>6. LoopInv'
    <3>1. /\ i' \in 1..Len(found') /\ write_failed' < i'
          /\ Len(found') - write_failed' > 1 /\ iCount' < Pieces
          /\ ~(write_failed' < i' - 1)
      BY <1>7, <2>3, PiecesAssumption
    <3>2. 1..i' - 1 = {} /\ 0..iCount' - 1 = {}
      BY <1>7
    <3> QED
      BY <1>2, <1>4, <2>5, <3>1, <3>2, Zenon DEF LoopInv, Whole, Image
  <2>7. Bootable' \/ ~sound'
    BY <2>2, <2>6, LoopBootable, PTL
  <2>8. iRet' = NoRet
    BY <1>1, <1>7 DEF IInv
  <2>9. ResultTrue'
    BY <2>8 DEF ResultTrue, NoRet
  <2>10. Cardinality(Given') <= hurt'
    <3>1. Broken' = Broken /\ Given = Broken
      BY <1>1 DEF Broken, Given, Whole, Image, Blocks
    <3>2. Given' \in SUBSET Given /\ Given \in SUBSET Blocks
      BY <3>1 DEF Given, Broken
    <3>3. /\ Cardinality(Given') \in Nat /\ Cardinality(Given) \in Nat
          /\ Cardinality(Given') <= Cardinality(Given)
      BY <3>2, CardSub
    <3> QED
      BY <1>1, <3>3 DEF IInv, TypeOK
  <2>11. ~dataLoaded' => todo' # <<>>
    BY <1>1, <1>7 DEF IInv
  <2> QED
    BY <1>7, <2>2, <2>6, <2>7, <2>8, <2>9, <2>10, <2>11 DEF IInv, SoundUpdateSurvives
<1> QED
    BY <1>3, <1>6, <1>7, Zenon

(* What the steps of the loop have in common.                              *)
LEMMA LoopStep ==
    ASSUME IInv, pc = "write", NEW c \in Contents, Program(c),
           UNCHANGED <<misc, image, call, sound, losses, requests>>,
           hurt' \in Nat, retry' \in BOOLEAN, tries' \in Nat, faults' \in Nat,
           NEW j, NEW w, Continue(j, w),
           \/ j = i /\ w = write_failed
           \/ j = i + 1 /\ w = write_failed /\ idb'[found[i]] = Image(g_pLoader)
           \/ j = i + 1 /\ w = write_failed + 1,
           Cardinality(Given') <= hurt'
    PROVE  IInv'
<1>1. /\ pc' = "write" => LoopInv'
      /\ ResultTrue'
      /\ pc' # "write" /\ sound => Bootable'
      /\ i' \in Nat /\ write_failed' \in Nat /\ iCount' \in Nat
      /\ iRet' \in {NoRet, 0, -5} /\ reboot' \in BOOLEAN
      /\ pc' \in {"write", "up", "cmd", "clear"}
      /\ pc' = "write" => iRet' = NoRet /\ todo' = todo
      /\ todo' \in Seq({"update-bootloader", "other"})
    BY ContinueStep
<1>2. UNCHANGED <<dataLoaded, g_pLoader, found, sound>>
    BY DEF call
<1>3. idb' \in [Blocks -> Block]
    BY ProgramEffect, Zenon DEF IInv
<1>4. iRet' \in -6..1
    BY <1>1 DEF NoRet
<1>5. TypeOK'
    BY <1>1, <1>2, <1>3, <1>4 DEF IInv, TypeOK
<1>6. pc' = "write" /\ sound' => Bootable'
    BY <1>1, <1>5, LoopBootable, PTL
<1>7. SoundUpdateSurvives'
    BY <1>1, <1>2, <1>6 DEF SoundUpdateSurvives
<1>8. pc' = "write" /\ ~dataLoaded' => todo' # <<>>
    BY <1>1, <1>2 DEF IInv
<1> QED
    BY <1>1, <1>5, <1>7, <1>8 DEF IInv

(* A piece is written and compared.                                        *)
LEMMA WritePieceInv == IInv /\ WritePiece => IInv'
<1> SUFFICES ASSUME IInv, WritePiece PROVE IInv'
    OBVIOUS
<1>1. /\ pc = "write" /\ Program(g_pLoader)
      /\ UNCHANGED <<misc, image, call, retry, sound, hurt, losses, faults, requests>>
    BY DEF WritePiece, bounds
<1>2. TypeOK /\ LoopInv /\ g_pLoader \in Contents
    BY <1>1 DEF IInv, LoopInv, Contents
<1>3. CASE iCount + 1 < Pieces
  <2>1. /\ iCount' = iCount + 1
        /\ UNCHANGED <<pc, i, write_failed, tries, iRet, todo, reboot>>
    BY <1>3 DEF WritePiece
  <2>2. UNCHANGED <<dataLoaded, g_pLoader, found>>
    BY <1>1 DEF call
  <2>3. /\ found[i] \in Blocks
        /\ idb' \in [Blocks -> Block]
        /\ \A b \in Blocks : b # found[i] => idb'[b] = idb[b]
        /\ idb'[found[i]] = [idb[found[i]] EXCEPT ![iCount] = g_pLoader]
        /\ \A a \in DOMAIN found : /\ found[a] \in Blocks
                                   /\ a # i => found[a] # found[i]
    BY <1>1, <1>2, ProgramEffect
  <2>4. TypeOK'
    BY <1>1, <2>1, <2>2, <2>3 DEF IInv, TypeOK
  <2>5. \A a \in DOMAIN found : a # i => idb'[found[a]] = idb[found[a]]
    BY <2>3
  <2>6. \A p \in 0..iCount' - 1 : idb'[found[i]][p] = g_pLoader
    <3> SUFFICES ASSUME NEW p \in 0..iCount' - 1
                 PROVE  idb'[found[i]][p] = g_pLoader
      OBVIOUS
    <3>1. idb[found[i]] \in [0..Pieces - 1 -> Contents]
      BY <1>2, <2>3 DEF TypeOK, Block
    <3>2. p \in 0..Pieces - 1 /\ (p = iCount \/ p \in 0..iCount - 1)
      BY <1>2, <1>3, <2>1, PiecesAssumption DEF TypeOK
    <3>3. p \in 0..iCount - 1 => idb[found[i]][p] = g_pLoader
      BY <1>2 DEF LoopInv
    <3> QED
      BY <2>3, <3>1, <3>2, <3>3, Zenon
  <2>7. /\ DOMAIN found = 1..Len(found) /\ Len(found) \in Nat /\ i \in 1..Len(found)
        /\ iCount \in Nat
    BY <1>2 DEF TypeOK, LoopInv
  <2>8. /\ write_failed < i - 1 => \E a \in 1..i - 1 : idb'[found[a]] = Image(g_pLoader)
        /\ write_failed = 0 => \A a \in 1..i - 1 : idb'[found[a]] = Image(g_pLoader)
        /\ sound => \A a \in i + 1..Len(found) : Whole(idb'[found[a]])
    <3>1. \A a \in 1..i - 1 : idb'[found[a]] = idb[found[a]]
      BY <2>5, <2>7
    <3>2. \A a \in i + 1..Len(found) : idb'[found[a]] = idb[found[a]]
      BY <2>5, <2>7
    <3> QED
      BY <1>2, <3>1, <3>2, Zenon DEF LoopInv
  <2>9. LoopInv'
    <3>1. Image(g_pLoader)' = Image(g_pLoader)
      BY <2>2 DEF Image
    <3>2. /\ g_pLoader' \in Versions
          /\ i' \in 1..Len(found') /\ write_failed' < i' /\ Len(found') - write_failed' > 1
          /\ iCount' < Pieces
          /\ \A a, b \in DOMAIN found' : a < b => found'[a] < found'[b]
      BY <1>2, <1>3, <2>1, <2>2 DEF LoopInv
    <3>3. \A p \in 0..iCount' - 1 : idb'[found'[i']][p] = g_pLoader'
      BY <2>1, <2>2, <2>6
    <3>4. /\ write_failed' < i' - 1 => \E a \in 1..i' - 1 : idb'[found'[a]] = Image(g_pLoader)'
          /\ write_failed' = 0 => \A a \in 1..i' - 1 : idb'[found'[a]] = Image(g_pLoader)'
      BY <2>1, <2>2, <2>8, <3>1
    <3>5. sound' => \A a \in i' + 1..Len(found') : Whole(idb'[found'[a]])
      BY <1>1, <2>1, <2>2, <2>8
    <3> QED
      BY <3>2, <3>3, <3>4, <3>5, Zenon DEF LoopInv, Whole, Image
  <2>10. sound' => Bootable'
    BY <2>4, <2>9, LoopBootable, PTL
  <2>11. ResultTrue'
    BY <1>1, <2>1 DEF IInv, ResultTrue, NoRet
  <2>12. Cardinality(Given') <= hurt'
    BY <1>1, <1>2, <2>1, <2>2, CountStep DEF TypeOK
  <2> QED
    BY <1>1, <2>1, <2>2, <2>4, <2>9, <2>10, <2>11, <2>12 DEF IInv, SoundUpdateSurvives
<1>4. CASE ~(iCount + 1 < Pieces)
  <2>1. Continue(i + 1, write_failed) /\ tries' = 0
    BY <1>4 DEF WritePiece
  <2>2. iCount + 1 >= Pieces
    BY <1>2, <1>4, PiecesAssumption DEF TypeOK
  <2>3. idb'[found[i]] = Image(g_pLoader)
    BY <1>1, <1>2, <2>2, LastPiece
  <2>4. UNCHANGED found
    BY <1>1 DEF call
  <2>5. /\ hurt' \in Nat /\ retry' \in BOOLEAN /\ tries' \in Nat /\ faults' \in Nat
        /\ hurt' = hurt
    BY <1>1, <1>2, <2>1 DEF TypeOK
  <2>6. Cardinality(Given') <= hurt'
    BY <1>1, <1>2, <2>3, <2>4, <2>5, CountStep
  <2>7. UNCHANGED <<misc, image, call, sound, losses, requests>>
    BY <1>1
  <2> QED
    BY <1>1, <1>2, <2>1, <2>3, <2>5, <2>6, <2>7, LoopStep
<1> QED
    BY <1>3, <1>4

(* A piece fails: the copy is tried again or given up.                     *)
LEMMA PieceFailsInv == IInv /\ PieceFails => IInv'
<1> SUFFICES ASSUME IInv, PieceFails PROVE IInv'
    OBVIOUS
<1>1. /\ pc = "write" /\ CopyFails
      /\ UNCHANGED <<misc, image, call, sound, losses, requests>>
    BY DEF PieceFails
<1>2. PICK c \in Contents : Program(c)
    BY DEF PieceFails
<1>3. TypeOK /\ found' = found
    BY <1>1 DEF IInv, call
<1>4. faults' \in Nat
    BY <1>3 DEF PieceFails, Fault, TypeOK
<1>5. retry' \in BOOLEAN
    BY <1>1 DEF CopyFails
<1>6. CASE retry'
  <2>1. Continue(i, write_failed) /\ tries' = tries + 1 /\ hurt' = hurt
    BY <1>1, <1>6 DEF CopyFails
  <2>2. hurt' \in Nat /\ tries' \in Nat
    BY <1>3, <2>1 DEF TypeOK
  <2>3. pc' = "write" /\ i' = i
    BY <1>1, <1>3, <2>1 DEF Continue, IInv, LoopInv, TypeOK
  <2>4. Cardinality(Given') <= hurt'
    BY <1>1, <1>2, <1>3, <2>1, <2>2, <2>3, CountStep
  <2> QED
    BY <1>1, <1>2, <1>4, <1>5, <2>1, <2>2, <2>4, LoopStep
<1>7. CASE ~retry'
  <2>1. Continue(i + 1, write_failed + 1) /\ tries' = 0 /\ hurt' = hurt + 1
    BY <1>1, <1>7 DEF CopyFails
  <2>2. hurt' \in Nat /\ tries' \in Nat
    BY <1>3, <2>1 DEF TypeOK
  <2>3. Cardinality(Given') <= hurt'
    BY <1>1, <1>2, <1>3, <2>1, <2>2, CountStep
  <2> QED
    BY <1>1, <1>2, <1>4, <1>5, <2>1, <2>2, <2>3, LoopStep
<1> QED
    BY <1>6, <1>7

(* misc is cleared.                                                        *)
LEMMA DisposeInv == IInv /\ dispose_bootloader_cmd => IInv'
<1> SUFFICES ASSUME IInv, dispose_bootloader_cmd PROVE IInv'
    OBVIOUS
<1>1. pc = "clear" /\ UNCHANGED <<idb, image, sound, hurt, losses, requests>>
    BY DEF dispose_bootloader_cmd
<1>2. faults' \in Nat
    BY DEF dispose_bootloader_cmd, Fault, IInv, TypeOK
<1>3. misc' \in {Message(list) : list \in Lists} \union {NoCmd}
    BY DEF dispose_bootloader_cmd, IInv, TypeOK
<1>4. CASE reboot
  <2>1. pc' = "off" /\ ColdStart
    BY <1>4 DEF dispose_bootloader_cmd
  <2>2. TypeOK'
    BY <1>1, <1>2, <1>3, <2>1, ColdType DEF IInv, TypeOK
  <2>3. iRet' = NoRet /\ iRet' \notin {0, -5}
    BY <2>1, ColdType DEF NoRet
  <2> QED
    BY <1>1, <2>1, <2>2, <2>3, QuietStep
<1>5. CASE ~reboot
  <2>1. pc' = "up" /\ UNCHANGED <<todo, reboot, call, loop, iRet>>
    BY <1>5 DEF dispose_bootloader_cmd
  <2>2. UNCHANGED <<todo, reboot, dataLoaded, g_pLoader, found, i, write_failed, retry,
                    iCount, tries, iRet>>
    BY <2>1 DEF call, loop
  <2>3. TypeOK'
    BY <1>1, <1>2, <1>3, <2>1, <2>2 DEF IInv, TypeOK
  <2> QED
    BY <1>1, <2>1, <2>2, <2>3, QuietStep
<1> QED
    BY <1>4, <1>5

(* Power fails.                                                            *)
LEMMA PowerLossInv == IInv /\ PowerLoss => IInv'
<1> SUFFICES ASSUME IInv, PowerLoss PROVE IInv'
    OBVIOUS
<1>1. /\ pc' = "off" /\ ColdStart /\ losses' = losses + 1
      /\ UNCHANGED <<image, sound, faults, requests>>
    BY DEF PowerLoss
<1>2. misc' \in {Message(list) : list \in Lists} \union {NoCmd}
    BY DEF PowerLoss, IInv, TypeOK
<1>3. iRet' = NoRet /\ iRet' \notin {0, -5}
    BY <1>1, ColdType DEF NoRet
<1>4. CASE pc # "write"
  <2>1. UNCHANGED <<idb, hurt>>
    BY <1>4 DEF PowerLoss
  <2>2. TypeOK'
    BY <1>1, <1>2, <2>1, ColdType DEF IInv, TypeOK
  <2> QED
    BY <1>1, <1>3, <1>4, <2>1, <2>2, QuietStep
<1>5. CASE pc = "write"
  <2>1. PICK c \in Contents : Program(c)
    BY <1>5 DEF PowerLoss
  <2>2. hurt' = hurt + 1
    BY <1>5 DEF PowerLoss
  <2>3. TypeOK /\ LoopInv
    BY <1>5 DEF IInv
  <2>4. /\ found[i] \in Blocks
        /\ idb' \in [Blocks -> Block]
        /\ \A b \in Blocks : b # found[i] => idb'[b] = idb[b]
        /\ \A a \in DOMAIN found : /\ found[a] \in Blocks
                                   /\ a # i => found[a] # found[i]
    BY <2>1, <2>3, ProgramEffect, Zenon
  <2>5. TypeOK'
    BY <1>1, <1>2, <2>2, <2>4, ColdType DEF IInv, TypeOK
  <2>6. SoundUpdateSurvives'
    <3> SUFFICES ASSUME sound PROVE Bootable'
      BY <1>1 DEF SoundUpdateSurvives
    <3>1. PICK a \in DOMAIN found : a # i /\ found[a] \in Blocks /\ Whole(idb[found[a]])
      BY <2>3, LoopSpare
    <3>2. idb'[found[a]] = idb[found[a]]
      BY <2>4, <3>1
    <3>3. Whole(idb'[found[a]])
      BY <3>1, <3>2
    <3> QED
      BY <3>1, <3>3, Zenon DEF Bootable, Whole, Image, Blocks
  <2>7. Cardinality(Given') <= hurt'
    <3>1. /\ Broken' \subseteq Given \union {found[i]}
          /\ Given \in SUBSET Blocks /\ found[i] \in Blocks
      BY <1>5, <2>1, <2>3, BrokenStep
    <3>2. Given' \in SUBSET (Given \union {found[i]})
      BY <1>1, <3>1 DEF Given
    <3>3. Cardinality(Given') <= Cardinality(Given) + 1
      BY <3>1, <3>2, CardAdd
    <3>4. Cardinality(Given') \in Nat /\ Cardinality(Given) \in Nat
      BY <3>1, <3>2, CardSub
    <3>5. Cardinality(Given) <= hurt /\ hurt \in Nat
      BY DEF IInv, TypeOK
    <3> QED
      BY <2>2, <3>3, <3>4, <3>5
  <2>8. ResultTrue'
    BY <1>3 DEF ResultTrue
  <2> QED
    BY <1>1, <1>3, <2>5, <2>6, <2>7, <2>8 DEF IInv
<1> QED
    BY <1>4, <1>5

(* Steps that change nothing.                                              *)
LEMMA StutterInv == IInv /\ UNCHANGED vars => IInv'
<1> SUFFICES ASSUME IInv, UNCHANGED vars PROVE IInv'
    OBVIOUS
<1>1. UNCHANGED <<idb, misc, image, pc, todo, reboot, dataLoaded, g_pLoader, found, i,
                  write_failed, retry, iCount, tries, iRet, sound, hurt, losses, faults,
                  requests>>
    BY DEF vars, medium, call, loop, bounds
<1>2. TypeOK'
    BY <1>1 DEF IInv, TypeOK
<1>3. CASE pc # "write"
    BY <1>1, <1>2, <1>3, QuietStep DEF IInv
<1>4. CASE pc = "write"
  <2>1. LoopInv'
    BY <1>1, <1>4, Zenon DEF IInv, LoopInv, Whole, Image
  <2>2. SoundUpdateSurvives'
    BY <1>1 DEF IInv, SoundUpdateSurvives, Bootable, Whole, Image, Blocks
  <2>3. ResultTrue'
    BY <1>1, <1>4 DEF IInv, ResultTrue, NoRet
  <2>4. Given' = Given
    BY <1>1 DEF Given, Broken, Whole, Image, Blocks
  <2> QED
    BY <1>1, <1>2, <1>4, <2>1, <2>2, <2>3, <2>4 DEF IInv
<1> QED
    BY <1>3, <1>4

(* The inductive invariant holds in every reachable state.                 *)
THEOREM Inductive == Spec => []IInv
<1>1. IInv /\ [Next]_vars => IInv'
  <2> SUFFICES ASSUME IInv, [Next]_vars PROVE IInv'
    OBVIOUS
  <2>1. CASE Firmware
    BY <2>1, PowerOnInv, MiscInv, ExecuteInv, GetBootFailsInv, UpdateInv,
       WritePieceInv, PieceFailsInv, DisposeInv DEF Firmware
  <2>2. CASE Environment
    BY <2>2, RequestInv, StoreImageInv, PowerLossInv DEF Environment
  <2>3. CASE UNCHANGED vars
    BY <2>3, StutterInv
  <2> QED
    BY <2>1, <2>2, <2>3 DEF Next
<1> QED
    BY <1>1, InitInv, PTL DEF Spec

(* An update that begins with whole copies never leaves the board without  *)
(* a loader, whatever fails in WriteXIDBlock and whenever power is lost.   *)
THEOREM UpdateSurvives == Spec => []SoundUpdateSurvives
<1>1. IInv => SoundUpdateSurvives
    BY DEF IInv
<1> QED
    BY <1>1, Inductive, PTL

(* What rkidb_update_loader returns is true of the id blocks.              *)
THEOREM ResultIsTrue == Spec => []ResultTrue
<1>1. IInv => ResultTrue
    BY DEF IInv
<1> QED
    BY <1>1, Inductive, PTL

(* The copies that are not whole are no more than the copies given up and  *)
(* the power losses during a write, over any number of updates, besides    *)
(* the one being written.                                                  *)
THEOREM Degradation == Spec => []OneCopyPerMishap
<1>1. IInv => OneCopyPerMishap
  <2> SUFFICES ASSUME IInv PROVE OneCopyPerMishap
    OBVIOUS
  <2>1. Cardinality(Given) <= hurt /\ hurt \in Nat /\ Broken \in SUBSET Blocks
    BY DEF IInv, TypeOK, Broken
  <2>2. CASE pc = "write"
    <3>1. found[i] \in Blocks
      BY <2>2 DEF IInv, TypeOK, LoopInv
    <3>2. Given \in SUBSET Blocks /\ Broken \in SUBSET (Given \union {found[i]})
      BY <2>1, <2>2 DEF Given
    <3>3. Cardinality(Broken) <= Cardinality(Given) + 1
      BY <3>1, <3>2, CardAdd
    <3>4. Cardinality(Broken) \in Nat /\ Cardinality(Given) \in Nat
      BY <2>1, <3>2, CardSub
    <3> QED
      BY <2>1, <2>2, <3>3, <3>4 DEF OneCopyPerMishap
  <2>3. CASE pc # "write"
    <3>1. Given = Broken
      BY <2>3 DEF Given
    <3> QED
      BY <2>1, <2>3, <3>1 DEF OneCopyPerMishap
  <2> QED
    BY <2>2, <2>3
<1> QED
    BY <1>1, Inductive, PTL

(* A copy that has failed once is the one retry stands for.                *)
RetryInv == (retry = FALSE /\ tries = 0) \/ (retry = TRUE /\ tries \in {0, 1})

(* No copy is tried a third time: retry, although it is toggled and not    *)
(* kept per copy, is never found cleared after one failure of a copy       *)
(* (WriteXIDBlock).                                                        *)
THEOREM TriedTwice == Spec => []TriedTwiceAtMost
<1>1. Init => RetryInv
    BY DEF Init, RetryInv
<1>2. RetryInv /\ [Next]_vars => RetryInv'
  <2> SUFFICES ASSUME RetryInv, [Next]_vars PROVE RetryInv'
    OBVIOUS
  <2> USE DEF RetryInv
  <2>1. CASE PowerOn \/ rkloader_run_misc_cmd \/ execute_cmd \/ get_rk28boot_fails
    BY <2>1 DEF PowerOn, rkloader_run_misc_cmd, execute_cmd, get_rk28boot_fails, loop
  <2>2. CASE rkidb_update_loader
    BY <2>2, Zenon DEF rkidb_update_loader, loop
  <2>3. CASE WritePiece
    BY <2>3 DEF WritePiece
  <2>4. CASE PieceFails
    <3>1. CASE retry = FALSE
      <4>1. retry' = TRUE /\ tries' = tries + 1
        BY <2>4, <3>1, Zenon DEF PieceFails, CopyFails
      <4> QED
        BY <3>1, <4>1
    <3>2. CASE retry = TRUE
      <4>1. retry' = FALSE /\ tries' = 0
        BY <2>4, <3>2, Zenon DEF PieceFails, CopyFails
      <4> QED
        BY <4>1
    <3> QED
      BY <3>1, <3>2, Zenon
  <2>5. CASE dispose_bootloader_cmd
    BY <2>5 DEF dispose_bootloader_cmd, ColdStart, loop
  <2>6. CASE Environment
    BY <2>6 DEF Environment, RequestUpdate, rkimage_store_image, PowerLoss, ColdStart, loop
  <2>7. CASE UNCHANGED vars
    BY <2>7 DEF vars, loop
  <2> QED
    BY <2>1, <2>2, <2>3, <2>4, <2>5, <2>6, <2>7, Zenon DEF Next, Firmware
<1>3. RetryInv => TriedTwiceAtMost
    BY DEF RetryInv, TriedTwiceAtMost
<1> QED
    BY <1>1, <1>2, <1>3, PTL DEF Spec
=============================================================================
