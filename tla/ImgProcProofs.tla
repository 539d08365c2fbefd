---------------------------- MODULE ImgProcProofs ----------------------------
(***************************************************************************)
(* The image processor releases what it acquires once and in order, for     *)
(* every plugin directory, every argument, every file and every failure;    *)
(* the plugins keep to the images they are given and make of them what      *)
(* their descriptions promise.                                             *)
(***************************************************************************)
EXTENDS ImgProc, SequenceTheorems, WellFoundedInduction, TLAPS

\* What main holds when it comes to each place.
HeldAt(p) ==
  CASE p = "main" -> {}
    [] p = "opendir" -> {"list"}
    [] p = "readdir" -> {"list", "dir"}
    [] p \in {"print", "find", "parse"} -> {"list"}
    [] p = "open" -> {"list", "args"}
    [] p \in {"colour", "alloc"} -> {"list", "args", "png"}
    [] p \in {"getdata", "create"} -> {"list", "args", "png", "pixels"}
    [] p = "transform" -> {"list", "args", "in"}
    [] p = "write" -> {"list", "in", "out"}
    [] p = "setdata" -> {"list", "in", "out", "png", "pixels"}
    [] OTHER -> {}

Loading == {"main", "opendir", "readdir", "print", "find", "parse"}
Reading == {"open", "colour", "alloc", "getdata", "create"}
Writing == {"transform", "write", "setdata"}
Ending == {"destroy", "exited"}

Fate(H) == [r \in Resource |-> IF r \in H THEN "held" ELSE "free"]

\* Plugins are unloaded at the end only, and each open handle is one of theirs.
Handles ==
  /\ libs \in Seq(Plugin) /\ closed \in 0 .. Len(libs)
  /\ pc \notin Ending => closed = 0
  /\ pc # "exited" => open = Len(libs) - closed
  /\ pc = "main" => libs = <<>>
  /\ pc = "exited" /\ status = 0 => open = 0

\* How far the work has come tells which of the arguments and images exist.
Stages ==
  /\ pc \in Loading \cup Reading \cup Writing \cup Ending
  /\ status \in {0, 1}
  /\ pc \notin Ending => status = 0
  /\ pc \in Loading => args = Null /\ png = Null /\ in = Null
  /\ pc \in Reading => args # Null /\ in = Null
  /\ pc = "open" => png = Null

Fates ==
  /\ pc \notin Ending => life = Fate(HeldAt(pc))
  /\ pc = "destroy" => \E H \in SUBSET Leaks : life = Fate({"list"} \cup H)
  /\ pc = "destroy" /\ status = 0 => life = Fate({"list"})
  /\ pc = "exited" => \E H \in SUBSET Resource : life = Fate(H)
  /\ pc = "exited" /\ status = 0 => life = Fate({})

IInv == Handles /\ Stages /\ Fates

-----------------------------------------------------------------------------

\* The three ways to go on.
LEMMA Going ==
  ASSUME pc' \notin Ending, life' = Fate(HeldAt(pc'))
  PROVE  Fates'
BY DEF Fates, Ending

LEMMA Cleaning ==
  ASSUME pc' = "destroy", NEW H \in SUBSET Leaks', life' = Fate({"list"} \cup H),
         status' = 1 \/ H = {}
  PROVE  Fates'
BY DEF Fates, Ending

LEMMA Exiting ==
  ASSUME pc' = "exited", NEW H \in SUBSET Resource, life' = Fate(H), status' = 1 \/ H = {}
  PROVE  Fates'
BY DEF Fates, Ending

\* IInv has what the two properties say.
LEMMA Implied == IInv => InOrder /\ Released
<1> SUFFICES ASSUME IInv PROVE InOrder /\ Released
  OBVIOUS
<1>1. PICK H : life = Fate(H)
  <2>1. CASE pc \notin Ending
    BY <2>1 DEF IInv, Fates
  <2>2. CASE pc = "destroy"
    BY <2>2 DEF IInv, Fates
  <2>3. CASE pc = "exited"
    BY <2>3 DEF IInv, Fates
  <2> QED
    BY <2>1, <2>2, <2>3 DEF Ending
<1>2. InOrder
  BY <1>1 DEF InOrder, Fate, IInv, Handles, Ending
<1>3. ASSUME pc = "destroy" PROVE Held \subseteq {"list"} \cup Leaks
  BY <1>3 DEF IInv, Fates, Held, Fate
<1>4. ASSUME pc = "exited", status = 0 PROVE Held = {} /\ open = 0
  BY <1>4 DEF IInv, Fates, Handles, Held, Fate
<1> QED
  BY <1>2, <1>3, <1>4 DEF Released

LEMMA InitIInv == Init => IInv
<1> SUFFICES ASSUME Init PROVE IInv
  OBVIOUS
<1>1. Handles /\ Stages
  BY DEF Init, Handles, Stages, Ending, Loading, Reading, Writing
<1>2. life = Fate({})
  BY DEF Init, Fate
<1>3. Fates
  BY <1>2 DEF Init, Fates, HeldAt, Ending
<1> QED
  BY <1>1, <1>3 DEF IInv

-----------------------------------------------------------------------------

\* Each step keeps the three parts.
LEMMA NextIInv == IInv /\ [Next]_vars => IInv'
<1> SUFFICES ASSUME IInv, [Next]_vars PROVE IInv'
  OBVIOUS
<1> USE DEF IInv, At, Go, Exit, CleanUp, work, loaded, Loading, Reading, Writing, Ending
<1>1. CASE \E c \in {"none", "unknown", "list", "exec"} : Main(c)
  <2>1. Handles'
    BY <1>1 DEF Main, Handles, Stages
  <2>2. Stages'
    BY <1>1 DEF Main, Stages
  <2>3. Fates'
    <3>1. life = Fate({})
      BY <1>1 DEF Main, Fates, HeldAt
    <3>2. CASE pc' = "exited"
      BY <1>1, <3>1, <3>2, Exiting DEF Main
    <3>3. CASE pc' = "opendir"
      <4>1. life' = Fate({"list"})
        BY <1>1, <3>1, <3>3 DEF Main, Fate, Touch, Resource
      <4> QED
        BY <3>3, <4>1, Going DEF HeldAt
    <3> QED
      BY <1>1, <3>2, <3>3 DEF Main
  <2> QED
    BY <2>1, <2>2, <2>3
<1>2. CASE \E dir \in Dirs : OpenDir(dir)
  <2>1. Handles'
    BY <1>2 DEF OpenDir, Handles, Stages
  <2>2. Stages'
    BY <1>2 DEF OpenDir, Stages
  <2>3. Fates'
    BY <1>2 DEF OpenDir, Fates, Stages, HeldAt, Fate, Touch, Resource
  <2> QED
    BY <2>1, <2>2, <2>3
<1>3. CASE OpenDirFails
  <2>1. Handles'
    BY <1>3 DEF OpenDirFails, Handles, Stages
  <2>2. Stages'
    BY <1>3 DEF OpenDirFails, Stages
  <2>3. Fates'
    <3>1. life' = Fate({"list"})
      BY <1>3 DEF OpenDirFails, Fates, HeldAt, Fate, Touch, Resource
    <3> QED
      BY <1>3, <3>1, Exiting DEF OpenDirFails, Resource
  <2> QED
    BY <2>1, <2>2, <2>3
<1>4. CASE SkipEntry
  <2>1. Handles'
    BY <1>4 DEF SkipEntry, ReadDir, Handles, Stages
  <2>2. Stages'
    BY <1>4 DEF SkipEntry, ReadDir, Stages
  <2>3. Fates'
    BY <1>4 DEF SkipEntry, ReadDir, Fates, Stages, HeldAt, Fate, Touch, Resource
  <2> QED
    BY <2>1, <2>2, <2>3
<1>5. CASE LoadPlugin
  <2>1. Handles'
    BY <1>5 DEF LoadPlugin, ReadDir, Handles, Stages
  <2>2. Stages'
    BY <1>5 DEF LoadPlugin, ReadDir, Stages
  <2>3. Fates'
    BY <1>5 DEF LoadPlugin, ReadDir, Fates, Stages, HeldAt, Fate, Touch, Resource
  <2> QED
    BY <2>1, <2>2, <2>3
<1>6. CASE LoadFails
  <2>1. Handles'
    BY <1>6 DEF LoadFails, ReadDir, Handles, Stages
  <2>2. Stages'
    BY <1>6 DEF LoadFails, ReadDir, Stages
  <2>3. Fates'
    <3>1. life' = Fate({"list", "dir"})
      BY <1>6 DEF LoadFails, ReadDir, Fates, HeldAt, Fate, Touch, Resource
    <3> QED
      BY <1>6, <3>1, Exiting DEF LoadFails, ReadDir, Resource
  <2> QED
    BY <2>1, <2>2, <2>3
<1>7. CASE CloseDir
  <2>1. Handles'
    BY <1>7 DEF CloseDir, Handles, Stages
  <2>2. Stages'
    BY <1>7 DEF CloseDir, Stages
  <2>3. Fates'
    BY <1>7 DEF CloseDir, Fates, Stages, HeldAt, Fate, Touch, Resource
  <2> QED
    BY <2>1, <2>2, <2>3
<1>8. CASE CloseDirFails
  <2>1. Handles'
    BY <1>8 DEF CloseDirFails, Handles, Stages
  <2>2. Stages'
    BY <1>8 DEF CloseDirFails, Stages
  <2>3. Fates'
    <3>1. life' = Fate({"list", "dir"})
      BY <1>8 DEF CloseDirFails, Fates, HeldAt, Fate, Touch, Resource
    <3> QED
      BY <1>8, <3>1, Exiting DEF CloseDirFails, Resource
  <2> QED
    BY <2>1, <2>2, <2>3
<1>9. CASE PrintPlugins
  <2>1. Handles'
    BY <1>9 DEF PrintPlugins, Handles, Stages
  <2>2. Stages'
    BY <1>9 DEF PrintPlugins, Stages
  <2>3. Fates'
    <3>1. life' = Fate({"list"} \cup {})
      BY <1>9 DEF PrintPlugins, Fates, HeldAt, Fate, Touch, Resource
    <3> QED
      BY <1>9, <3>1, Cleaning DEF PrintPlugins
  <2> QED
    BY <2>1, <2>2, <2>3
<1>10. CASE \E name \in Plugin : FindPlugin(name)
  <2>1. Handles'
    BY <1>10 DEF FindPlugin, Handles, Stages
  <2>2. Stages'
    BY <1>10 DEF FindPlugin, Stages
  <2>3. Fates'
    BY <1>10 DEF FindPlugin, Fates, Stages, HeldAt, Fate, Touch, Resource
  <2> QED
    BY <2>1, <2>2, <2>3
<1>11. CASE \E argv \in Argvs : ParseArguments(argv)
  <2>1. Handles'
    BY <1>11 DEF ParseArguments, Handles, Stages
  <2>2. Stages'
    <3>1. PICK argv \in Argvs : ParseArguments(argv)
      BY <1>11
    <3>2. PICK result \in Parsed(my, argv) :
            IF result = Null THEN UNCHANGED args /\ CleanUp(1) ELSE args' = result /\ Go("open")
      BY <3>1 DEF ParseArguments
    <3> QED
      BY <3>1, <3>2 DEF ParseArguments, Stages
  <2>3. Fates'
    <3>1. CASE pc' = "destroy"
      <4>1. life' = Fate({"list"} \cup {})
        BY <1>11, <3>1 DEF ParseArguments, Fates, HeldAt, Fate, Touch, Resource
      <4>2. {} \in SUBSET Leaks'
        BY <1>11 DEF ParseArguments, Stages, Leaks
      <4>3. status' = 1
        BY <1>11, <3>1 DEF ParseArguments
      <4> QED
        BY <3>1, <4>1, <4>2, <4>3, Cleaning
    <3>2. CASE pc' = "open"
      <4>1. life' = Fate(HeldAt("open"))
        BY <1>11, <3>2 DEF ParseArguments, Fates, HeldAt, Fate, Touch, Resource
      <4> QED
        BY <3>2, <4>1, Going
    <3> QED
      BY <1>11, <3>1, <3>2 DEF ParseArguments
  <2> QED
    BY <2>1, <2>2, <2>3
<1>12. CASE \E file \in Files : OpenPng(file)
  <2>1. Handles'
    BY <1>12 DEF OpenPng, Handles, Stages
  <2>2. Stages'
    BY <1>12 DEF OpenPng, Stages
  <2>3. Fates'
    BY <1>12 DEF OpenPng, Fates, Stages, HeldAt, Fate, Touch, Resource
  <2> QED
    BY <2>1, <2>2, <2>3
<1>13. CASE OpenPngFails
  <2>1. Handles'
    BY <1>13 DEF OpenPngFails, Handles, Stages
  <2>2. Stages'
    BY <1>13 DEF OpenPngFails, Stages
  <2>3. Fates'
    <3>1. PICK opened \in SUBSET {"png"} : Touch({}, opened, {})
      BY <1>13 DEF OpenPngFails
    <3>2. life = Fate({"list", "args"})
      BY <1>13 DEF OpenPngFails, Fates, HeldAt
    <3>3. life' = Fate({"list"} \cup ({"args"} \cup opened))
      BY <3>1, <3>2 DEF Touch, Fate, Resource
    <3>4. {"args"} \cup opened \in SUBSET Leaks'
      BY <1>13, <3>1 DEF OpenPngFails, Stages, Leaks
    <3> QED
      BY <1>13, <3>3, <3>4, Cleaning DEF OpenPngFails
  <2> QED
    BY <2>1, <2>2, <2>3
<1>14. CASE ColourType
  <2>1. Handles'
    BY <1>14 DEF ColourType, Handles, Stages
  <2>2. Stages'
    BY <1>14 DEF ColourType, Stages
  <2>3. Fates'
    <3>1. CASE pc' = "destroy"
      <4>1. life' = Fate({"list"} \cup {"args"})
        BY <1>14, <3>1 DEF ColourType, Fates, HeldAt, Fate, Touch, Resource
      <4>2. {"args"} \in SUBSET Leaks'
        BY <1>14 DEF ColourType, Stages, Leaks
      <4>3. status' = 1
        BY <1>14, <3>1 DEF ColourType
      <4> QED
        BY <3>1, <4>1, <4>2, <4>3, Cleaning
    <3>2. CASE pc' = "alloc"
      <4>1. life' = Fate(HeldAt("alloc"))
        BY <1>14, <3>2 DEF ColourType, Fates, HeldAt, Fate, Touch, Resource
      <4> QED
        BY <3>2, <4>1, Going
    <3> QED
      BY <1>14, <3>1, <3>2 DEF ColourType
  <2> QED
    BY <2>1, <2>2, <2>3
<1>15. CASE AllocPixels
  <2>1. Handles'
    BY <1>15 DEF AllocPixels, Handles, Stages
  <2>2. Stages'
    BY <1>15 DEF AllocPixels, Stages
  <2>3. Fates'
    <3>1. CASE pc' = "destroy"
      <4>1. life' = Fate({"list"} \cup {"args"})
        BY <1>15, <3>1 DEF AllocPixels, Fates, HeldAt, Fate, Touch, Resource
      <4>2. {"args"} \in SUBSET Leaks'
        BY <1>15 DEF AllocPixels, Stages, Leaks
      <4>3. status' = 1
        BY <1>15, <3>1 DEF AllocPixels
      <4> QED
        BY <3>1, <4>1, <4>2, <4>3, Cleaning
    <3>2. CASE pc' = "getdata"
      <4>1. life' = Fate(HeldAt("getdata"))
        BY <1>15, <3>2 DEF AllocPixels, Fates, HeldAt, Fate, Touch, Resource
      <4> QED
        BY <3>2, <4>1, Going
    <3> QED
      BY <1>15, <3>1, <3>2 DEF AllocPixels
  <2> QED
    BY <2>1, <2>2, <2>3
<1>16. CASE GetData
  <2>1. Handles'
    BY <1>16 DEF GetData, Handles, Stages
  <2>2. Stages'
    BY <1>16 DEF GetData, Stages
  <2>3. Fates'
    <3>1. CASE pc' = "destroy"
      <4>1. life' = Fate({"list"} \cup {"args"})
        BY <1>16, <3>1 DEF GetData, Fates, HeldAt, Fate, Touch, Resource
      <4>2. {"args"} \in SUBSET Leaks'
        BY <1>16 DEF GetData, Stages, Leaks
      <4>3. status' = 1
        BY <1>16, <3>1 DEF GetData
      <4> QED
        BY <3>1, <4>1, <4>2, <4>3, Cleaning
    <3>2. CASE pc' = "create"
      <4>1. life' = Fate(HeldAt("create"))
        BY <1>16, <3>2 DEF GetData, Fates, HeldAt, Fate, Touch, Resource
      <4> QED
        BY <3>2, <4>1, Going
    <3> QED
      BY <1>16, <3>1, <3>2 DEF GetData
  <2> QED
    BY <2>1, <2>2, <2>3
<1>17. CASE CreateImage
  <2>1. Handles'
    BY <1>17 DEF CreateImage, Handles, Stages
  <2>2. Stages'
    BY <1>17 DEF CreateImage, Stages
  <2>3. Fates'
    <3>1. CASE pc' = "destroy"
      <4>1. life' = Fate({"list"} \cup {"args"})
        BY <1>17, <3>1 DEF CreateImage, Fates, HeldAt, Fate, Touch, Resource
      <4>2. {"args"} \in SUBSET Leaks'
        BY <1>17, <3>1 DEF CreateImage, Stages, Leaks
      <4>3. status' = 1
        BY <1>17, <3>1 DEF CreateImage
      <4> QED
        BY <3>1, <4>1, <4>2, <4>3, Cleaning
    <3>2. CASE pc' = "transform"
      <4>1. life' = Fate(HeldAt("transform"))
        BY <1>17, <3>2 DEF CreateImage, Fates, HeldAt, Fate, Touch, Resource
      <4> QED
        BY <3>2, <4>1, Going
    <3> QED
      BY <1>17, <3>1, <3>2 DEF CreateImage
  <2> QED
    BY <2>1, <2>2, <2>3
<1>18. CASE TransformImage
  <2>1. Handles'
    BY <1>18 DEF TransformImage, Handles, Stages
  <2>2. Stages'
    BY <1>18 DEF TransformImage, Stages
  <2>3. Fates'
    <3>1. CASE pc' = "destroy"
      <4>1. life' = Fate({"list"} \cup {})
        BY <1>18, <3>1 DEF TransformImage, Fates, HeldAt, Fate, Touch, Resource
      <4>2. {} \in SUBSET Leaks'
        BY <1>18 DEF TransformImage, Stages, Leaks
      <4>3. status' = 1
        BY <1>18, <3>1 DEF TransformImage
      <4> QED
        BY <3>1, <4>1, <4>2, <4>3, Cleaning
    <3>2. CASE pc' = "write"
      <4>1. life' = Fate(HeldAt("write"))
        BY <1>18, <3>2 DEF TransformImage, Fates, HeldAt, Fate, Touch, Resource
      <4> QED
        BY <3>2, <4>1, Going
    <3> QED
      BY <1>18, <3>1, <3>2 DEF TransformImage
  <2> QED
    BY <2>1, <2>2, <2>3
<1>19. CASE OpenOutput
  <2>1. Handles'
    BY <1>19 DEF OpenOutput, Handles, Stages
  <2>2. Stages'
    BY <1>19 DEF OpenOutput, Stages
  <2>3. Fates'
    <3>1. CASE pc' = "destroy"
      <4>1. life' = Fate({"list"} \cup {})
        BY <1>19, <3>1 DEF OpenOutput, Fates, HeldAt, Fate, Touch, Resource
      <4>2. {} \in SUBSET Leaks'
        BY <1>19 DEF OpenOutput, Stages, Leaks
      <4>3. status' = 1
        BY <1>19, <3>1 DEF OpenOutput
      <4> QED
        BY <3>1, <4>1, <4>2, <4>3, Cleaning
    <3>2. CASE pc' = "setdata"
      <4>1. life' = Fate(HeldAt("setdata"))
        BY <1>19, <3>2 DEF OpenOutput, Fates, HeldAt, Fate, Touch, Resource
      <4> QED
        BY <3>2, <4>1, Going
    <3> QED
      BY <1>19, <3>1, <3>2 DEF OpenOutput
  <2> QED
    BY <2>1, <2>2, <2>3
<1>20. CASE SetData
  <2>1. Handles'
    BY <1>20 DEF SetData, Handles, Stages
  <2>2. Stages'
    BY <1>20 DEF SetData, Stages
  <2>3. Fates'
    <3>1. life' = Fate({"list"} \cup {})
      BY <1>20 DEF SetData, Fates, HeldAt, Fate, Touch, Resource
    <3> QED
      BY <1>20, <3>1, Cleaning DEF SetData
  <2> QED
    BY <2>1, <2>2, <2>3
<1>21. CASE DlClose
  <2>1. Handles'
    BY <1>21 DEF DlClose, Handles, Stages
  <2>2. Stages'
    BY <1>21 DEF DlClose, Stages
  <2>3. Fates'
    <3>1. PICK H \in SUBSET Leaks : life = Fate({"list"} \cup H)
      BY <1>21 DEF DlClose, Fates
    <3>2. life' = life
      BY <1>21, <3>1 DEF DlClose, Touch, Fate, Resource
    <3>3. CASE pc' = "exited"
      <4>1. {"list"} \cup H \in SUBSET Resource
        BY <3>1 DEF Leaks, Resource
      <4> QED
        BY <1>21, <3>1, <3>2, <3>3, <4>1, Exiting DEF DlClose
    <3>4. CASE pc' = "destroy"
      BY <1>21, <3>1, <3>2, <3>4 DEF DlClose, Fates, Leaks
    <3> QED
      BY <1>21, <3>3, <3>4 DEF DlClose
  <2> QED
    BY <2>1, <2>2, <2>3
<1>22. CASE FreeList
  <2>1. Handles'
    BY <1>22 DEF FreeList, Handles, Stages
  <2>2. Stages'
    BY <1>22 DEF FreeList, Stages
  <2>3. Fates'
    <3>1. PICK H \in SUBSET Leaks : life = Fate({"list"} \cup H)
      BY <1>22 DEF FreeList, Fates
    <3>2. H \in SUBSET Resource
      BY <3>1 DEF Leaks, Resource
    <3>3. life' = Fate(H)
      BY <1>22, <3>1 DEF FreeList, Touch, Fate, Resource, Leaks
    <3>4. status = 0 => life' = Fate({})
      BY <1>22 DEF FreeList, Touch, Fate, Resource, Fates
    <3>5. status \in {0, 1}
      BY <1>22 DEF FreeList, Stages
    <3> QED
      BY <1>22, <3>2, <3>3, <3>4, <3>5, Exiting DEF FreeList
  <2> QED
    BY <2>1, <2>2, <2>3
<1>23. CASE UNCHANGED vars
  BY <1>23 DEF vars, Handles, Stages, Fates, Leaks
<1> QED
  BY <1>1, <1>2, <1>3, <1>4, <1>5, <1>6, <1>7, <1>8, <1>9, <1>10, <1>11, <1>12, <1>13,
     <1>14, <1>15, <1>16, <1>17, <1>18, <1>19, <1>20, <1>21, <1>22, <1>23 DEF Next

LEMMA Invariant == Spec => []IInv
BY InitIInv, NextIInv, PTL DEF Spec

\* Nothing is released twice or used too late, whatever the directory, the
\* arguments, the file and the calls that fail.
THEOREM NothingTwice == Spec => []InOrder
BY Invariant, Implied, PTL

\* And nothing is forgotten but what Leaks names.
THEOREM NothingForgotten == Spec => []Released
BY Invariant, Implied, PTL

-----------------------------------------------------------------------------
(* Pixels.                                                                  *)

\* A factor keeps the order.
LEMMA TimesKeeps ==
  ASSUME NEW x \in Int, NEW y \in Int, NEW n \in Nat, x <= y
  PROVE  n * x <= n * y
OBVIOUS

\* One more component in front.
LEMMA Stacked ==
  ASSUME NEW n \in Nat \ {0}, NEW v \in Component, NEW rest \in 0 .. n - 1
  PROVE  v + Depth * rest \in 0 .. Depth * n - 1
<1>1. Depth \in Nat /\ Depth > 1 /\ v \in Nat /\ v <= Depth - 1
  BY ImageAssumption DEF Component
<1>2. Depth * rest <= Depth * (n - 1) /\ Depth * rest >= Depth * 0
  BY <1>1, TimesKeeps
<1>3. Depth * (n - 1) = Depth * n - Depth
  BY <1>1
<1> QED BY <1>1, <1>2, <1>3

\* img_pack_pixel: four components fit one pixel.
LEMMA PackType ==
  ASSUME NEW r \in Component, NEW g \in Component, NEW b \in Component, NEW a \in Component
  PROVE  Pack(r, g, b, a) \in Pixel
<1>1. Depth \in Nat \ {0} /\ Depth * Depth \in Nat \ {0} /\ Depth * (Depth * Depth) \in Nat \ {0}
  BY ImageAssumption
<1>2. a \in 0 .. Depth - 1
  BY DEF Component
<1>3. b + Depth * a \in 0 .. Depth * Depth - 1
  BY <1>1, <1>2, Stacked
<1>4. g + Depth * (b + Depth * a) \in 0 .. Depth * (Depth * Depth) - 1
  BY <1>1, <1>3, Stacked
<1>5. Pack(r, g, b, a) \in 0 .. Depth * (Depth * (Depth * Depth)) - 1
  BY <1>1, <1>4, Stacked DEF Pack
<1>6. Depth * (Depth * (Depth * Depth)) = Depth * Depth * Depth * Depth
  BY <1>1
<1> QED BY <1>5, <1>6 DEF Pixel

\* img_unpack_pixel
LEMMA UnpackType ==
  ASSUME NEW pixel \in Int
  PROVE  /\ Unpack(pixel).r \in Component /\ Unpack(pixel).g \in Component
         /\ Unpack(pixel).b \in Component /\ Unpack(pixel).a \in Component
<1>1. \A x \in Int : x % Depth \in Component
  BY ImageAssumption DEF Component
<1>2. Depth \in Nat \ {0} /\ Depth * Depth \in Nat \ {0} /\ Depth * Depth * Depth \in Nat \ {0}
  BY ImageAssumption
<1>3. \A n \in Nat \ {0} : pixel \div n \in Int
  OBVIOUS
<1> QED BY <1>1, <1>2, <1>3 DEF Unpack

\* The two plugins that change pixels.
LEMMA SwapType == ASSUME NEW pixel \in Int PROVE SwapBg(pixel) \in Pixel
BY PackType, UnpackType DEF SwapBg

\* expose caps what would be too bright.
LEMMA ExposeType ==
  ASSUME NEW pixel \in Int, NEW f, f.num \in Nat, f.den \in Nat \ {0}
  PROVE  Expose(pixel, f) \in Pixel
<1> DEFINE Scaled(v) == IF f.num * v > (Depth - 1) * f.den THEN Depth - 1 ELSE (f.num * v) \div f.den
<1>1. Depth \in Nat \ {0, 1}
  BY ImageAssumption
<1>2. ASSUME NEW v \in Component PROVE Scaled(v) \in Component
  <2>1. CASE f.num * v > (Depth - 1) * f.den
    BY <1>1, <2>1 DEF Component
  <2>2. CASE ~(f.num * v > (Depth - 1) * f.den)
    <3>1. f.num * v \in Nat /\ (Depth - 1) * f.den \in Nat
      BY <1>1 DEF Component
    <3>2. /\ (f.num * v) \div f.den \in Nat
          /\ f.den * ((f.num * v) \div f.den) <= f.num * v
      BY <3>1
    <3> DEFINE q == (f.num * v) \div f.den
    <3>3. f.den * q <= f.den * (Depth - 1)
      BY <2>2, <3>1, <3>2, <1>1
    <3>4. q <= Depth - 1
      <4> HIDE DEF q
      <4>1. SUFFICES ASSUME q >= Depth PROVE FALSE
        BY <3>2, <1>1 DEF q
      <4>2. q \in Nat
        BY <3>2 DEF q
      <4>3. f.den * Depth <= f.den * q
        BY <4>1, <4>2, <1>1, TimesKeeps
      <4>4. f.den * (Depth - 1) = f.den * Depth - f.den
        BY <1>1
      <4> QED BY <3>3, <4>2, <4>3, <4>4, <1>1
    <3> QED BY <1>1, <2>2, <3>2, <3>4 DEF Component
  <2> QED BY <2>1, <2>2
<1>3. Expose(pixel, f) = LET p == Unpack(pixel) IN Pack(Scaled(p.r), Scaled(p.g), Scaled(p.b), p.a)
  BY DEF Expose
<1> HIDE DEF Scaled
<1> QED BY <1>2, <1>3, PackType, UnpackType

-----------------------------------------------------------------------------
(* Places: rows of an image, and the pieces that tile cuts an edge into.     *)

\* Quotient and remainder
LEMMA Division ==
  ASSUME NEW k \in Nat, NEW n \in Nat \ {0}
  PROVE  k \div n \in Nat /\ k % n \in 0 .. n - 1 /\ k = n * (k \div n) + (k % n)
OBVIOUS

\* A place in a row is a place in the image.
LEMMA InRow ==
  ASSUME NEW w \in Nat, NEW h \in Nat, NEW x \in 0 .. w - 1, NEW y \in 0 .. h - 1
  PROVE  w * y + x \in Indices(w, h)
<1>1. w * y <= w * (h - 1) /\ w * (h - 1) = w * h - w /\ w * y \in Nat
  BY TimesKeeps
<1> QED BY <1>1 DEF Indices

\* Each place is in one row,
LEMMA RowOf ==
  ASSUME NEW w \in Nat, NEW h \in Nat, NEW k \in Indices(w, h)
  PROVE  \E x \in 0 .. w - 1, y \in 0 .. h - 1 : k = w * y + x
<1>1. k \in Nat /\ k < w * h /\ w > 0
  <2>1. k \in 0 .. w * h - 1 /\ w * h \in Nat
    BY DEF Indices
  <2>2. w = 0 => w * h = 0
    OBVIOUS
  <2> QED BY <2>1, <2>2
<1>2. PICK x \in 0 .. w - 1, y \in Nat : k = w * y + x
  <2>1. w \in Nat \ {0}
    BY <1>1
  <2> QED BY <1>1, <2>1, Division
<1>3. y < h
  <2>1. SUFFICES ASSUME y >= h PROVE FALSE
    OBVIOUS
  <2>2. w * h <= w * y
    BY <2>1, TimesKeeps
  <2>3. w * y \in Nat /\ w * h \in Nat
    OBVIOUS
  <2> QED BY <1>1, <1>2, <2>2, <2>3
<1> QED BY <1>2, <1>3

\* and in no other.
LEMMA RowOnly ==
  ASSUME NEW w \in Nat, NEW x1 \in 0 .. w - 1, NEW x2 \in 0 .. w - 1,
         NEW y1 \in Nat, NEW y2 \in Nat, w * y1 + x1 = w * y2 + x2
  PROVE  x1 = x2 /\ y1 = y2
<1>1. ASSUME NEW a \in Nat, NEW b \in Nat, a < b PROVE w * a + w <= w * b
  <2>1. w * (a + 1) <= w * b
    BY <1>1, TimesKeeps
  <2> QED BY <2>1
<1>2. w * y1 \in Nat /\ w * y2 \in Nat
  OBVIOUS
<1>3. ~(y1 < y2) /\ ~(y2 < y1)
  BY <1>1, <1>2
<1> QED BY <1>3

\* A tile begins and ends within the edge, and takes every nth place of it.
LEMMA PieceIn ==
  ASSUME NEW size \in Nat, NEW n \in Nat \ {0}, NEW t \in 0 .. n - 1,
         NEW i \in 0 .. Extent(size, n, t) - 1
  PROVE  Begins(size, n, t) + i \in 0 .. size - 1 /\ i * n \in 0 .. size - 1
<1> DEFINE q == size \div n
           r == size % n
<1>1. q \in Nat /\ r \in 0 .. n - 1 /\ size = n * q + r
  OBVIOUS
<1>2. /\ Begins(size, n, t) = t * q + (IF t < r THEN t ELSE r)
      /\ Extent(size, n, t) = q + (IF t < r THEN 1 ELSE 0)
  BY DEF Begins, Extent
<1> HIDE DEF q, r
<1>3. t * q \in Nat /\ n * q \in Nat /\ t * q + q <= n * q
  <2>1. q * (t + 1) <= q * n
    BY <1>1, TimesKeeps
  <2> QED BY <1>1, <2>1
<1>4. i \in Nat /\ i * n \in Nat
  BY <1>1, <1>2
<1>5. CASE t < r
  <2>1. i <= q
    BY <1>1, <1>2, <1>5
  <2>2. i * n <= n * q
    BY <1>1, <1>4, <2>1, TimesKeeps
  <2> QED BY <1>1, <1>2, <1>3, <1>4, <1>5, <2>1, <2>2
<1>6. CASE ~(t < r)
  <2>1. i <= q - 1
    BY <1>1, <1>2, <1>6
  <2>2. n * i <= n * (q - 1) /\ n * (q - 1) = n * q - n
    BY <1>1, <1>4, <2>1, TimesKeeps
  <2> QED BY <1>1, <1>2, <1>3, <1>4, <1>6, <2>1, <2>2
<1> QED BY <1>5, <1>6

\* Each place of an edge is in a tile,
LEMMA PieceOf ==
  ASSUME NEW size \in Nat, NEW n \in Nat \ {0}, NEW x \in 0 .. size - 1
  PROVE  \E t \in 0 .. n - 1 : \E i \in 0 .. Extent(size, n, t) - 1 :
           x = Begins(size, n, t) + i
<1> DEFINE q == size \div n
           r == size % n
<1>1. q \in Nat /\ r \in 0 .. n - 1 /\ size = n * q + r
  OBVIOUS
<1>2. \A t \in Nat : /\ Begins(size, n, t) = t * q + (IF t < r THEN t ELSE r)
                     /\ Extent(size, n, t) = q + (IF t < r THEN 1 ELSE 0)
  BY DEF Begins, Extent
<1> HIDE DEF q, r
<1>3. CASE x < r * (q + 1)
  <2> DEFINE t == x \div (q + 1)
             i == x % (q + 1)
  <2>1. t \in Nat /\ i \in 0 .. q /\ x = (q + 1) * t + i
    <3>1. q + 1 \in Nat \ {0} /\ x \in Nat
      BY <1>1
    <3>2. t \in Nat /\ i \in 0 .. (q + 1) - 1 /\ x = (q + 1) * t + i
      BY <3>1, Division
    <3> HIDE DEF t, i
    <3> QED BY <1>1, <3>2
  <2> HIDE DEF t, i
  <2>2. t < r
    <3>1. SUFFICES ASSUME t >= r PROVE FALSE
      BY <1>1, <2>1
    <3>2. (q + 1) * r <= (q + 1) * t
      BY <1>1, <2>1, <3>1, TimesKeeps
    <3>3. (q + 1) * r = r * (q + 1) /\ (q + 1) * r \in Nat /\ (q + 1) * t \in Nat
      BY <1>1, <2>1
    <3> QED BY <1>3, <2>1, <3>2, <3>3
  <2>3. (q + 1) * t = t * q + t /\ t * q \in Nat
    BY <1>1, <2>1
  <2>4. Begins(size, n, t) = t * q + t /\ Extent(size, n, t) = q + 1
    BY <1>1, <1>2, <2>1, <2>2
  <2>5. t \in 0 .. n - 1 /\ i \in 0 .. Extent(size, n, t) - 1 /\ x = Begins(size, n, t) + i
    BY <1>1, <2>1, <2>2, <2>3, <2>4
  <2> QED BY <2>5
<1>4. CASE x >= r * (q + 1)
  <2> DEFINE z == x - r * (q + 1)
             t == r + z \div q
             i == z % q
  <2>1. r * (q + 1) = r * q + r /\ r * q \in Nat /\ n * q \in Nat
    BY <1>1
  <2>2. z \in Nat /\ z < n * q - r * q
    BY <1>1, <1>4, <2>1
  <2>3. q > 0
    <3>1. SUFFICES ASSUME q = 0 PROVE FALSE
      BY <1>1
    <3>2. n * q = 0 /\ r * q = 0
      BY <1>1, <3>1
    <3> QED BY <2>2, <3>2
  <2>4. z \div q \in Nat /\ i \in 0 .. q - 1 /\ z = q * (z \div q) + i
    <3> HIDE DEF z
    <3> QED BY <1>1, <2>2, <2>3
  <2> DEFINE u == z \div q
  <2>5. u < n - r
    <3> HIDE DEF u, i
    <3>1. SUFFICES ASSUME u >= n - r PROVE FALSE
      BY <1>1, <2>4 DEF u
    <3>2. q * (n - r) <= q * u
      BY <1>1, <2>4, <3>1, TimesKeeps DEF u
    <3>3. q * (n - r) = n * q - r * q /\ q * u \in Nat /\ z >= q * u
      BY <1>1, <2>4 DEF u
    <3> QED BY <2>2, <2>1, <3>2, <3>3
  <2>6. t \in 0 .. n - 1 /\ t >= r /\ t = r + u
    BY <1>1, <2>4, <2>5
  <2>7. x = z + r * q + r
    BY <1>1, <2>1
  <2> HIDE DEF t, u, z, i
  <2>8. Begins(size, n, t) = t * q + r /\ Extent(size, n, t) = q
    BY <1>1, <1>2, <2>6
  <2>9. u \in Nat /\ t * q = r * q + q * u
    BY <1>1, <2>4, <2>6 DEF u
  <2>10. z = q * u + i /\ q * u \in Nat
    BY <1>1, <2>4, <2>9 DEF u
  <2>11. i \in 0 .. Extent(size, n, t) - 1 /\ x = Begins(size, n, t) + i
    BY <1>1, <2>1, <2>4, <2>7, <2>8, <2>9, <2>10
  <2> QED BY <2>6, <2>11
<1>5. r * (q + 1) \in Nat
  BY <1>1
<1> QED BY <1>3, <1>4, <1>5

\* Where the pieces of an edge begin: one after the other, up to the end of it.
LEMMA PiecesJoin ==
  ASSUME NEW size \in Nat, NEW n \in Nat \ {0}
  PROVE  /\ \A t \in Nat : /\ Begins(size, n, t) \in Nat /\ Extent(size, n, t) \in Nat
                           /\ Begins(size, n, t + 1) = Begins(size, n, t) + Extent(size, n, t)
         /\ \A s, t \in Nat : s < t => Begins(size, n, s) + Extent(size, n, s) <= Begins(size, n, t)
         /\ Begins(size, n, 0) = 0 /\ Begins(size, n, n) = size
<1> DEFINE q == size \div n
           r == size % n
<1>1. q \in Nat /\ r \in 0 .. n - 1 /\ size = n * q + r
  OBVIOUS
<1>2. \A t \in Nat : /\ Begins(size, n, t) = t * q + (IF t < r THEN t ELSE r)
                     /\ Extent(size, n, t) = q + (IF t < r THEN 1 ELSE 0)
  BY DEF Begins, Extent
<1> HIDE DEF q, r
<1>3. ASSUME NEW t \in Nat
      PROVE  /\ Begins(size, n, t) \in Nat /\ Extent(size, n, t) \in Nat
             /\ Begins(size, n, t + 1) = Begins(size, n, t) + Extent(size, n, t)
  <2>1. PICK a \in Nat : a = t * q /\ (t + 1) * q = a + q
    BY <1>1
  <2>2. t + 1 \in Nat /\ Begins(size, n, t + 1) = (t + 1) * q + (IF t + 1 < r THEN t + 1 ELSE r)
    BY <1>2
  <2>3. /\ Begins(size, n, t) = a + (IF t < r THEN t ELSE r)
        /\ Extent(size, n, t) = q + (IF t < r THEN 1 ELSE 0)
        /\ Begins(size, n, t + 1) = (a + q) + (IF t + 1 < r THEN t + 1 ELSE r)
    BY <1>2, <2>1, <2>2
  <2> HIDE DEF q, r
  <2>4. (a + q) + (IF t + 1 < r THEN t + 1 ELSE r)
          = (a + (IF t < r THEN t ELSE r)) + (q + (IF t < r THEN 1 ELSE 0))
    BY <1>1
  <2> QED BY <1>1, <2>3, <2>4
<1>4. ASSUME NEW s \in Nat, NEW t \in Nat, s < t
      PROVE  Begins(size, n, s) + Extent(size, n, s) <= Begins(size, n, t)
  <2>1. q * (s + 1) <= q * t
    BY <1>1, <1>4, TimesKeeps
  <2>2. q * (s + 1) = s * q + q /\ q * t = t * q /\ s * q \in Nat /\ t * q \in Nat
    BY <1>1
  <2>3. PICK a \in Nat, b \in Nat : a = s * q /\ b = t * q /\ a + q <= b
    BY <2>1, <2>2
  <2>4. /\ Begins(size, n, s) = a + (IF s < r THEN s ELSE r)
        /\ Extent(size, n, s) = q + (IF s < r THEN 1 ELSE 0)
        /\ Begins(size, n, t) = b + (IF t < r THEN t ELSE r)
    BY <1>2, <2>3
  <2>5. a + (IF s < r THEN s ELSE r) + (q + (IF s < r THEN 1 ELSE 0)) <= b + (IF t < r THEN t ELSE r)
    BY <1>1, <1>4, <2>3
  <2> QED BY <2>4, <2>5
<1>5. Begins(size, n, 0) = 0
  BY <1>1, <1>2
<1>6. Begins(size, n, n) = size
  BY <1>1, <1>2
<1> QED BY <1>3, <1>4, <1>5, <1>6

\* and in no other.
LEMMA PieceOnly ==
  ASSUME NEW size \in Nat, NEW n \in Nat \ {0},
         NEW t1 \in 0 .. n - 1, NEW i1 \in 0 .. Extent(size, n, t1) - 1,
         NEW t2 \in 0 .. n - 1, NEW i2 \in 0 .. Extent(size, n, t2) - 1,
         Begins(size, n, t1) + i1 = Begins(size, n, t2) + i2
  PROVE  t1 = t2 /\ i1 = i2
<1>1. \A t \in Nat : Begins(size, n, t) \in Nat /\ Extent(size, n, t) \in Nat
  BY PiecesJoin
<1>2. \A s, t \in Nat : s < t => Begins(size, n, s) + Extent(size, n, s) <= Begins(size, n, t)
  BY PiecesJoin
<1>3. t1 \in Nat /\ t2 \in Nat
  OBVIOUS
<1>4. ~(t1 < t2) /\ ~(t2 < t1)
  BY <1>1, <1>2, <1>3
<1>5. t1 = t2
  BY <1>3, <1>4
<1> QED BY <1>1, <1>3, <1>5

-----------------------------------------------------------------------------
(* The plugins that move pixels.                                            *)

\* What WritesOnce says of some assignments.
Onto(moves, all) ==
  /\ \A m \in moves : m.to \in all /\ m.from \in all
  /\ \A i \in all : \E m \in moves : m.to = i
  /\ \A m1, m2 \in moves : m1.to = m2.to => m1 = m2

\* mirrorh.c:40
LEMMA MirrorHOnto ==
  ASSUME NEW w \in Nat, NEW h \in Nat
  PROVE  Onto(MirrorH(w, h), Indices(w, h))
<1> DEFINE M(i, j) == [to |-> w * j + i, from |-> w * j + (w - 1 - i)]
<1>1. ASSUME NEW m \in MirrorH(w, h)
      PROVE  \E i \in 0 .. w - 1, j \in 0 .. h - 1 : m = M(i, j)
  BY DEF MirrorH
<1>2. ASSUME NEW i \in 0 .. w - 1, NEW j \in 0 .. h - 1
      PROVE  M(i, j) \in MirrorH(w, h)
  BY DEF MirrorH
<1>3. \A i, j : M(i, j).to = w * j + i /\ M(i, j).from = w * j + (w - 1 - i)
  OBVIOUS
<1> HIDE DEF M
<1>4. ASSUME NEW m \in MirrorH(w, h)
      PROVE  m.to \in Indices(w, h) /\ m.from \in Indices(w, h)
  <2>1. PICK i \in 0 .. w - 1, j \in 0 .. h - 1 : m = M(i, j)
    BY <1>1
  <2>2. PICK x \in 0 .. w - 1 : x = w - 1 - i
    OBVIOUS
  <2>3. w * j + i \in Indices(w, h) /\ w * j + x \in Indices(w, h)
    BY InRow
  <2> QED BY <1>3, <2>1, <2>2, <2>3
<1>5. ASSUME NEW k \in Indices(w, h) PROVE \E m \in MirrorH(w, h) : m.to = k
  <2>1. PICK i \in 0 .. w - 1, j \in 0 .. h - 1 : k = w * j + i
    BY RowOf
  <2> QED BY <1>2, <1>3, <2>1
<1>6. ASSUME NEW m1 \in MirrorH(w, h), NEW m2 \in MirrorH(w, h), m1.to = m2.to
      PROVE  m1 = m2
  <2>1. PICK i1 \in 0 .. w - 1, j1 \in 0 .. h - 1 : m1 = M(i1, j1)
    BY <1>1
  <2>2. PICK i2 \in 0 .. w - 1, j2 \in 0 .. h - 1 : m2 = M(i2, j2)
    BY <1>1
  <2>3. w * j1 + i1 = w * j2 + i2
    BY <1>3, <1>6, <2>1, <2>2
  <2>4. i1 = i2 /\ j1 = j2
    BY <2>3, RowOnly
  <2> QED BY <2>1, <2>2, <2>4
<1> QED BY <1>4, <1>5, <1>6 DEF Onto

\* mirrorv.c:40
LEMMA MirrorVOnto ==
  ASSUME NEW w \in Nat, NEW h \in Nat
  PROVE  Onto(MirrorV(w, h), Indices(w, h))
<1> DEFINE M(i, j) == [to |-> w * j + i, from |-> w * (h - 1 - j) + i]
<1>1. ASSUME NEW m \in MirrorV(w, h)
      PROVE  \E i \in 0 .. w - 1, j \in 0 .. h - 1 : m = M(i, j)
  BY DEF MirrorV
<1>2. ASSUME NEW i \in 0 .. w - 1, NEW j \in 0 .. h - 1
      PROVE  M(i, j) \in MirrorV(w, h)
  <2>1. MirrorV(w, h) = {M(x, y) : x \in 0 .. w - 1, y \in 0 .. h - 1}
    BY DEF MirrorV
  <2> HIDE DEF M
  <2> QED BY <2>1
<1>3. \A i, j : M(i, j).to = w * j + i /\ M(i, j).from = w * (h - 1 - j) + i
  OBVIOUS
<1> HIDE DEF M
<1>4. ASSUME NEW m \in MirrorV(w, h)
      PROVE  m.to \in Indices(w, h) /\ m.from \in Indices(w, h)
  <2>1. PICK i \in 0 .. w - 1, j \in 0 .. h - 1 : m = M(i, j)
    BY <1>1
  <2>2. PICK y \in 0 .. h - 1 : y = h - 1 - j
    OBVIOUS
  <2>3. w * j + i \in Indices(w, h) /\ w * y + i \in Indices(w, h)
    BY InRow
  <2> QED BY <1>3, <2>1, <2>2, <2>3
<1>5. ASSUME NEW k \in Indices(w, h) PROVE \E m \in MirrorV(w, h) : m.to = k
  <2>1. PICK i \in 0 .. w - 1, j \in 0 .. h - 1 : k = w * j + i
    BY RowOf
  <2> QED BY <1>2, <1>3, <2>1
<1>6. ASSUME NEW m1 \in MirrorV(w, h), NEW m2 \in MirrorV(w, h), m1.to = m2.to
      PROVE  m1 = m2
  <2>1. PICK i1 \in 0 .. w - 1, j1 \in 0 .. h - 1 : m1 = M(i1, j1)
    BY <1>1
  <2>2. PICK i2 \in 0 .. w - 1, j2 \in 0 .. h - 1 : m2 = M(i2, j2)
    BY <1>1
  <2>3. w * j1 + i1 = w * j2 + i2
    BY <1>3, <1>6, <2>1, <2>2
  <2>4. i1 = i2 /\ j1 = j2
    BY <2>3, RowOnly
  <2> QED BY <2>1, <2>2, <2>4
<1> QED BY <1>4, <1>5, <1>6 DEF Onto

\* tile.c:50-70, for any image and any number of tiles
LEMMA TileOnto ==
  ASSUME NEW w \in Nat, NEW h \in Nat, NEW n \in Nat \ {0}
  PROVE  Onto(Tile(w, h, n), Indices(w, h))
<1> DEFINE Tiles == 0 .. n - 1
           Xs(ni) == 0 .. Extent(w, n, ni) - 1
           Ys(nj) == 0 .. Extent(h, n, nj) - 1
           M(ni, nj, i, j) == [to |-> w * (Begins(h, n, nj) + j) + Begins(w, n, ni) + i,
                               from |-> w * j * n + i * n]
<1>1. ASSUME NEW m \in Tile(w, h, n)
      PROVE  \E ni \in Tiles, nj \in Tiles : \E i \in Xs(ni), j \in Ys(nj) : m = M(ni, nj, i, j)
  BY DEF Tile
<1>2. ASSUME NEW ni \in Tiles, NEW nj \in Tiles, NEW i \in Xs(ni), NEW j \in Ys(nj)
      PROVE  M(ni, nj, i, j) \in Tile(w, h, n)
  <2> DEFINE Piece(a, b) == {M(a, b, x, y) : x \in Xs(a), y \in Ys(b)}
  <2>1. M(ni, nj, i, j) \in Piece(ni, nj)
    <3> HIDE DEF M
    <3> QED OBVIOUS
  <2>2. Piece(ni, nj) \in {Piece(a, b) : a, b \in Tiles}
    <3> HIDE DEF Piece
    <3> QED OBVIOUS
  <2>3. Tile(w, h, n) = UNION {Piece(a, b) : a, b \in Tiles}
    BY DEF Tile
  <2> HIDE DEF Piece
  <2> QED BY <2>1, <2>2, <2>3
<1>3. \A ni, nj, i, j : /\ M(ni, nj, i, j).to = w * (Begins(h, n, nj) + j) + Begins(w, n, ni) + i
                        /\ M(ni, nj, i, j).from = w * j * n + i * n
  OBVIOUS
<1>4. \A t \in Tiles : /\ Begins(w, n, t) \in Nat /\ Begins(h, n, t) \in Nat
                       /\ Extent(w, n, t) \in Nat /\ Extent(h, n, t) \in Nat
  <2>1. \A size \in Nat : \A t \in Nat : Begins(size, n, t) \in Nat /\ Extent(size, n, t) \in Nat
    BY PiecesJoin
  <2>2. \A t \in Tiles : t \in Nat
    OBVIOUS
  <2> HIDE DEF Tiles
  <2> QED BY <2>1, <2>2
\* Both coordinates, as places of the two edges.
<1>5. ASSUME NEW ni \in Tiles, NEW nj \in Tiles, NEW i \in Xs(ni), NEW j \in Ys(nj)
      PROVE  /\ Begins(w, n, ni) + i \in 0 .. w - 1 /\ Begins(h, n, nj) + j \in 0 .. h - 1
             /\ i * n \in 0 .. w - 1 /\ j * n \in 0 .. h - 1
             /\ M(ni, nj, i, j).to = w * (Begins(h, n, nj) + j) + (Begins(w, n, ni) + i)
             /\ M(ni, nj, i, j).from = w * (j * n) + i * n
  <2>1. /\ Begins(w, n, ni) + i \in 0 .. w - 1 /\ Begins(h, n, nj) + j \in 0 .. h - 1
        /\ i * n \in 0 .. w - 1 /\ j * n \in 0 .. h - 1
    BY PieceIn
  <2>2. Begins(w, n, ni) \in Nat /\ Begins(h, n, nj) \in Nat /\ i \in Nat /\ j \in Nat
    BY <1>4
  <2>3. w * (Begins(h, n, nj) + j) + Begins(w, n, ni) + i
          = w * (Begins(h, n, nj) + j) + (Begins(w, n, ni) + i)
    BY <2>2
  <2>4. w * j * n + i * n = w * (j * n) + i * n
    BY <2>2
  <2> QED BY <1>3, <2>1, <2>3, <2>4
<1> HIDE DEF M, Tiles, Xs, Ys
<1>6. ASSUME NEW m \in Tile(w, h, n)
      PROVE  m.to \in Indices(w, h) /\ m.from \in Indices(w, h)
  <2>1. PICK ni \in Tiles, nj \in Tiles : \E i \in Xs(ni), j \in Ys(nj) : m = M(ni, nj, i, j)
    BY <1>1
  <2>1a. PICK i \in Xs(ni), j \in Ys(nj) : m = M(ni, nj, i, j)
    BY <2>1
  <2>2. /\ Begins(w, n, ni) + i \in 0 .. w - 1 /\ Begins(h, n, nj) + j \in 0 .. h - 1
        /\ i * n \in 0 .. w - 1 /\ j * n \in 0 .. h - 1
        /\ m.to = w * (Begins(h, n, nj) + j) + (Begins(w, n, ni) + i)
        /\ m.from = w * (j * n) + i * n
    BY <1>5, <2>1a
  <2>3. m.to \in Indices(w, h)
    BY <2>2, InRow
  <2>4. m.from \in Indices(w, h)
    BY <2>2, InRow
  <2> QED BY <2>3, <2>4
<1>7. ASSUME NEW k \in Indices(w, h) PROVE \E m \in Tile(w, h, n) : m.to = k
  <2>1. PICK x \in 0 .. w - 1, y \in 0 .. h - 1 : k = w * y + x
    BY RowOf
  <2>2. PICK ni \in Tiles : \E i \in Xs(ni) : x = Begins(w, n, ni) + i
    BY PieceOf DEF Tiles, Xs
  <2>3. PICK i \in Xs(ni) : x = Begins(w, n, ni) + i
    BY <2>2
  <2>4. PICK nj \in Tiles : \E j \in Ys(nj) : y = Begins(h, n, nj) + j
    BY PieceOf DEF Tiles, Ys
  <2>5. PICK j \in Ys(nj) : y = Begins(h, n, nj) + j
    BY <2>4
  <2>6. M(ni, nj, i, j).to = k
    BY <1>5, <2>1, <2>3, <2>5
  <2> QED BY <1>2, <2>6
<1>8. ASSUME NEW m1 \in Tile(w, h, n), NEW m2 \in Tile(w, h, n), m1.to = m2.to
      PROVE  m1 = m2
  <2>1. PICK ni1 \in Tiles, nj1 \in Tiles : \E i1 \in Xs(ni1), j1 \in Ys(nj1) : m1 = M(ni1, nj1, i1, j1)
    BY <1>1
  <2>1a. PICK i1 \in Xs(ni1), j1 \in Ys(nj1) : m1 = M(ni1, nj1, i1, j1)
    BY <2>1
  <2>2. PICK ni2 \in Tiles, nj2 \in Tiles : \E i2 \in Xs(ni2), j2 \in Ys(nj2) : m2 = M(ni2, nj2, i2, j2)
    BY <1>1
  <2>2a. PICK i2 \in Xs(ni2), j2 \in Ys(nj2) : m2 = M(ni2, nj2, i2, j2)
    BY <2>2
  <2>3. /\ Begins(w, n, ni1) + i1 \in 0 .. w - 1 /\ Begins(h, n, nj1) + j1 \in 0 .. h - 1
        /\ m1.to = w * (Begins(h, n, nj1) + j1) + (Begins(w, n, ni1) + i1)
    BY <1>5, <2>1a
  <2>4. /\ Begins(w, n, ni2) + i2 \in 0 .. w - 1 /\ Begins(h, n, nj2) + j2 \in 0 .. h - 1
        /\ m2.to = w * (Begins(h, n, nj2) + j2) + (Begins(w, n, ni2) + i2)
    BY <1>5, <2>2a
  <2>5. w * (Begins(h, n, nj1) + j1) + (Begins(w, n, ni1) + i1)
          = w * (Begins(h, n, nj2) + j2) + (Begins(w, n, ni2) + i2)
    BY <1>8, <2>3, <2>4
  <2>6. Begins(h, n, nj1) + j1 \in Nat /\ Begins(h, n, nj2) + j2 \in Nat
    BY <2>3, <2>4
  <2>7. Begins(w, n, ni1) + i1 = Begins(w, n, ni2) + i2
        /\ Begins(h, n, nj1) + j1 = Begins(h, n, nj2) + j2
    BY <2>3, <2>4, <2>5, <2>6, RowOnly
  <2>8. ni1 = ni2 /\ i1 = i2
    BY <2>7, PieceOnly DEF Tiles, Xs
  <2>9. nj1 = nj2 /\ j1 = j2
    BY <2>7, PieceOnly DEF Tiles, Ys
  <2> QED BY <2>1a, <2>2a, <2>8, <2>9
<1> QED BY <1>6, <1>7, <1>8 DEF Onto

-----------------------------------------------------------------------------
(* What the driver hands to the functions of image.c and of the plugins.    *)

ArgsRight(a) == a.num \in Nat /\ a.den \in Nat \ {0} /\ (my = "tile" => a.num # 0)

\* A plugin is called with its own arguments and an image that fills its array.
Contents ==
  /\ pc \in {"parse"} \cup Reading \cup Writing => my \in Plugin
  /\ args # Null => ArgsRight(args)
  /\ pc \in Reading \cup {"transform"} => args # Null
  /\ pc \in Reading \ {"open"} => png \in Files
  /\ pc \in {"alloc", "getdata", "create"} => png.colour \in {"rgb", "rgba"}
  /\ in # Null => IsImage(in)
  /\ pc = "transform" => IsImage(in)
  /\ out # Null => IsImage(out)
  /\ open = Len(libs) - closed \/ (pc = "exited" /\ open = Len(libs) + 1)

\* The only element of a sequence
LEMMA FirstOf == ASSUME NEW S, NEW s \in Seq(S), Len(s) = 1 PROVE s[1] \in S
OBVIOUS

\* parse_arguments of the plugins: a factor that is positive, a count that is not 0.
LEMMA ParsedRight ==
  ASSUME NEW argv \in Argvs, NEW plugin \in Plugin, NEW result \in Parsed(plugin, argv),
         result # Null
  PROVE  /\ result.num \in Nat /\ result.den \in Nat \ {0}
         /\ plugin = "tile" => result.num # 0
<1>1. argv \in Seq([num : Int, den : Nat \ {0}])
  BY ImgProcAssumption
<1>2. CASE plugin = "expose"
  <2>1. result = argv[1] /\ Len(argv) = 1 /\ ~(argv[1].num <= 0)
    BY <1>2 DEF Parsed, ParsedFactor
  <2>2. argv[1] \in [num : Int, den : Nat \ {0}]
    BY <1>1, <2>1, FirstOf
  <2> QED BY <1>2, <2>1, <2>2
<1>3. CASE plugin = "tile"
  <2> DEFINE n == Atoi(argv[1]) % (UintMax + 1)
  <2>1. Len(argv) = 1 /\ n # 0 /\ result = [num |-> n, den |-> 1]
    BY <1>3 DEF Parsed, ParsedN
  <2>2. argv[1] \in [num : Int, den : Nat \ {0}]
    BY <1>1, <2>1, FirstOf
  <2>3. Atoi(argv[1]) \in Int
    <3>1. argv[1].num \in Int /\ argv[1].den \in Nat \ {0}
      BY <2>2
    <3> QED BY <3>1 DEF Atoi
  <2>4. n \in Nat
    BY <2>3, ImageAssumption
  <2> HIDE DEF n
  <2> QED BY <2>1, <2>4
<1>4. CASE plugin \notin {"expose", "tile"}
  <2>1. result = Dummy
    BY <1>4 DEF Parsed, ParsedNothing
  <2> QED BY <1>4, <2>1 DEF Dummy
<1> QED BY <1>2, <1>3, <1>4

\* The image that img_read_png makes of a file with three or four channels.
LEMMA FromPngType ==
  ASSUME NEW file \in Files, file.colour \in {"rgb", "rgba"}
  PROVE  IsImage(FromPng(file))
<1> DEFINE w == file.width
           h == file.height
           k == Bpp(file)
           Byte(i, c) == file.bytes[i * Bpp(file) + c]
           a(i) == IF file.colour = "rgba" THEN Byte(i, 3) ELSE Depth - 1
           data == [i \in Indices(w, h) |-> Pack(Byte(i, 0), Byte(i, 1), Byte(i, 2), a(i))]
<1>1. /\ w \in Nat /\ h \in Nat /\ file.bits \in {8, 16}
      /\ file.bytes \in [0 .. w * h * Bpp(file) - 1 -> Component]
  BY ImgProcAssumption
<1>2. k \in Nat /\ k >= 3 /\ (file.colour = "rgba" => k >= 4)
  <2>1. file.bits \div 8 \in {1, 2}
    BY <1>1
  <2> QED BY <2>1 DEF Bpp
<1>3. ASSUME NEW i \in Indices(w, h), NEW c \in 0 .. k - 1
      PROVE  Byte(i, c) \in Component
  <2>1. w * h \in Nat /\ i \in 0 .. w * h - 1
    BY <1>1 DEF Indices
  <2>2. k * i + c \in Indices(k, w * h)
    BY <1>2, <2>1, InRow
  <2>3. k * i + c = i * k + c /\ k * (w * h) = w * h * k
    BY <1>1, <1>2, <2>1
  <2>4. i * k + c \in 0 .. w * h * Bpp(file) - 1
    BY <2>2, <2>3 DEF Indices
  <2> QED BY <1>1, <2>4
<1>4. ASSUME NEW i \in Indices(w, h) PROVE a(i) \in Component
  <2>1. Depth - 1 \in Component
    BY ImageAssumption DEF Component
  <2>2. file.colour = "rgba" => 3 \in 0 .. k - 1
    BY <1>2
  <2> HIDE DEF Byte, w, h, k
  <2> QED BY <1>3, <2>1, <2>2
<1>5. 0 \in 0 .. k - 1 /\ 1 \in 0 .. k - 1 /\ 2 \in 0 .. k - 1
  BY <1>2
<1>6. FromPng(file) = Image(w, h, data)
  BY DEF FromPng
<1> HIDE DEF Byte, a, w, h, k
<1>7. data \in [Indices(w, h) -> Pixel]
  BY <1>3, <1>4, <1>5, PackType
<1> HIDE DEF data
<1>8. Image(w, h, data) = [width |-> w, height |-> h, data |-> data]
  BY DEF Image
<1>9. /\ Image(w, h, data).width = w /\ Image(w, h, data).height = h
      /\ Image(w, h, data).data = data
  BY <1>8
<1>10. w \in Nat /\ h \in Nat
  BY <1>1 DEF w, h
<1> QED BY <1>6, <1>7, <1>9, <1>10 DEF IsImage

\* The plugins that move pixels set every one, once.
LEMMA MovesOnto ==
  ASSUME NEW w \in Nat, NEW h \in Nat, NEW plugin \in {"mirrorh", "mirrorv", "tile"},
         NEW a, plugin = "tile" => a.num \in Nat \ {0}
  PROVE  Onto(Moves(plugin, a, w, h), Indices(w, h))
<1>1. CASE plugin = "mirrorh"
  BY <1>1, MirrorHOnto DEF Moves
<1>2. CASE plugin = "mirrorv"
  BY <1>2, MirrorVOnto DEF Moves
<1>3. CASE plugin = "tile"
  BY <1>3, TileOnto DEF Moves
<1> QED BY <1>1, <1>2, <1>3

\* Every plugin makes an image of an image.
LEMMA TransformedType ==
  ASSUME NEW img, IsImage(img), NEW plugin \in Plugin,
         NEW a, a.num \in Nat, a.den \in Nat \ {0}, plugin = "tile" => a.num # 0
  PROVE  IsImage(Transformed(plugin, a, img))
<1> DEFINE w == img.width
           h == img.height
           Put(i) == {m \in Moves(plugin, a, w, h) : m.to = i}
           New(i) == CASE plugin = "expose" -> Expose(img.data[i], a)
                       [] plugin = "swapbg" -> SwapBg(img.data[i])
                       [] OTHER -> IF Put(i) = {} THEN 0
                                   ELSE img.data[(CHOOSE m \in Put(i) : TRUE).from]
           data == [i \in Indices(w, h) |-> New(i)]
<1>1. w \in Nat /\ h \in Nat /\ img.data \in [Indices(w, h) -> Pixel]
  BY DEF IsImage
<1>2. Pixel \subseteq Int
  BY DEF Pixel
<1>3. ASSUME NEW i \in Indices(w, h) PROVE New(i) \in Pixel
  <2>1. img.data[i] \in Pixel /\ img.data[i] \in Int
    BY <1>1, <1>2
  <2>2. CASE plugin = "expose"
    BY <2>1, <2>2, ExposeType
  <2>3. CASE plugin = "swapbg"
    BY <2>1, <2>3, SwapType
  <2>4. CASE plugin \in {"mirrorh", "mirrorv", "tile"}
    <3>1. Onto(Moves(plugin, a, w, h), Indices(w, h))
      BY <1>1, <2>4, MovesOnto
    <3>2. Put(i) # {}
      BY <3>1 DEF Onto
    <3>3. PICK m \in Put(i) : m = CHOOSE x \in Put(i) : TRUE
      <4> HIDE DEF Put
      <4> QED BY <3>2
    <3>4. m.from \in Indices(w, h)
      BY <3>1 DEF Onto
    <3>5. New(i) = img.data[m.from]
      BY <2>4, <3>2, <3>3
    <3> QED BY <1>1, <3>4, <3>5
  <2> QED BY <2>2, <2>3, <2>4 DEF Plugin
<1>4. Transformed(plugin, a, img) = Image(w, h, data)
  BY DEF Transformed
<1> HIDE DEF New, w, h
<1>5. data \in [Indices(w, h) -> Pixel]
  BY <1>3
<1> HIDE DEF data
<1>6. Image(w, h, data) = [width |-> w, height |-> h, data |-> data]
  BY DEF Image
<1>7. /\ Image(w, h, data).width = w /\ Image(w, h, data).height = h
      /\ Image(w, h, data).data = data
  BY <1>6
<1>8. w \in Nat /\ h \in Nat
  BY <1>1 DEF w, h
<1> QED BY <1>4, <1>5, <1>7, <1>8 DEF IsImage


\* There is nothing at first.
LEMMA InitContents == Init => Contents
BY DEF Init, Contents, Loading, Reading, Writing, Ending

\* A step that leaves arguments, file and images alone, and goes on or cleans up.
LEMMA SameContents ==
  ASSUME IInv, Contents, UNCHANGED <<my, args, png, in, out>>,
         UNCHANGED <<libs, closed, open>>,
         pc # "exited",
         \/ pc' \in {"destroy", "exited"} \cup (Loading \ {"parse"})
         \/ pc \in {"alloc", "getdata"} /\ pc' \in {"getdata", "create"}
         \/ pc = "write" /\ pc' = "setdata"
  PROVE  Contents'
<1>1. IsImage(in)' = IsImage(in) /\ IsImage(out)' = IsImage(out)
  BY DEF IsImage
<1>2. pc' \notin Reading \cup Writing \cup {"parse"} \/ pc \in Reading \cup Writing
  BY DEF Loading, Reading, Writing
<1> QED BY <1>1, <1>2 DEF Contents, ArgsRight, Loading, Reading, Writing

\* Each step keeps them.
LEMMA NextContents == IInv /\ Contents /\ [Next]_vars => Contents'
<1> SUFFICES ASSUME IInv, Contents, [Next]_vars PROVE Contents'
  OBVIOUS
<1> USE DEF At, Go, Exit, CleanUp, work, loaded
<1> DEFINE Others == UNCHANGED <<my, args, png, in, out>>
           Same == UNCHANGED <<libs, closed, open>>
<1>1. CASE \E c \in {"none", "unknown", "list", "exec"} : Main(c)
  <2>1. Others /\ Same /\ pc # "exited" /\ pc' \in {"exited", "opendir"}
    BY <1>1 DEF Main
  <2> QED BY <2>1, SameContents DEF Loading
<1>2. CASE \E dir \in Dirs : OpenDir(dir)
  <2>1. Others /\ Same /\ pc # "exited" /\ pc' = "readdir"
    BY <1>2 DEF OpenDir
  <2> QED BY <2>1, SameContents DEF Loading
<1>3. CASE OpenDirFails \/ SkipEntry \/ CloseDir \/ CloseDirFails \/ PrintPlugins
  <2>1. Others /\ Same /\ pc # "exited" /\ pc' \in {"exited", "readdir", "print", "find", "destroy"}
    BY <1>3 DEF OpenDirFails, SkipEntry, CloseDir, CloseDirFails, PrintPlugins, ReadDir
  <2> QED BY <2>1, SameContents DEF Loading
<1>4. CASE LoadPlugin
  <2>1. /\ Others /\ UNCHANGED closed /\ pc = "readdir" /\ pc' = "readdir"
        /\ Len(libs') = Len(libs) + 1 /\ open' = open + 1
    BY <1>4 DEF LoadPlugin, ReadDir, IInv, Handles
  <2>2. libs \in Seq(Plugin) /\ closed \in Nat /\ Len(libs) \in Nat
    BY DEF IInv, Handles
  <2> QED BY <2>1, <2>2 DEF Contents, ArgsRight, Reading, Writing
<1>5. CASE LoadFails
  <2>1. /\ Others /\ UNCHANGED <<libs, closed>> /\ pc = "readdir" /\ pc' = "exited"
        /\ open' \in {open, open + 1} /\ closed = 0
    BY <1>5 DEF LoadFails, ReadDir, IInv, Handles, Ending
  <2>2. Len(libs) \in Nat
    BY DEF IInv, Handles
  <2> QED BY <2>1, <2>2 DEF Contents, ArgsRight, Reading, Writing
<1>6. CASE \E name \in Plugin : FindPlugin(name)
  <2>1. PICK name \in Plugin : FindPlugin(name)
    BY <1>6
  <2>2. CASE pc' = "destroy"
    BY <2>1, <2>2, SameContents DEF FindPlugin
  <2>3. CASE pc' = "parse"
    <3>1. my' = name /\ UNCHANGED <<args, png, in, out>> /\ Same /\ pc = "find"
      BY <2>1, <2>3 DEF FindPlugin
    <3>2. args = Null
      BY <3>1 DEF IInv, Stages, Loading
    <3> QED BY <2>3, <3>1, <3>2 DEF Contents, Reading, Writing
  <2> QED BY <2>1, <2>2, <2>3 DEF FindPlugin
<1>7. CASE \E argv \in Argvs : ParseArguments(argv)
  <2>1. PICK argv \in Argvs : ParseArguments(argv)
    BY <1>7
  <2>2. PICK result \in Parsed(my, argv) :
          \/ result = Null /\ UNCHANGED args /\ pc' = "destroy"
          \/ result # Null /\ args' = result /\ pc' = "open"
    BY <2>1 DEF ParseArguments
  <2>3. UNCHANGED <<my, png, in, out>> /\ Same /\ pc = "parse" /\ my \in Plugin
    BY <2>1 DEF ParseArguments, Contents
  <2>4. CASE result = Null
    BY <2>2, <2>3, <2>4, SameContents
  <2>5. CASE result # Null
    <3>1. result.num \in Nat /\ result.den \in Nat \ {0} /\ (my = "tile" => result.num # 0)
      BY <2>3, <2>5, ParsedRight
    <3> QED BY <2>2, <2>3, <2>5, <3>1 DEF Contents, ArgsRight, Reading, Writing
  <2> QED BY <2>4, <2>5
<1>8. CASE \E file \in Files : OpenPng(file)
  <2>1. /\ UNCHANGED <<my, args, in, out>> /\ Same /\ pc = "open" /\ pc' = "colour"
        /\ png' \in Files
    BY <1>8 DEF OpenPng
  <2> QED BY <2>1 DEF Contents, ArgsRight, Reading, Writing
<1>9. CASE OpenPngFails
  BY <1>9, SameContents DEF OpenPngFails
<1>10. CASE ColourType
  <2>1. /\ Others /\ Same /\ pc = "colour" /\ pc' \in {"alloc", "destroy"}
        /\ (pc' = "alloc" => png.colour \in {"rgb", "rgba"})
    BY <1>10 DEF ColourType
  <2> QED BY <2>1 DEF Contents, ArgsRight, Reading, Writing
<1>11. CASE AllocPixels \/ GetData \/ OpenOutput \/ SetData
  <2>1. /\ Others /\ Same
        /\ \/ pc' = "destroy" /\ pc # "exited"
           \/ pc \in {"alloc", "getdata"} /\ pc' \in {"getdata", "create"}
           \/ pc = "write" /\ pc' = "setdata"
    BY <1>11 DEF AllocPixels, GetData, OpenOutput, SetData
  <2> QED BY <2>1, SameContents
<1>12. CASE CreateImage
  <2>1. UNCHANGED <<my, args, png, out>> /\ Same /\ pc = "create"
        /\ \/ in' = FromPng(png) /\ pc' = "transform"
           \/ UNCHANGED in /\ pc' = "destroy"
    BY <1>12 DEF CreateImage
  <2>2. CASE in' = FromPng(png) /\ pc' = "transform"
    <3>1. IsImage(in')
      BY <2>1, <2>2, FromPngType DEF Contents, Reading
    <3>2. my \in Plugin /\ args # Null
      BY <2>1 DEF Contents, Reading
    <3>3. IsImage(in)' /\ IsImage(out)' = IsImage(out)
      BY <2>1, <3>1 DEF IsImage
    <3> QED BY <2>1, <2>2, <3>2, <3>3 DEF Contents, ArgsRight, Reading, Writing
  <2>3. CASE UNCHANGED in /\ pc' = "destroy"
    BY <2>1, <2>3, SameContents
  <2> QED BY <2>1, <2>2, <2>3
<1>13. CASE TransformImage
  <2>1. UNCHANGED <<my, args, png, in>> /\ Same /\ pc = "transform"
        /\ \/ out' = Transformed(my, args, in) /\ pc' = "write"
           \/ UNCHANGED out /\ pc' = "destroy"
    BY <1>13 DEF TransformImage
  <2>2. CASE out' = Transformed(my, args, in) /\ pc' = "write"
    <3>1. my \in Plugin /\ ArgsRight(args) /\ IsImage(in)
      BY <2>1 DEF Contents, Writing
    <3>2. IsImage(out')
      BY <2>2, <3>1, TransformedType DEF ArgsRight
    <3>3. IsImage(out)' /\ IsImage(in)' = IsImage(in)
      BY <2>1, <3>2 DEF IsImage
    <3> QED BY <2>1, <2>2, <3>1, <3>3 DEF Contents, ArgsRight, Reading, Writing
  <2>3. CASE UNCHANGED out /\ pc' = "destroy"
    BY <2>1, <2>3, SameContents
  <2> QED BY <2>1, <2>2, <2>3
<1>14. CASE DlClose
  <2>1. /\ Others /\ UNCHANGED libs /\ pc = "destroy"
        /\ \/ closed' = closed + 1 /\ open' = open - 1 /\ pc' = "destroy"
           \/ UNCHANGED <<closed, open>> /\ pc' = "exited"
    BY <1>14 DEF DlClose
  <2>2. open = Len(libs) - closed /\ closed \in Nat /\ Len(libs) \in Nat
    BY <2>1 DEF IInv, Handles
  <2> QED BY <2>1, <2>2 DEF Contents, ArgsRight, Reading, Writing
<1>15. CASE FreeList
  BY <1>15, SameContents DEF FreeList
<1>16. CASE UNCHANGED vars
  BY <1>16 DEF vars, Contents, ArgsRight, IsImage
<1> QED
  BY <1>1, <1>2, <1>3, <1>4, <1>5, <1>6, <1>7, <1>8, <1>9, <1>10, <1>11, <1>12, <1>13,
     <1>14, <1>15, <1>16 DEF Next

\* So they hold throughout.
LEMMA ContentsInvariant == Spec => [](IInv /\ Contents)
<1>1. Init => IInv /\ Contents
  BY InitIInv, InitContents
<1>2. (IInv /\ Contents) /\ [Next]_vars => (IInv /\ Contents)'
  BY NextIInv, NextContents
<1> QED BY <1>1, <1>2, PTL DEF Spec

\* Every image keeps to its array and every pixel to its four components, from
\* reading through every plugin, for files and arguments of any size (within what Image says of sizes).
THEOREM TypeCorrect == Spec => []TypeOK
<1>1. IInv /\ Contents => TypeOK
  <2> SUFFICES ASSUME IInv, Contents PROVE TypeOK
    OBVIOUS
  <2>1. life \in [Resource -> {"free", "held", "wrong"}]
    <3>1. PICK H : life = Fate(H)
      BY DEF IInv, Fates, Stages, Ending, Loading, Reading, Writing
    <3> QED BY <3>1 DEF Fate
  <2> QED BY <2>1 DEF TypeOK, IInv, Stages, Handles, Contents, ArgsRight
<1> QED BY <1>1, ContentsInvariant, PTL

\* mirrorh, mirrorv and tile set each pixel of the new image exactly once and stay
\* inside of both images, whatever the image's edges and the number of tiles.
THEOREM EveryPixelOnce == Spec => []WritesOnce
<1>1. Contents => WritesOnce
  <2> SUFFICES ASSUME Contents, pc = "transform", my \in {"mirrorh", "mirrorv", "tile"}
               PROVE  Onto(Moves(my, args, in.width, in.height), Indices(in.width, in.height))
    BY DEF WritesOnce, Onto
  <2>1. IsImage(in) /\ ArgsRight(args)
    BY DEF Contents
  <2> QED BY <2>1, MovesOnto DEF IsImage, ArgsRight
<1> QED BY <1>1, ContentsInvariant, PTL

-----------------------------------------------------------------------------
(* Images as rows of pixels.                                                *)

Channels(pixel) ==
  LET p == Unpack(pixel) IN <<p.r, p.g, p.b, p.a>>
RowsIn(img) ==
  [y \in 1 .. img.height |->
     [x \in 1 .. img.width |-> Channels(img.data[img.width * (y - 1) + (x - 1)])]]

\* Quotient and remainder are those that Division names.
LEMMA QuotientIs ==
  ASSUME NEW n \in Nat \ {0}, NEW q \in Nat, NEW s \in 0 .. n - 1, NEW x, x = n * q + s
  PROVE  x \div n = q /\ x % n = s
<1>1. n * q \in Nat /\ x \in Nat
  OBVIOUS
<1>2. PICK d \in Nat, m \in 0 .. n - 1 : d = x \div n /\ m = x % n /\ x = n * d + m
  BY <1>1, Division
<1>3. d = q /\ m = s
  BY <1>2, RowOnly
<1> QED BY <1>2, <1>3

\* img_unpack_pixel undoes img_pack_pixel.
LEMMA UnpackPack ==
  ASSUME NEW r \in Component, NEW g \in Component, NEW b \in Component, NEW a \in Component
  PROVE  Unpack(Pack(r, g, b, a)) = [r |-> r, g |-> g, b |-> b, a |-> a]
<1>1. /\ Depth \in Nat \ {0} /\ Depth * Depth \in Nat \ {0}
      /\ Depth * Depth * Depth \in Nat \ {0}
  BY ImageAssumption
<1>2. \A v \in Component : v \in 0 .. Depth - 1 /\ v \in Nat
  BY <1>1 DEF Component
<1> DEFINE p == Pack(r, g, b, a)
           s1 == b + Depth * a
           s2 == g + Depth * s1
<1>3. s1 \in Nat /\ s2 \in Nat /\ Depth * a \in Nat
  BY <1>1, <1>2
<1>4. p = Depth * s2 + r
  BY <1>1, <1>2, <1>3 DEF Pack
<1>5. p % Depth = r
  <2> HIDE DEF p, s2
  <2> QED BY <1>1, <1>2, <1>3, <1>4, QuotientIs
<1>6. p \div Depth = s2
  <2> HIDE DEF p, s2
  <2> QED BY <1>1, <1>2, <1>3, <1>4, QuotientIs
<1>7. s2 % Depth = g
  <2>1. s2 = Depth * s1 + g
    BY <1>1, <1>2, <1>3
  <2> HIDE DEF s2, s1
  <2> QED BY <2>1, <1>1, <1>2, <1>3, QuotientIs
<1>8. (p \div (Depth * Depth)) % Depth = b
  <2>1. r + Depth * g \in 0 .. Depth * Depth - 1
    BY <1>1, <1>2, Stacked
  <2>2. p = Depth * Depth * s1 + (r + Depth * g)
    <3> HIDE DEF s1, p
    <3>1. Depth * (g + Depth * s1) = Depth * g + Depth * Depth * s1
      BY <1>1, <1>2, <1>3
    <3> QED BY <1>1, <1>2, <1>3, <1>4, <3>1
  <2>3. p \div (Depth * Depth) = s1
    <3> HIDE DEF s1, p
    <3> DEFINE n == Depth * Depth
               s == r + Depth * g
    <3>1. n \in Nat \ {0} /\ s \in 0 .. n - 1 /\ p = n * s1 + s
      BY <1>1, <2>1, <2>2
    <3> HIDE DEF n, s
    <3>2. p \div n = s1
      BY <3>1, <1>3, QuotientIs
    <3> QED BY <3>2 DEF n
  <2>4. s1 = Depth * a + b
    BY <1>1, <1>2
  <2> HIDE DEF s1
  <2>5. s1 % Depth = b
    BY <1>1, <1>2, <2>4, QuotientIs
  <2> QED BY <2>3, <2>5
<1>9. (p \div (Depth * Depth * Depth)) % Depth = a
  <2>1. r + Depth * (g + Depth * b) \in 0 .. Depth * (Depth * Depth) - 1
    <3>1. g + Depth * b \in 0 .. Depth * Depth - 1
      BY <1>1, <1>2, Stacked
    <3> QED BY <3>1, <1>1, Stacked
  <2>2. p = Depth * Depth * Depth * a + (r + Depth * (g + Depth * b))
    <3>1. Depth * (g + Depth * (b + Depth * a)) = Depth * (g + Depth * b) + Depth * Depth * Depth * a
      BY <1>1, <1>2
    <3>2. PICK u \in Nat, v \in Nat : u = Depth * (g + Depth * b) /\ v = Depth * Depth * Depth * a
      BY <1>1, <1>2
    <3> QED BY <1>2, <3>1, <3>2 DEF Pack
  <2>3. p \div (Depth * Depth * Depth) = a
    <3> HIDE DEF p
    <3> DEFINE n == Depth * Depth * Depth
               s == r + Depth * (g + Depth * b)
    <3>1. n \in Nat \ {0} /\ s \in 0 .. n - 1 /\ p = n * a + s
      BY <1>1, <2>1, <2>2
    <3> HIDE DEF n, s
    <3>2. p \div n = a
      BY <3>1, <1>2, QuotientIs
    <3> QED BY <3>2 DEF n
  <2>4. a = Depth * 0 + a
    BY <1>1, <1>2
  <2>5. a % Depth = a
    BY <1>1, <1>2, <2>4, QuotientIs
  <2> QED BY <2>3, <2>5
<1> HIDE DEF p
<1>10. Unpack(p) = [r |-> r, g |-> g, b |-> b, a |-> a]
  BY <1>5, <1>6, <1>7, <1>8, <1>9 DEF Unpack
<1> QED BY <1>10 DEF p

\* What img_write_png writes, read as rows.
LEMMA RowsWritten ==
  ASSUME NEW img, IsImage(img)
  PROVE  RowsOf(ToPng(img)) = RowsIn(img)
<1> DEFINE w == img.width
           h == img.height
           file == ToPng(img)
<1>1. w \in Nat /\ h \in Nat
  BY DEF IsImage
<1>2. /\ file.colour = "rgba" /\ file.width = w /\ file.height = h
      /\ file.bytes = [k \in 0 .. 4 * w * h - 1 |->
                         LET p == Unpack(img.data[k \div 4])
                         IN  <<p.r, p.g, p.b, p.a>>[(k % 4) + 1]]
  BY DEF ToPng
<1>3. ASSUME NEW m \in Indices(w, h), NEW c \in 0 .. 3
      PROVE  file.bytes[m * 4 + c] = Channels(img.data[m])[c + 1]
  <2>1. w * h \in Nat /\ 4 * w * h = 4 * (w * h)
    BY <1>1
  <2>2. m * 4 + c \in 0 .. 4 * w * h - 1
    BY <2>1 DEF Indices
  <2>3. (m * 4 + c) \div 4 = m /\ (m * 4 + c) % 4 = c
    BY <2>1 DEF Indices
  <2> HIDE DEF file
  <2> QED BY <1>2, <2>2, <2>3 DEF Channels
<1> HIDE DEF file
<1>4. ASSUME NEW y \in 1 .. h, NEW x \in 1 .. w
      PROVE  (y - 1) * w + x - 1 \in Indices(w, h) /\ (y - 1) * w + x - 1 = w * (y - 1) + (x - 1)
  <2>1. PICK x0 \in 0 .. w - 1, y0 \in 0 .. h - 1 : x0 = x - 1 /\ y0 = y - 1
    BY <1>1
  <2>2. w * y0 + x0 \in Indices(w, h)
    BY <1>1, InRow
  <2>3. w * y0 = y0 * w /\ w * y0 \in Nat
    BY <1>1
  <2> QED BY <2>1, <2>2, <2>3
<1> DEFINE Byte(x, y, c) == file.bytes[((y - 1) * file.width + x - 1) * 4 + c]
<1>5. RowsOf(file) = [y \in 1 .. h |-> [x \in 1 .. w |->
                       <<Byte(x, y, 0), Byte(x, y, 1), Byte(x, y, 2), Byte(x, y, 3)>>]]
  BY <1>2 DEF RowsOf
<1>6. ASSUME NEW y \in 1 .. h, NEW x \in 1 .. w
      PROVE  <<Byte(x, y, 0), Byte(x, y, 1), Byte(x, y, 2), Byte(x, y, 3)>>
               = Channels(img.data[w * (y - 1) + (x - 1)])
  <2> DEFINE m == (y - 1) * w + x - 1
  <2>1. m \in Indices(w, h) /\ m = w * (y - 1) + (x - 1)
    BY <1>4
  <2>2. \A c \in 0 .. 3 : Byte(x, y, c) = file.bytes[m * 4 + c]
    BY <1>2
  <2> HIDE DEF m, Byte
  <2>3. \A c \in 0 .. 3 : Byte(x, y, c) = Channels(img.data[m])[c + 1]
    BY <1>3, <2>1, <2>2
  <2>4. Byte(x, y, 0) = Channels(img.data[m])[1] /\ Byte(x, y, 1) = Channels(img.data[m])[2]
        /\ Byte(x, y, 2) = Channels(img.data[m])[3] /\ Byte(x, y, 3) = Channels(img.data[m])[4]
    BY <2>3
  <2> QED BY <2>1, <2>4 DEF Channels
<1> HIDE DEF Byte, w, h
<1>7. RowsOf(file) = [y \in 1 .. h |-> [x \in 1 .. w |-> Channels(img.data[w * (y - 1) + (x - 1)])]]
  BY <1>5, <1>6
<1> QED BY <1>7 DEF RowsIn, w, h, file

\* A file with eight bits to a component, as rows: what img_read_png makes of it.
LEMMA RowsRead ==
  ASSUME NEW file \in Files, file.colour \in {"rgb", "rgba"}, file.bits = 8
  PROVE  RowsOf(file) = RowsIn(FromPng(file))
<1> DEFINE w == file.width
           h == file.height
           k == IF file.colour = "rgba" THEN 4 ELSE 3
           Byte(i, c) == file.bytes[i * k + c]
           a(i) == IF file.colour = "rgba" THEN Byte(i, 3) ELSE Depth - 1
           data == [i \in Indices(w, h) |-> Pack(Byte(i, 0), Byte(i, 1), Byte(i, 2), a(i))]
<1>1. /\ w \in Nat /\ h \in Nat /\ k \in {3, 4}
      /\ file.bytes \in [0 .. w * h * Bpp(file) - 1 -> Component]
  BY ImgProcAssumption
<1>2. Bpp(file) = k
  BY DEF Bpp
<1>3. ASSUME NEW i \in Indices(w, h), NEW c \in 0 .. k - 1
      PROVE  Byte(i, c) \in Component
  <2>1. w * h \in Nat /\ i \in 0 .. w * h - 1
    BY <1>1 DEF Indices
  <2>2. i * k + c \in 0 .. w * h * k - 1
    <3>1. k = 3 \/ k = 4
      OBVIOUS
    <3> HIDE DEF k
    <3> QED BY <2>1, <3>1
  <2> QED BY <1>1, <1>2, <2>2
<1>4. 0 \in 0 .. k - 1 /\ 1 \in 0 .. k - 1 /\ 2 \in 0 .. k - 1
      /\ (file.colour = "rgba" => 3 \in 0 .. k - 1)
  OBVIOUS
<1>5. ASSUME NEW i \in Indices(w, h) PROVE a(i) \in Component
  <2>1. Depth - 1 \in Component
    BY ImageAssumption DEF Component
  <2> HIDE DEF Byte, w, h, k
  <2> QED BY <1>3, <1>4, <2>1
<1>6. FromPng(file) = Image(w, h, data)
  BY <1>2 DEF FromPng
<1>7. ASSUME NEW y \in 1 .. h, NEW x \in 1 .. w
      PROVE  (y - 1) * w + x - 1 \in Indices(w, h) /\ (y - 1) * w + x - 1 = w * (y - 1) + (x - 1)
  <2>1. PICK x0 \in 0 .. w - 1, y0 \in 0 .. h - 1 : x0 = x - 1 /\ y0 = y - 1
    BY <1>1
  <2>2. w * y0 + x0 \in Indices(w, h)
    BY <1>1, InRow
  <2>3. w * y0 = y0 * w /\ w * y0 \in Nat
    BY <1>1
  <2> QED BY <2>1, <2>2, <2>3
<1> DEFINE i(x, y) == (y - 1) * w + x - 1
           p(x, y) == <<Byte(i(x, y), 0), Byte(i(x, y), 1), Byte(i(x, y), 2), a(i(x, y))>>
<1>8. RowsOf(file) = [y \in 1 .. h |-> [x \in 1 .. w |-> p(x, y)]]
  BY DEF RowsOf
<1>9. ASSUME NEW y \in 1 .. h, NEW x \in 1 .. w
      PROVE  p(x, y) = Channels(data[w * (y - 1) + (x - 1)])
  <2> DEFINE m == i(x, y)
  <2>1. m \in Indices(w, h) /\ m = w * (y - 1) + (x - 1)
    BY <1>7
  <2> HIDE DEF m, w, h, k, Byte, a
  <2>2. data[m] = Pack(Byte(m, 0), Byte(m, 1), Byte(m, 2), a(m))
    BY <2>1
  <2>3. Byte(m, 0) \in Component /\ Byte(m, 1) \in Component /\ Byte(m, 2) \in Component
        /\ a(m) \in Component
    BY <1>3, <1>4, <1>5, <2>1
  <2> HIDE DEF data
  <2>4. Channels(data[m]) = <<Byte(m, 0), Byte(m, 1), Byte(m, 2), a(m)>>
    BY <2>2, <2>3, UnpackPack DEF Channels
  <2> QED BY <2>1, <2>4 DEF m
<1> HIDE DEF p, data, w, h
<1>10. RowsOf(file) = [y \in 1 .. h |-> [x \in 1 .. w |-> Channels(data[w * (y - 1) + (x - 1)])]]
  BY <1>8, <1>9
<1>11. FromPng(file) = [width |-> w, height |-> h, data |-> data]
  BY <1>6 DEF Image
<1>12. RowsIn(FromPng(file)) = [y \in 1 .. h |-> [x \in 1 .. w |-> Channels(data[w * (y - 1) + (x - 1)])]]
  BY <1>11 DEF RowsIn
<1> QED BY <1>10, <1>12

\* A function on 1 .. n is a sequence of length n.
LEMMA LengthOf ==
  ASSUME NEW S, NEW n \in Nat, NEW f \in [1 .. n -> S]
  PROVE  f \in Seq(S) /\ Len(f) = n
OBVIOUS

\* Rows are sequences of as many rows as the image is high, as long as it is wide.
LEMMA RowsType ==
  ASSUME NEW img, IsImage(img)
  PROVE  /\ Len(RowsIn(img)) = img.height /\ DOMAIN RowsIn(img) = 1 .. img.height
         /\ \A y \in 1 .. img.height :
              /\ Len(RowsIn(img)[y]) = img.width
              /\ DOMAIN RowsIn(img)[y] = 1 .. img.width
              /\ \A x \in 1 .. img.width :
                   RowsIn(img)[y][x] = Channels(img.data[img.width * (y - 1) + (x - 1)])
<1> DEFINE w == img.width
           h == img.height
           P(x, y) == Channels(img.data[w * (y - 1) + (x - 1)])
           Row(y) == [x \in 1 .. w |-> P(x, y)]
<1>1. w \in Nat /\ h \in Nat
  BY DEF IsImage
<1>2. RowsIn(img) = [y \in 1 .. h |-> Row(y)]
  BY DEF RowsIn
<1> HIDE DEF P
<1>3. \A y : Row(y) \in [1 .. w -> {P(x, y) : x \in 1 .. w}]
  OBVIOUS
<1>4. \A y : Len(Row(y)) = w
  BY <1>1, <1>3, LengthOf
<1>5. \A y : DOMAIN Row(y) = 1 .. w /\ \A x \in 1 .. w : Row(y)[x] = P(x, y)
  OBVIOUS
<1> HIDE DEF Row
<1>6. RowsIn(img) \in [1 .. h -> {Row(y) : y \in 1 .. h}]
  BY <1>2
<1>7. Len(RowsIn(img)) = h
  BY <1>1, <1>6, LengthOf
<1> QED BY <1>2, <1>4, <1>5, <1>7 DEF P

\* The place of row y and column x
LEMMA PlaceOf ==
  ASSUME NEW w \in Nat, NEW h \in Nat, NEW x \in 1 .. w, NEW y \in 1 .. h
  PROVE  w * (y - 1) + (x - 1) \in Indices(w, h)
<1>1. PICK x0 \in 0 .. w - 1, y0 \in 0 .. h - 1 : x0 = x - 1 /\ y0 = y - 1
  OBVIOUS
<1> QED BY <1>1, InRow

\* The pixels of the new image
LEMMA NewImage ==
  ASSUME NEW img, IsImage(img), NEW plugin, NEW a
  PROVE  LET new == Transformed(plugin, a, img)
             all == Indices(img.width, img.height)
         IN  /\ new.width = img.width /\ new.height = img.height
             /\ plugin = "expose" => \A i \in all : new.data[i] = Expose(img.data[i], a)
             /\ plugin = "swapbg" => \A i \in all : new.data[i] = SwapBg(img.data[i])
             /\ plugin \notin {"expose", "swapbg"} =>
                  LET moves == Moves(plugin, a, img.width, img.height)
                  IN  Onto(moves, all) => \A m \in moves : new.data[m.to] = img.data[m.from]
<1> DEFINE w == img.width
           h == img.height
           moves == Moves(plugin, a, w, h)
           Put(i) == {m \in moves : m.to = i}
           New(i) == CASE plugin = "expose" -> Expose(img.data[i], a)
                       [] plugin = "swapbg" -> SwapBg(img.data[i])
                       [] OTHER -> IF Put(i) = {} THEN 0
                                   ELSE img.data[(CHOOSE m \in Put(i) : TRUE).from]
           data == [i \in Indices(w, h) |-> New(i)]
           new == Transformed(plugin, a, img)
<1>1. new = [width |-> w, height |-> h, data |-> data]
  BY DEF Transformed, Image
<1> HIDE DEF new
<1>2. new.width = w /\ new.height = h /\ new.data = data
  BY <1>1
<1>3. CASE plugin = "expose"
  <2>1. \A i : New(i) = Expose(img.data[i], a)
    BY <1>3
  <2> HIDE DEF New
  <2> QED BY <1>2, <1>3, <2>1 DEF new
<1>4. CASE plugin = "swapbg"
  <2>1. \A i : New(i) = SwapBg(img.data[i])
    BY <1>4
  <2> HIDE DEF New
  <2> QED BY <1>2, <1>4, <2>1 DEF new
<1>5. CASE plugin \notin {"expose", "swapbg"}
  <2>1. \A i : New(i) = IF Put(i) = {} THEN 0 ELSE img.data[(CHOOSE m \in Put(i) : TRUE).from]
    BY <1>5
  <2> HIDE DEF New, moves
  <2>2. ASSUME Onto(moves, Indices(w, h)), NEW m \in moves
        PROVE  new.data[m.to] = img.data[m.from]
    <3>1. m.to \in Indices(w, h) /\ \A o \in moves : o.to = m.to => o = m
      BY <2>2 DEF Onto
    <3>2. Put(m.to) = {m}
      BY <3>1
    <3>3. (CHOOSE o \in Put(m.to) : TRUE) = m
      BY <3>2
    <3>4. new.data[m.to] = New(m.to)
      BY <1>2, <3>1
    <3>5. Put(m.to) # {}
      BY <3>2
    <3> HIDE DEF Put
    <3> QED BY <2>1, <3>3, <3>4, <3>5
  <2> QED BY <1>2, <1>5, <2>2 DEF new, moves
<1> QED BY <1>3, <1>4, <1>5

\* swapbg
LEMMA SwappedRight ==
  ASSUME NEW img, IsImage(img), NEW a
  PROVE  RowsIn(Transformed("swapbg", a, img)) = Promised!Meaning("swapbg", a, RowsIn(img))
<1> DEFINE new == Transformed("swapbg", a, img)
           w == img.width
           h == img.height
           rows == RowsIn(img)
           Swap(p) == <<p[1], p[3], p[2], p[4]>>
<1>1. w \in Nat /\ h \in Nat /\ img.data \in [Indices(w, h) -> Pixel]
  BY DEF IsImage
<1>2. Promised!Meaning("swapbg", a, rows)
        = [y \in DOMAIN rows |-> [x \in DOMAIN rows[y] |-> Swap(rows[y][x])]]
  BY DEF Promised!Meaning, Promised!Swapped, Promised!EachPixel
<1>3. /\ DOMAIN rows = 1 .. h
      /\ \A y \in 1 .. h :
           /\ DOMAIN rows[y] = 1 .. w
           /\ \A x \in 1 .. w : rows[y][x] = Channels(img.data[w * (y - 1) + (x - 1)])
  BY RowsType
<1>4. /\ new.width = w /\ new.height = h
      /\ \A i \in Indices(w, h) : new.data[i] = SwapBg(img.data[i])
  BY NewImage
<1>5. ASSUME NEW i \in Indices(w, h) PROVE Channels(new.data[i]) = Swap(Channels(img.data[i]))
  <2>1. img.data[i] \in Int
    BY <1>1 DEF Pixel
  <2>2. Unpack(new.data[i]) = [r |-> Unpack(img.data[i]).r, g |-> Unpack(img.data[i]).b,
                               b |-> Unpack(img.data[i]).g, a |-> Unpack(img.data[i]).a]
    <3> DEFINE p == Unpack(img.data[i])
    <3>1. p.r \in Component /\ p.g \in Component /\ p.b \in Component /\ p.a \in Component
      BY <2>1, UnpackType
    <3>2. new.data[i] = Pack(p.r, p.b, p.g, p.a)
      BY <1>4 DEF SwapBg
    <3> HIDE DEF p, new
    <3>3. Unpack(Pack(p.r, p.b, p.g, p.a)) = [r |-> p.r, g |-> p.b, b |-> p.g, a |-> p.a]
      <4>1. PICK r \in Component, g \in Component, b \in Component, al \in Component :
              r = p.r /\ g = p.g /\ b = p.b /\ al = p.a
        BY <3>1
      <4>2. Unpack(Pack(r, b, g, al)) = [r |-> r, g |-> b, b |-> g, a |-> al]
        BY UnpackPack
      <4> QED BY <4>1, <4>2
    <3> QED BY <3>2, <3>3 DEF p
  <2> QED BY <2>2 DEF Channels
<1>6. ASSUME NEW y \in 1 .. h, NEW x \in 1 .. w
      PROVE  Channels(new.data[w * (y - 1) + (x - 1)]) = Swap(rows[y][x])
  BY <1>1, <1>3, <1>5, PlaceOf
<1>7. RowsIn(new) = [y \in 1 .. h |-> [x \in 1 .. w |-> Channels(new.data[w * (y - 1) + (x - 1)])]]
  BY <1>4 DEF RowsIn
<1> HIDE DEF new, w, h, rows, Swap
<1>8. RowsIn(new) = [y \in 1 .. h |-> [x \in 1 .. w |-> Swap(rows[y][x])]]
  BY <1>6, <1>7
<1>9. [y \in DOMAIN rows |-> [x \in DOMAIN rows[y] |-> Swap(rows[y][x])]]
        = [y \in 1 .. h |-> [x \in 1 .. w |-> Swap(rows[y][x])]]
  BY <1>3
<1> QED BY <1>2, <1>8, <1>9 DEF new, rows

\* expose: the capped multiple of a component is the greatest value that is not above
\* the factor's multiple.
LEMMA ExposedRight ==
  ASSUME NEW img, IsImage(img), NEW a, a.num \in Nat, a.den \in Nat \ {0}
  PROVE  RowsIn(Transformed("expose", a, img)) = Promised!Meaning("expose", a, RowsIn(img))
<1> DEFINE new == Transformed("expose", a, img)
           w == img.width
           h == img.height
           rows == RowsIn(img)
           Most(v) == CHOOSE u \in 0 .. Depth - 1 :
                        /\ u * a.den <= a.num * v
                        /\ \A z \in 0 .. Depth - 1 : z * a.den <= a.num * v => z <= u
           Bright(p) == <<Most(p[1]), Most(p[2]), Most(p[3]), p[4]>>
           Scaled(v) == IF a.num * v > (Depth - 1) * a.den THEN Depth - 1
                        ELSE (a.num * v) \div a.den
<1>1. w \in Nat /\ h \in Nat /\ img.data \in [Indices(w, h) -> Pixel]
  BY DEF IsImage
<1>2. Promised!Meaning("expose", a, rows)
        = [y \in DOMAIN rows |-> [x \in DOMAIN rows[y] |-> Bright(rows[y][x])]]
  BY DEF Promised!Meaning, Promised!Exposed, Promised!EachPixel
<1>3. /\ DOMAIN rows = 1 .. h
      /\ \A y \in 1 .. h :
           /\ DOMAIN rows[y] = 1 .. w
           /\ \A x \in 1 .. w : rows[y][x] = Channels(img.data[w * (y - 1) + (x - 1)])
  BY RowsType
<1>4. /\ new.width = w /\ new.height = h
      /\ \A i \in Indices(w, h) : new.data[i] = Expose(img.data[i], a)
  BY NewImage
<1>5. ASSUME NEW v \in Component PROVE Scaled(v) \in Component /\ Most(v) = Scaled(v)
  <2>1. PICK top \in Nat, den \in Nat \ {0}, m \in Nat :
          top = Depth - 1 /\ den = a.den /\ m = a.num * v
    BY ImageAssumption DEF Component
  <2>2. ASSUME NEW u \in 0 .. top, u * den <= m, \A z \in 0 .. top : z * den <= m => z <= u
        PROVE  Most(v) = u
    <3> DEFINE Is(n) == n * den <= m /\ \A z \in 0 .. top : z * den <= m => z <= n
    <3>1. Most(v) = CHOOSE n \in 0 .. top : Is(n)
      BY <2>1
    <3>2. \A n \in 0 .. top : Is(n) => n = u
      BY <2>2
    <3>3. Is(u)
      BY <2>2
    <3> HIDE DEF Is
    <3> QED BY <3>1, <3>2, <3>3
  <2>3. CASE m > top * den
    <3>1. Scaled(v) = top
      BY <2>1, <2>3
    <3>2. top * den <= m
      BY <2>3
    <3> QED BY <2>1, <2>2, <3>1, <3>2 DEF Component
  <2>4. CASE ~(m > top * den)
    <3> DEFINE q == m \div den
    <3>1. q \in Nat /\ m % den \in 0 .. den - 1 /\ m = den * q + (m % den)
      BY Division
    <3>2. Scaled(v) = q
      BY <2>1, <2>4
    <3> HIDE DEF q
    <3>3. q * den <= m
      BY <3>1
    <3>4. ASSUME NEW z \in Nat, z * den <= m PROVE z <= q
      <4>1. SUFFICES ASSUME z >= q + 1 PROVE FALSE
        BY <3>1
      <4>2. den * (q + 1) <= den * z
        BY <3>1, <4>1, TimesKeeps
      <4>3. den * (q + 1) = den * q + den /\ den * z = z * den /\ den * q \in Nat
        BY <3>1
      <4> QED BY <3>1, <3>4, <4>2, <4>3
    <3>5. q <= top
      <4>1. SUFFICES ASSUME q >= top + 1 PROVE FALSE
        BY <3>1
      <4>2. den * (top + 1) <= den * q
        BY <3>1, <4>1, TimesKeeps
      <4>3. den * (top + 1) = top * den + den /\ den * q = q * den /\ top * den \in Nat /\ q * den \in Nat
        BY <3>1
      <4> QED BY <2>4, <3>3, <4>2, <4>3
    <3>6. q \in 0 .. top /\ \A z \in 0 .. top : z * den <= m => z <= q
      BY <3>1, <3>4, <3>5
    <3>7. Most(v) = q
      <4> HIDE DEF Most
      <4> QED BY <2>2, <3>3, <3>6
    <3> HIDE DEF Most, Scaled
    <3> QED BY <2>1, <3>2, <3>6, <3>7 DEF Component
  <2> QED BY <2>3, <2>4
<1> HIDE DEF Most
<1>6. ASSUME NEW i \in Indices(w, h) PROVE Channels(new.data[i]) = Bright(Channels(img.data[i]))
  <2> DEFINE p == Unpack(img.data[i])
  <2>1. img.data[i] \in Int
    BY <1>1 DEF Pixel
  <2>2. p.r \in Component /\ p.g \in Component /\ p.b \in Component /\ p.a \in Component
    BY <2>1, UnpackType
  <2>3. new.data[i] = Pack(Scaled(p.r), Scaled(p.g), Scaled(p.b), p.a)
    BY <1>4 DEF Expose
  <2>4. Channels(img.data[i]) = <<p.r, p.g, p.b, p.a>>
    BY DEF Channels
  <2> HIDE DEF p, new, Scaled
  <2>5. Unpack(Pack(Scaled(p.r), Scaled(p.g), Scaled(p.b), p.a))
          = [r |-> Scaled(p.r), g |-> Scaled(p.g), b |-> Scaled(p.b), a |-> p.a]
    <3>1. PICK r \in Component, g \in Component, b \in Component :
            r = Scaled(p.r) /\ g = Scaled(p.g) /\ b = Scaled(p.b)
      BY <1>5, <2>2
    <3>2. Unpack(Pack(r, g, b, p.a)) = [r |-> r, g |-> g, b |-> b, a |-> p.a]
      BY <2>2, UnpackPack
    <3> QED BY <3>1, <3>2
  <2>6. Channels(new.data[i]) = <<Scaled(p.r), Scaled(p.g), Scaled(p.b), p.a>>
    BY <2>3, <2>5 DEF Channels
  <2> QED BY <1>5, <2>2, <2>4, <2>6
<1>7. ASSUME NEW y \in 1 .. h, NEW x \in 1 .. w
      PROVE  Channels(new.data[w * (y - 1) + (x - 1)]) = Bright(rows[y][x])
  BY <1>1, <1>3, <1>6, PlaceOf
<1>8. RowsIn(new) = [y \in 1 .. h |-> [x \in 1 .. w |-> Channels(new.data[w * (y - 1) + (x - 1)])]]
  BY <1>4 DEF RowsIn
<1> HIDE DEF new, w, h, rows, Bright
<1>9. RowsIn(new) = [y \in 1 .. h |-> [x \in 1 .. w |-> Bright(rows[y][x])]]
  BY <1>7, <1>8
<1>10. [y \in DOMAIN rows |-> [x \in DOMAIN rows[y] |-> Bright(rows[y][x])]]
        = [y \in 1 .. h |-> [x \in 1 .. w |-> Bright(rows[y][x])]]
  BY <1>3
<1> QED BY <1>2, <1>9, <1>10 DEF new, rows

\* mirrorh
LEMMA MirroredHRight ==
  ASSUME NEW img, IsImage(img), NEW a
  PROVE  RowsIn(Transformed("mirrorh", a, img)) = Promised!Meaning("mirrorh", a, RowsIn(img))
<1> DEFINE new == Transformed("mirrorh", a, img)
           w == img.width
           h == img.height
           rows == RowsIn(img)
<1>1. w \in Nat /\ h \in Nat
  BY DEF IsImage
<1>2. Promised!Meaning("mirrorh", a, rows)
        = [y \in DOMAIN rows |-> [x \in 1 .. Len(rows[y]) |-> rows[y][(Len(rows[y]) - x) + 1]]]
  BY DEF Promised!Meaning, Promised!MirroredH, Promised!Reverse
<1>3. /\ DOMAIN rows = 1 .. h
      /\ \A y \in 1 .. h :
           /\ Len(rows[y]) = w
           /\ \A x \in 1 .. w : rows[y][x] = Channels(img.data[w * (y - 1) + (x - 1)])
  BY RowsType
<1>4. /\ new.width = w /\ new.height = h
      /\ \A m \in MirrorH(w, h) : new.data[m.to] = img.data[m.from]
  <2>1. Moves("mirrorh", a, w, h) = MirrorH(w, h)
    BY DEF Moves
  <2>2. Onto(MirrorH(w, h), Indices(w, h))
    BY <1>1, MirrorHOnto
  <2> QED BY <2>1, <2>2, NewImage
<1>5. ASSUME NEW y \in 1 .. h, NEW x \in 1 .. w
      PROVE  Channels(new.data[w * (y - 1) + (x - 1)]) = rows[y][(w - x) + 1]
  <2>1. PICK i \in 0 .. w - 1, j \in 0 .. h - 1 : i = x - 1 /\ j = y - 1
    BY <1>1
  <2>2. [to |-> w * j + i, from |-> w * j + (w - 1 - i)] \in MirrorH(w, h)
    BY DEF MirrorH
  <2>3. new.data[w * j + i] = img.data[w * j + (w - 1 - i)]
    <3> HIDE DEF new, w, h
    <3> QED BY <1>4, <2>2
  <2>4. (w - x) + 1 \in 1 .. w /\ ((w - x) + 1) - 1 = w - 1 - i
    BY <1>1, <2>1
  <2>5. rows[y][(w - x) + 1] = Channels(img.data[w * (y - 1) + (((w - x) + 1) - 1)])
    BY <1>3, <2>4
  <2> HIDE DEF new, w, h, rows
  <2> QED BY <2>1, <2>3, <2>4, <2>5
<1>6. RowsIn(new) = [y \in 1 .. h |-> [x \in 1 .. w |-> Channels(new.data[w * (y - 1) + (x - 1)])]]
  BY <1>4 DEF RowsIn
<1> HIDE DEF new, w, h, rows
<1>7. RowsIn(new) = [y \in 1 .. h |-> [x \in 1 .. w |-> rows[y][(w - x) + 1]]]
  BY <1>5, <1>6
<1> QED BY <1>2, <1>3, <1>7 DEF new, rows

\* mirrorv
LEMMA MirroredVRight ==
  ASSUME NEW img, IsImage(img), NEW a
  PROVE  RowsIn(Transformed("mirrorv", a, img)) = Promised!Meaning("mirrorv", a, RowsIn(img))
<1> DEFINE new == Transformed("mirrorv", a, img)
           w == img.width
           h == img.height
           rows == RowsIn(img)
<1>1. w \in Nat /\ h \in Nat
  BY DEF IsImage
<1>2. Promised!Meaning("mirrorv", a, rows) = [y \in 1 .. Len(rows) |-> rows[(Len(rows) - y) + 1]]
  BY DEF Promised!Meaning, Promised!MirroredV, Promised!Reverse
<1>3. Len(rows) = h
  BY RowsType
<1>4. /\ new.width = w /\ new.height = h
      /\ \A m \in MirrorV(w, h) : new.data[m.to] = img.data[m.from]
  <2>1. Moves("mirrorv", a, w, h) = MirrorV(w, h)
    BY DEF Moves
  <2>2. Onto(MirrorV(w, h), Indices(w, h))
    BY <1>1, MirrorVOnto
  <2> QED BY <2>1, <2>2, NewImage
<1>5. ASSUME NEW y \in 1 .. h, NEW x \in 1 .. w
      PROVE  new.data[w * (y - 1) + (x - 1)] = img.data[w * (((h - y) + 1) - 1) + (x - 1)]
  <2>1. PICK i \in 0 .. w - 1, j \in 0 .. h - 1 : i = x - 1 /\ j = y - 1
    BY <1>1
  <2>2. [to |-> w * j + i, from |-> w * (h - 1 - j) + i] \in MirrorV(w, h)
    <3> DEFINE M(x0, y0) == [to |-> w * y0 + x0, from |-> w * (h - 1 - y0) + x0]
    <3>1. MirrorV(w, h) = {M(x0, y0) : x0 \in 0 .. w - 1, y0 \in 0 .. h - 1}
      BY DEF MirrorV
    <3>2. M(i, j) \in {M(x0, y0) : x0 \in 0 .. w - 1, y0 \in 0 .. h - 1}
      <4> HIDE DEF M, w, h
      <4> QED OBVIOUS
    <3> QED BY <3>1, <3>2
  <2>3. new.data[w * j + i] = img.data[w * (h - 1 - j) + i]
    <3> HIDE DEF new, w, h
    <3> QED BY <1>4, <2>2
  <2>4. ((h - y) + 1) - 1 = h - 1 - j
    BY <1>1, <2>1
  <2> HIDE DEF new, w, h
  <2> QED BY <2>1, <2>3, <2>4
<1>6. RowsIn(new) = [y \in 1 .. h |-> [x \in 1 .. w |-> Channels(new.data[w * (y - 1) + (x - 1)])]]
  BY <1>4 DEF RowsIn
<1>7. rows = [y \in 1 .. h |-> [x \in 1 .. w |-> Channels(img.data[w * (y - 1) + (x - 1)])]]
  BY DEF RowsIn
<1> HIDE DEF new, w, h, rows
<1>8. ASSUME NEW y \in 1 .. h
      PROVE  [x \in 1 .. w |-> Channels(new.data[w * (y - 1) + (x - 1)])] = rows[(h - y) + 1]
  <2>1. (h - y) + 1 \in 1 .. h
    BY <1>1 DEF w, h
  <2>2. rows[(h - y) + 1] = [x \in 1 .. w |-> Channels(img.data[w * (((h - y) + 1) - 1) + (x - 1)])]
    BY <1>7, <2>1
  <2> QED BY <1>5, <2>2
<1>9. RowsIn(new) = [y \in 1 .. h |-> rows[(h - y) + 1]]
  BY <1>6, <1>8
<1> QED BY <1>2, <1>3, <1>9 DEF new, rows

-----------------------------------------------------------------------------
(* tile: the pieces of an edge put end to end.  FlattenSeq is a recursive    *)
(* function on numbers: what it does not do, there is a least number at      *)
(* which it does not.                                                      *)

\* A set of numbers has a least one.
LEMMA LeastNumber ==
  ASSUME NEW S, S \subseteq Nat, S # {}
  PROVE  \E x \in S : \A y \in S : x <= y
<1> DEFINE Less == {ss \in Nat \X Nat : ss[1] < ss[2]}
<1>1. IsWellFoundedOn(Less, Nat)
  <2>1. OpToRel(<, Nat) = Less
    BY Zenon DEF OpToRel
  <2> QED BY <2>1, NatLessThanWellFounded, Zenon
<1>2. PICK x \in S : \A y \in S : <<y, x>> \notin Less
  <2> HIDE DEF Less
  <2> QED BY <1>1, WFMin
<1>3. ASSUME NEW y \in S PROVE x <= y
  <2>1. ~ (y < x)
    <3>1. SUFFICES ASSUME y < x PROVE <<y, x>> \in Less
      BY <1>2
    <3>2. <<y, x>> \in Nat \X Nat /\ <<y, x>>[1] < <<y, x>>[2]
      BY <3>1
    <3> QED BY <3>2, Zenon
  <2> QED BY <2>1
<1> QED BY <1>3

\* The sequences put end to end so far, as FlattenSeq computes them, exist.
LEMMA FlattenExists ==
  ASSUME NEW seqs, NEW n \in Nat
  PROVE  \E g : g = [i \in 1 .. n |-> IF i = 1 THEN seqs[i] ELSE g[i-1] \o seqs[i]]
<1> DEFINE Ok(k) == \E g : g = [i \in 1 .. k |-> IF i = 1 THEN seqs[i] ELSE g[i-1] \o seqs[i]]
           Bad == {k \in Nat : ~Ok(k)}
<1>1. Ok(0)
  <2> DEFINE g == [i \in 1 .. 0 |-> seqs[i]]
  <2>1. g = [i \in 1 .. 0 |-> IF i = 1 THEN seqs[i] ELSE g[i-1] \o seqs[i]]
    OBVIOUS
  <2> QED BY <2>1
<1>2. SUFFICES ASSUME Bad # {} PROVE FALSE
  OBVIOUS
<1>3. PICK k \in Bad : \A m \in Bad : k <= m
  <2>1. Bad \subseteq Nat
    OBVIOUS
  <2> HIDE DEF Bad
  <2> QED BY <2>1, <1>2, LeastNumber
<1>4. k \in Nat /\ k > 0 /\ ~Ok(k) /\ k - 1 \in Nat
  <2>1. k \in Nat /\ ~Ok(k)
    OBVIOUS
  <2>2. k # 0
    BY <2>1, <1>1
  <2> HIDE DEF Ok
  <2> QED BY <2>1, <2>2
<1>5. Ok(k - 1)
  <2>1. k - 1 \notin Bad
    <3> HIDE DEF Bad
    <3> QED BY <1>3, <1>4
  <2> HIDE DEF Ok
  <2> QED BY <2>1, <1>4
<1>6. PICK g : g = [i \in 1 .. k - 1 |-> IF i = 1 THEN seqs[i] ELSE g[i-1] \o seqs[i]]
  BY <1>5
<1> DEFINE h == [i \in 1 .. k |-> IF i = 1 THEN seqs[i] ELSE g[i-1] \o seqs[i]]
<1>7. \A i \in 1 .. k - 1 : h[i] = g[i]
  <2>1. TAKE i \in 1 .. k - 1
  <2>2. i \in 1 .. k
    BY <1>4
  <2>3. h[i] = IF i = 1 THEN seqs[i] ELSE g[i-1] \o seqs[i]
    BY <2>2
  <2>4. g[i] = IF i = 1 THEN seqs[i] ELSE g[i-1] \o seqs[i]
    BY <1>6
  <2> QED BY <2>3, <2>4
<1>8. \A i \in 1 .. k : (IF i = 1 THEN seqs[i] ELSE g[i-1] \o seqs[i])
                          = (IF i = 1 THEN seqs[i] ELSE h[i-1] \o seqs[i])
  <2>1. TAKE i \in 1 .. k
  <2>2. CASE i = 1
    BY <2>2
  <2>3. CASE i # 1
    <3>1. i - 1 \in 1 .. k - 1
      BY <2>3, <1>4
    <3>2. h[i-1] = g[i-1]
      BY <3>1, <1>7
    <3> HIDE DEF h
    <3> QED BY <2>3, <3>2
  <2> QED BY <2>2, <2>3
<1>9. h = [i \in 1 .. k |-> IF i = 1 THEN seqs[i] ELSE h[i-1] \o seqs[i]]
  BY <1>8, Zenon
<1>10. Ok(k)
  <2> HIDE DEF h
  <2> QED BY <1>9
<1> QED BY <1>4, <1>10

\* The pieces that the description speaks of are as long as the loops' ones.
LEMMA PartLength ==
  ASSUME NEW size \in Nat, NEW n \in Nat \ {0}, NEW t \in 1 .. n
  PROVE  /\ t > size => Extent(size, n, t - 1) = 0
         /\ t <= size => /\ Extent(size, n, t - 1) = (size - t) \div n + 1
                         /\ Extent(size, n, t - 1) \in 1 .. (size + n - 1) \div n
<1> DEFINE q == size \div n
           r == size % n
<1>1. q \in Nat /\ r \in 0 .. n - 1 /\ size = n * q + r
  OBVIOUS
<1>2. Extent(size, n, t - 1) = q + (IF t - 1 < r THEN 1 ELSE 0)
  BY DEF Extent
<1> HIDE DEF q, r
<1>3. n * q \in Nat /\ (q >= 1 => n * q >= n) /\ (q = 0 => n * q = 0)
  <2>1. q >= 1 => n * 1 <= n * q
    BY <1>1, TimesKeeps
  <2> QED BY <1>1, <2>1
<1>4. ASSUME t > size PROVE Extent(size, n, t - 1) = 0
  BY <1>1, <1>2, <1>3, <1>4
<1>5. ASSUME t <= size PROVE Extent(size, n, t - 1) = (size - t) \div n + 1
  <2>1. CASE t - 1 < r
    <3>1. size - t = n * q + (r - t) /\ r - t \in 0 .. n - 1
      BY <1>1, <1>3, <2>1
    <3>2. PICK x \in Nat, s \in 0 .. n - 1 : x = size - t /\ s = r - t
      BY <1>1, <1>5, <3>1
    <3>3. x \div n = q
      BY <1>1, <3>1, <3>2, QuotientIs
    <3> QED BY <1>1, <1>2, <2>1, <3>2, <3>3
  <2>2. CASE ~(t - 1 < r)
    <3>1. q >= 1
      BY <1>1, <1>3, <1>5, <2>2
    <3>2. n * (q - 1) = n * q - n
      BY <1>1
    <3>3. PICK x \in Nat, s \in 0 .. n - 1, p \in Nat : x = size - t /\ s = n - (t - r) /\ p = q - 1
      BY <1>1, <1>5, <2>2, <3>1
    <3>4. x = n * p + s
      BY <1>1, <1>3, <3>2, <3>3
    <3>5. x \div n = p
      BY <3>4, QuotientIs
    <3> QED BY <1>1, <1>2, <2>2, <3>3, <3>5
  <2> QED BY <2>1, <2>2
<1>6. ASSUME t <= size PROVE Extent(size, n, t - 1) \in 1 .. (size + n - 1) \div n
  <2> DEFINE d == (size - t) \div n
             u == (size + n - 1) \div n
  <2>1. d \in Nat /\ n * d <= size - t
    <3>1. PICK x \in Nat : x = size - t
      BY <1>6
    <3>2. x \div n \in Nat /\ n * (x \div n) <= x
      BY Division
    <3> QED BY <3>1, <3>2
  <2>2. u \in Nat /\ n * u >= size
    <3>1. PICK x \in Nat : x = size + n - 1
      OBVIOUS
    <3>2. x \div n \in Nat /\ n * (x \div n) > x - n
      BY Division
    <3> QED BY <3>1, <3>2
  <2> HIDE DEF d, u
  <2>3. d < u
    <3>1. SUFFICES ASSUME u <= d PROVE FALSE
      BY <2>1, <2>2
    <3>2. n * u <= n * d
      BY <2>1, <2>2, <3>1, TimesKeeps
    <3>3. n * u \in Nat /\ n * d \in Nat
      BY <2>1, <2>2
    <3> QED BY <2>1, <2>2, <3>2, <3>3
  <2>4. Extent(size, n, t - 1) = d + 1
    BY <1>5, <1>6 DEF d
  <2> QED BY <2>1, <2>2, <2>3, <2>4 DEF u
<1> QED BY <1>4, <1>5, <1>6

\* One piece: every nth element from the first one on.
LEMMA PartIs ==
  ASSUME NEW S, NEW s \in Seq(S), NEW n \in Nat \ {0}, NEW t \in 1 .. n
  PROVE  LET piece == IF t > Len(s) THEN <<>> ELSE Promised!Part(s, n, t)
         IN  /\ piece \in Seq(S) /\ Len(piece) = Extent(Len(s), n, t - 1)
             /\ \A i \in 1 .. Len(piece) : piece[i] = s[(i - 1) * n + 1]
<1> DEFINE L == Len(s)
           all == (L + n - 1) \div n
           Every == [k \in 1 .. all |-> s[(k - 1) * n + 1]]
           e == (L - t) \div n + 1
<1>1. L \in Nat
  OBVIOUS
<1>2. CASE t > L
  <2>1. Extent(L, n, t - 1) = 0
    BY <1>1, <1>2, PartLength
  <2>2. <<>> \in Seq(S) /\ Len(<<>>) = 0
    OBVIOUS
  <2> QED BY <1>2, <2>1, <2>2
<1>3. CASE ~(t > L)
  <2>1. Extent(L, n, t - 1) = e /\ e \in 1 .. all
    BY <1>1, <1>3, PartLength
  <2>2. all \in Nat /\ n * all <= L + n - 1
    <3> HIDE DEF L
    <3>1. PICK x \in Nat : x = L + n - 1
      BY <1>1
    <3>2. PICK d \in Nat, m \in 0 .. n - 1 : d = x \div n /\ x = n * d + m
      BY Division
    <3>3. n * d <= x
      BY <3>2
    <3> QED BY <3>1, <3>2, <3>3
  <2>3. Promised!Part(s, n, t) = SubSeq(Every, 1, e)
    BY DEF Promised!Part, Promised!Sampled
  <2> HIDE DEF all, e, L
  <2>4. ASSUME NEW k \in 1 .. all PROVE s[(k - 1) * n + 1] \in S
    <3>1. n * (k - 1) <= n * (all - 1) /\ n * (all - 1) = n * all - n /\ n * (k - 1) \in Nat
      BY <2>2, TimesKeeps
    <3>2. n * (k - 1) = (k - 1) * n
      OBVIOUS
    <3>3. (k - 1) * n + 1 \in 1 .. L
      BY <1>1, <2>2, <3>1, <3>2
    <3> QED BY <3>3 DEF L
  <2>5. Every \in [1 .. all -> S]
    BY <2>4
  <2>6. Every \in Seq(S) /\ Len(Every) = all
    BY <2>2, <2>5, LengthOf
  <2>7. \A k \in 1 .. all : Every[k] = s[(k - 1) * n + 1]
    OBVIOUS
  <2> HIDE DEF Every
  <2>8. /\ SubSeq(Every, 1, e) \in Seq(S) /\ Len(SubSeq(Every, 1, e)) = e
        /\ \A i \in 1 .. e : SubSeq(Every, 1, e)[i] = Every[i]
    BY <2>1, <2>2, <2>6
  <2>9. \A i \in 1 .. e : i \in 1 .. all
    BY <2>1, <2>2
  <2> QED BY <1>3, <2>1, <2>3, <2>7, <2>8, <2>9 DEF L
<1> QED BY <1>2, <1>3

\* All of them fill the edge.
LEMMA RepeatedIs ==
  ASSUME NEW S, NEW s \in Seq(S), NEW n \in Nat \ {0}
  PROVE  LET new == Promised!Repeated(s, n)
         IN  /\ new \in Seq(S) /\ Len(new) = Len(s)
             /\ \A t \in 0 .. n - 1 : \A i \in 0 .. Extent(Len(s), n, t) - 1 :
                  new[Begins(Len(s), n, t) + i + 1] = s[i * n + 1]
<1> DEFINE L == Len(s)
           B(t) == Begins(L, n, t)
           E(t) == Extent(L, n, t)
           P(t) == IF t > Len(s) THEN <<>> ELSE Promised!Part(s, n, t)
           seqs == [t \in 1 .. n |-> P(t)]
           Is(g) == g = [i \in 1 .. n |-> IF i = 1 THEN seqs[i] ELSE g[i-1] \o seqs[i]]
           flat == CHOOSE g : Is(g)
           Filled(k) == /\ flat[k] \in Seq(S) /\ Len(flat[k]) = B(k)
                        /\ \A t \in 0 .. k - 1 : \A i \in 0 .. E(t) - 1 :
                             flat[k][B(t) + i + 1] = s[i * n + 1]
<1>1. L \in Nat
  OBVIOUS
<1>2. ASSUME NEW t \in 1 .. n
      PROVE  /\ seqs[t] \in Seq(S) /\ Len(seqs[t]) = E(t - 1)
             /\ \A i \in 1 .. E(t - 1) : seqs[t][i] = s[(i - 1) * n + 1]
  <2>1. seqs[t] = P(t)
    OBVIOUS
  <2>2. /\ P(t) \in Seq(S) /\ Len(P(t)) = Extent(Len(s), n, t - 1)
        /\ \A i \in 1 .. Len(P(t)) : P(t)[i] = s[(i - 1) * n + 1]
    BY PartIs
  <2> HIDE DEF P, seqs
  <2> QED BY <2>1, <2>2
<1>3. Len(seqs) = n
  <2>1. seqs \in [1 .. n -> {P(t) : t \in 1 .. n}]
    <3> HIDE DEF P
    <3> QED OBVIOUS
  <2> HIDE DEF seqs
  <2> QED BY <2>1, LengthOf
<1>4. Promised!Repeated(s, n) = flat[n]
  <2>1. Promised!Repeated(s, n) = Promised!FlattenSeq(seqs)
    BY DEF Promised!Repeated
  <2> HIDE DEF seqs
  <2> QED BY <1>3, <2>1 DEF Promised!FlattenSeq
<1> HIDE DEF P
<1>5. Is(flat)
  <2>1. \E g : Is(g)
    <3> HIDE DEF seqs
    <3> QED BY FlattenExists
  <2> HIDE DEF Is
  <2> QED BY <2>1, Zenon
<1>6. \A i \in 1 .. n : flat[i] = IF i = 1 THEN seqs[i] ELSE flat[i-1] \o seqs[i]
  <2> HIDE DEF flat, seqs
  <2> QED BY <1>5
<1> HIDE DEF flat, seqs, Is
<1>7. /\ \A t \in Nat : B(t) \in Nat /\ E(t) \in Nat /\ B(t + 1) = B(t) + E(t)
      /\ \A u, t \in Nat : u < t => B(u) + E(u) <= B(t)
      /\ B(0) = 0 /\ B(n) = L
  BY <1>1, PiecesJoin
<1> HIDE DEF B, E, L
<1>8. Filled(1)
  <2>1. flat[1] = seqs[1] /\ 1 \in 1 .. n /\ 1 - 1 = 0
    BY <1>6
  <2>2. seqs[1] \in Seq(S) /\ Len(seqs[1]) = E(0) /\ \A i \in 1 .. E(0) : seqs[1][i] = s[(i - 1) * n + 1]
    BY <1>2, <2>1
  <2>3. B(0 + 1) = B(0) + E(0) /\ E(0) \in Nat /\ B(1) = E(0)
    BY <1>7
  <2>4. ASSUME NEW i \in 0 .. E(0) - 1 PROVE flat[1][B(0) + i + 1] = s[i * n + 1]
    <3>1. i + 1 \in 1 .. E(0) /\ (i + 1) - 1 = i
      BY <2>3
    <3>2. B(0) + i + 1 = i + 1
      BY <1>7
    <3>3. seqs[1][i + 1] = s[((i + 1) - 1) * n + 1]
      BY <2>2, <3>1
    <3> QED BY <2>1, <3>1, <3>2, <3>3
  <2>5. 0 .. 1 - 1 = {0}
    OBVIOUS
  <2> QED BY <2>1, <2>2, <2>3, <2>4, <2>5
<1>9. ASSUME NEW k \in 2 .. n, Filled(k - 1) PROVE Filled(k)
  <2>0. k \in 1 .. n /\ k # 1 /\ k - 1 \in Nat
    OBVIOUS
  <2>1. k \in 1 .. n /\ k - 1 \in Nat /\ flat[k] = flat[k-1] \o seqs[k]
    BY <1>6, <2>0
  <2> DEFINE f == flat[k-1]
             p == seqs[k]
  <2>2. f \in Seq(S) /\ Len(f) = B(k - 1)
    BY <1>9
  <2>3. p \in Seq(S) /\ Len(p) = E(k - 1) /\ \A i \in 1 .. E(k - 1) : p[i] = s[(i - 1) * n + 1]
    BY <1>2, <2>1
  <2>4. (k - 1) + 1 = k
    OBVIOUS
  <2>5. B(k) = B(k - 1) + E(k - 1) /\ B(k - 1) \in Nat /\ E(k - 1) \in Nat
    BY <1>7, <2>1, <2>4
  <2>6. /\ flat[k] = f \o p /\ f \o p \in Seq(S) /\ Len(f \o p) = Len(f) + Len(p)
        /\ \A i \in 1 .. Len(f) : (f \o p)[i] = f[i]
        /\ \A i \in 1 .. Len(p) : (f \o p)[Len(f) + i] = p[i]
    <3>1. flat[k] = f \o p
      BY <2>1
    <3>2. PICK u \in Seq(S), v \in Seq(S) : u = f /\ v = p
      BY <2>2, <2>3
    <3>3. /\ u \o v \in Seq(S) /\ Len(u \o v) = Len(u) + Len(v)
          /\ \A i \in 1 .. Len(u) : (u \o v)[i] = u[i]
          /\ \A i \in 1 .. Len(v) : (u \o v)[Len(u) + i] = v[i]
      BY ConcatProperties
    <3> HIDE DEF f, p
    <3> QED BY <3>1, <3>2, <3>3
  <2>7. ASSUME NEW t \in 0 .. k - 1, NEW i \in 0 .. E(t) - 1
        PROVE  flat[k][B(t) + i + 1] = s[i * n + 1]
    <3>1. CASE t = k - 1
      <4>1. PICK j \in 1 .. E(k - 1) : j = i + 1 /\ j - 1 = i /\ B(t) + i + 1 = Len(f) + j
        <5>1. i + 1 \in 1 .. E(k - 1) /\ (i + 1) - 1 = i
          BY <2>5, <3>1
        <5>2. B(t) = Len(f) /\ B(t) \in Nat
          BY <2>2, <2>5, <3>1
        <5>3. B(t) + i + 1 = Len(f) + (i + 1)
          <6>1. PICK b \in Nat : b = B(t) /\ b = Len(f)
            <7> HIDE DEF f
            <7> QED BY <5>2
          <6>2. b + i + 1 = b + (i + 1)
            OBVIOUS
          <6> HIDE DEF f
          <6> QED BY <6>1, <6>2
        <5> HIDE DEF f
        <5> QED BY <5>1, <5>3
      <4> HIDE DEF f, p
      <4> QED BY SMTT(30), <2>3, <2>6, <4>1
    <3>2. CASE t # k - 1
      <4>1. t \in 0 .. (k - 1) - 1 /\ t < k - 1 /\ t \in Nat
        BY <3>2
      <4>2. B(t) + E(t) <= B(k - 1) /\ B(t) \in Nat /\ E(t) \in Nat
        BY <1>7, <2>1, <4>1
      <4>3. B(t) + i + 1 \in 1 .. Len(f)
        <5> HIDE DEF f
        <5> QED BY <2>2, <2>5, <4>2
      <4>4. f[B(t) + i + 1] = s[i * n + 1]
        BY <1>9, <4>1
      <4> HIDE DEF f, p
      <4> QED BY <2>6, <4>3, <4>4
    <3> QED BY <3>1, <3>2
  <2> HIDE DEF f, p
  <2> QED BY <2>2, <2>3, <2>5, <2>6, <2>7
<1> HIDE DEF Filled
<1>10. \A k \in 1 .. n : Filled(k)
  <2> DEFINE Bad == {k \in 1 .. n : ~Filled(k)}
  <2>1. SUFFICES ASSUME Bad # {} PROVE FALSE
    OBVIOUS
  <2>2. Bad \subseteq Nat
    OBVIOUS
  <2>3. PICK k \in Bad : \A m \in Bad : k <= m
    <3> HIDE DEF Bad
    <3> QED BY <2>1, <2>2, LeastNumber
  <2>4. k \in 1 .. n /\ ~Filled(k) /\ k # 1
    BY <1>8
  <2>5. k \in 2 .. n /\ k - 1 \in 1 .. n /\ ~(k <= k - 1)
    BY <2>4
  <2>6. k - 1 \notin Bad
    <3> HIDE DEF Bad
    <3> QED BY <2>3, <2>5, Zenon
  <2>7. Filled(k - 1)
    BY <2>5, <2>6
  <2> QED BY <1>9, <2>4, <2>5, <2>7
<1>11. Filled(n)
  <2>1. n \in 1 .. n
    OBVIOUS
  <2> QED BY <1>10, <2>1
<1> QED BY <1>4, <1>7, <1>11 DEF Filled, B, E, L

\* One assignment of tile's loops
LEMMA TilePlace ==
  ASSUME NEW w \in Nat, NEW h \in Nat, NEW n \in Nat \ {0},
         NEW ni \in 0 .. n - 1, NEW i \in 0 .. Extent(w, n, ni) - 1,
         NEW nj \in 0 .. n - 1, NEW j \in 0 .. Extent(h, n, nj) - 1
  PROVE  \E m \in Tile(w, h, n) :
           /\ m.to = w * (Begins(h, n, nj) + j) + (Begins(w, n, ni) + i)
           /\ m.from = w * (j * n) + i * n
<1> DEFINE Tiles == 0 .. n - 1
           Xs(a) == 0 .. Extent(w, n, a) - 1
           Ys(b) == 0 .. Extent(h, n, b) - 1
           M(a, b, x, y) == [to |-> w * (Begins(h, n, b) + y) + Begins(w, n, a) + x,
                             from |-> w * y * n + x * n]
           Piece(a, b) == {M(a, b, x, y) : x \in Xs(a), y \in Ys(b)}
           m == M(ni, nj, i, j)
<1>1. m \in Piece(ni, nj)
  <2> HIDE DEF M
  <2> QED OBVIOUS
<1>2. Piece(ni, nj) \in {Piece(a, b) : a, b \in Tiles}
  <2> HIDE DEF Piece
  <2> QED OBVIOUS
<1>3. Tile(w, h, n) = UNION {Piece(a, b) : a, b \in Tiles}
  BY DEF Tile
<1>4. m \in Tile(w, h, n)
  <2> HIDE DEF Piece
  <2> QED BY <1>1, <1>2, <1>3
<1>5. /\ Begins(w, n, ni) \in Nat /\ Begins(h, n, nj) \in Nat
      /\ i \in Nat /\ j \in Nat
  BY PiecesJoin
<1>6. /\ w * (Begins(h, n, nj) + j) + Begins(w, n, ni) + i
            = w * (Begins(h, n, nj) + j) + (Begins(w, n, ni) + i)
      /\ w * j * n + i * n = w * (j * n) + i * n
  BY <1>5
<1>7. m.to = w * (Begins(h, n, nj) + j) + Begins(w, n, ni) + i /\ m.from = w * j * n + i * n
  OBVIOUS
<1> HIDE DEF m
<1> QED BY <1>4, <1>6, <1>7

\* tile
LEMMA TiledRight ==
  ASSUME NEW img, IsImage(img), NEW a, a.num \in Nat \ {0}
  PROVE  RowsIn(Transformed("tile", a, img)) = Promised!Meaning("tile", a, RowsIn(img))
<1> DEFINE new == Transformed("tile", a, img)
           w == img.width
           h == img.height
           n == a.num
           rows == RowsIn(img)
           wide == [y \in 1 .. h |-> Promised!Repeated(rows[y], n)]
           tiled == Promised!Repeated(wide, n)
           Colours == {Channels(img.data[i]) : i \in Indices(w, h)}
<1>1. w \in Nat /\ h \in Nat /\ n \in Nat \ {0}
  BY DEF IsImage
<1>2. /\ DOMAIN rows = 1 .. h
      /\ \A y \in 1 .. h :
           /\ Len(rows[y]) = w /\ DOMAIN rows[y] = 1 .. w
           /\ \A x \in 1 .. w : rows[y][x] = Channels(img.data[w * (y - 1) + (x - 1)])
  BY RowsType
<1>3. Promised!Meaning("tile", a, rows) = tiled
  BY <1>2 DEF Promised!Meaning, Promised!Tiled
<1>4. /\ new.width = w /\ new.height = h
      /\ \A m \in Tile(w, h, n) : new.data[m.to] = img.data[m.from]
  <2>1. Moves("tile", a, w, h) = Tile(w, h, n)
    BY DEF Moves
  <2>2. Onto(Tile(w, h, n), Indices(w, h))
    BY <1>1, TileOnto
  <2> QED BY <2>1, <2>2, NewImage
<1>5. RowsIn(new) = [y \in 1 .. h |-> [x \in 1 .. w |-> Channels(new.data[w * (y - 1) + (x - 1)])]]
  BY <1>4 DEF RowsIn
<1>6. rows = [y \in 1 .. h |-> [x \in 1 .. w |-> Channels(img.data[w * (y - 1) + (x - 1)])]]
  BY DEF RowsIn
<1> HIDE DEF new, w, h, n, rows
<1>7. ASSUME NEW y \in 1 .. h PROVE rows[y] \in Seq(Colours) /\ Len(rows[y]) = w
  <2>1. ASSUME NEW x \in 1 .. w PROVE rows[y][x] \in Colours
    <3>1. w * (y - 1) + (x - 1) \in Indices(w, h)
      BY <1>1, PlaceOf
    <3> QED BY <1>2, <3>1
  <2>2. rows[y] = [x \in 1 .. w |-> rows[y][x]]
    BY <1>6
  <2> HIDE DEF Colours
  <2>3. rows[y] \in [1 .. w -> Colours]
    BY <2>1, <2>2
  <2> QED BY <1>1, <2>3, LengthOf
<1> HIDE DEF Colours
<1>8. ASSUME NEW y \in 1 .. h
      PROVE  /\ wide[y] \in Seq(Colours) /\ Len(wide[y]) = w
             /\ \A t \in 0 .. n - 1 : \A i \in 0 .. Extent(w, n, t) - 1 :
                  wide[y][Begins(w, n, t) + i + 1] = rows[y][i * n + 1]
  <2>1. wide[y] = Promised!Repeated(rows[y], n)
    OBVIOUS
  <2>2. PICK s \in Seq(Colours) : s = rows[y] /\ Len(s) = w
    BY <1>7
  <2>3. LET more == Promised!Repeated(s, n)
        IN  /\ more \in Seq(Colours) /\ Len(more) = Len(s)
            /\ \A t \in 0 .. n - 1 : \A i \in 0 .. Extent(Len(s), n, t) - 1 :
                 more[Begins(Len(s), n, t) + i + 1] = s[i * n + 1]
    BY <1>1, RepeatedIs
  <2> HIDE DEF wide
  <2> QED BY <2>1, <2>2, <2>3
<1>9. wide \in Seq(Seq(Colours)) /\ Len(wide) = h
  <2>1. wide = [y \in 1 .. h |-> wide[y]]
    OBVIOUS
  <2> HIDE DEF wide
  <2>2. wide \in [1 .. h -> Seq(Colours)]
    BY <1>8, <2>1
  <2> QED BY <1>1, <2>2, LengthOf
<1> HIDE DEF wide
<1>10. /\ tiled \in Seq(Seq(Colours)) /\ Len(tiled) = h
       /\ \A t \in 0 .. n - 1 : \A j \in 0 .. Extent(h, n, t) - 1 :
            tiled[Begins(h, n, t) + j + 1] = wide[j * n + 1]
  BY <1>1, <1>9, RepeatedIs
<1> HIDE DEF tiled
<1>11. ASSUME NEW y \in 1 .. h
       PROVE  /\ tiled[y] = [x \in 1 .. w |-> tiled[y][x]]
              /\ \A x \in 1 .. w : tiled[y][x] = Channels(new.data[w * (y - 1) + (x - 1)])
  <2>1. PICK y0 \in 0 .. h - 1 : y0 = y - 1
    BY <1>1
  <2>2. PICK nj \in 0 .. n - 1 : \E j \in 0 .. Extent(h, n, nj) - 1 : y0 = Begins(h, n, nj) + j
    BY <1>1, PieceOf
  <2>3. PICK j \in 0 .. Extent(h, n, nj) - 1 : y0 = Begins(h, n, nj) + j
    BY <2>2
  <2>4. j * n \in 0 .. h - 1 /\ Begins(h, n, nj) \in Nat
    BY <1>1, PieceIn, PiecesJoin
  <2>5. PICK z \in 1 .. h : z = j * n + 1
    BY <1>1, <2>4
  <2>6. y = Begins(h, n, nj) + j + 1
    BY <2>1, <2>3, <2>4
  <2>7. tiled[y] = wide[z]
    BY <1>10, <2>5, <2>6
  <2>8. tiled[y] = [x \in 1 .. w |-> tiled[y][x]]
    BY <1>8, <2>7
  <2>9. ASSUME NEW x \in 1 .. w
        PROVE  tiled[y][x] = Channels(new.data[w * (y - 1) + (x - 1)])
    <3>1. PICK x0 \in 0 .. w - 1 : x0 = x - 1
      BY <1>1
    <3>2. PICK ni \in 0 .. n - 1 : \E i \in 0 .. Extent(w, n, ni) - 1 : x0 = Begins(w, n, ni) + i
      BY <1>1, PieceOf
    <3>3. PICK i \in 0 .. Extent(w, n, ni) - 1 : x0 = Begins(w, n, ni) + i
      BY <3>2
    <3>4. i * n \in 0 .. w - 1 /\ Begins(w, n, ni) \in Nat
      BY <1>1, PieceIn, PiecesJoin
    <3>5. PICK v \in 1 .. w : v = i * n + 1
      BY <1>1, <3>4
    <3>6. x = Begins(w, n, ni) + i + 1
      BY <3>1, <3>3, <3>4
    <3>7. tiled[y][x] = rows[z][v]
      BY <1>8, <2>7, <3>5, <3>6
    <3>8. rows[z][v] = Channels(img.data[w * (j * n) + i * n])
      <4>1. rows[z][v] = Channels(img.data[w * (z - 1) + (v - 1)])
        BY <1>2
      <4>2. z - 1 = j * n /\ v - 1 = i * n
        BY <2>4, <2>5, <3>4, <3>5
      <4> QED BY <4>1, <4>2
    <3>9. PICK m \in Tile(w, h, n) : m.to = w * y0 + x0 /\ m.from = w * (j * n) + i * n
      BY <1>1, <2>3, <3>3, TilePlace
    <3> QED BY <1>4, <2>1, <3>1, <3>7, <3>8, <3>9
  <2> QED BY <2>8, <2>9
<1>12. tiled = [y \in 1 .. h |-> tiled[y]]
  BY <1>10
<1>13. \A y \in 1 .. h : tiled[y] = [x \in 1 .. w |-> Channels(new.data[w * (y - 1) + (x - 1)])]
  BY <1>11
<1>14. tiled = [y \in 1 .. h |-> [x \in 1 .. w |-> Channels(new.data[w * (y - 1) + (x - 1)])]]
  BY <1>12, <1>13
<1> QED BY <1>3, <1>5, <1>14 DEF new, rows

-----------------------------------------------------------------------------
(* What the driver has when it reports success.                             *)

\* What each plugin does is what its description promises.
LEMMA PromiseKept ==
  ASSUME NEW img, IsImage(img), NEW plugin \in Plugin,
         NEW a, a.num \in Nat, a.den \in Nat \ {0}, plugin = "tile" => a.num # 0
  PROVE  RowsIn(Transformed(plugin, a, img)) = Promised!Meaning(plugin, a, RowsIn(img))
<1>1. CASE plugin = "expose"
  BY <1>1, ExposedRight
<1>2. CASE plugin = "mirrorh"
  BY <1>2, MirroredHRight
<1>3. CASE plugin = "mirrorv"
  BY <1>3, MirroredVRight
<1>4. CASE plugin = "swapbg"
  BY <1>4, SwappedRight
<1>5. CASE plugin = "tile"
  BY <1>5, TiledRight
<1> QED BY <1>1, <1>2, <1>3, <1>4, <1>5 DEF Plugin

\* The images come from the file and from the plugin, and success is reported only
\* after the last of them went to the output file.
Readable == png \in Files /\ png.colour \in {"rgb", "rgba"}
Worked ==
  /\ my \in Plugin /\ ArgsRight(args) /\ Readable
  /\ in = FromPng(png) /\ out = Transformed(my, args, in)
Results ==
  /\ pc = "print" => cmd = "list"
  /\ pc = "transform" => Readable /\ in = FromPng(png)
  /\ pc \in {"write", "setdata"} => Worked
  /\ pc = "setdata" => output = Partial
  /\ pc \in Ending /\ status = 0 /\ cmd = "exec" => Worked /\ output \in {Partial, ToPng(out)}

\* There is nothing at first.
LEMMA InitResults == Init => Results
BY DEF Init, Results, Ending

\* A step that fails, and one that has nothing to do with images.
LEMMA NoResults ==
  ASSUME \/ pc' \in Ending /\ status' = 1
         \/ pc' \in {"opendir", "readdir", "find", "parse"} \cup Reading
         \/ pc' = "print" /\ cmd' = "list"
         \/ pc' \in Ending /\ cmd' # "exec"
  PROVE  Results'
BY DEF Results, Ending, Reading

\* Each step keeps it.
LEMMA NextResults == IInv /\ Contents /\ Results /\ [Next]_vars => Results'
<1> SUFFICES ASSUME IInv, Contents, Results, [Next]_vars PROVE Results'
  OBVIOUS
<1> USE DEF At, Go, Exit, CleanUp, work, loaded
<1>1. CASE \E c \in {"none", "unknown", "list", "exec"} : Main(c)
  <2>1. pc' = "opendir" \/ (pc' \in Ending /\ cmd' # "exec")
    BY <1>1 DEF Main, Ending
  <2> QED BY <2>1, NoResults
<1>2. CASE \E dir \in Dirs : OpenDir(dir)
  <2>1. pc' = "readdir"
    BY <1>2 DEF OpenDir
  <2> QED BY <2>1, NoResults
<1>3. CASE OpenDirFails \/ SkipEntry \/ LoadPlugin \/ LoadFails \/ CloseDirFails
  <2>1. (pc' = "exited" /\ status' = 1) \/ pc' = "readdir"
    BY <1>3 DEF OpenDirFails, SkipEntry, LoadPlugin, LoadFails, CloseDirFails
  <2> QED BY <2>1, NoResults DEF Ending
<1>4. CASE CloseDir
  <2>1. pc' = "find" \/ (pc' = "print" /\ cmd' = "list")
    BY <1>4 DEF CloseDir
  <2> QED BY <2>1, NoResults
<1>5. CASE PrintPlugins
  <2>1. pc' \in Ending /\ cmd' # "exec"
    BY <1>5 DEF PrintPlugins, Results, Ending
  <2> QED BY <2>1, NoResults
<1>6. CASE \E name \in Plugin : FindPlugin(name)
  <2>1. pc' = "parse" \/ (pc' \in Ending /\ status' = 1)
    BY <1>6 DEF FindPlugin, Ending
  <2> QED BY <2>1, NoResults
<1>7. CASE \E argv \in Argvs : ParseArguments(argv)
  <2>1. pc' = "open" \/ (pc' \in Ending /\ status' = 1)
    BY <1>7 DEF ParseArguments, Ending
  <2> QED BY <2>1, NoResults DEF Reading
<1>8. CASE \E file \in Files : OpenPng(file)
  <2>1. pc' = "colour"
    BY <1>8 DEF OpenPng
  <2> QED BY <2>1, NoResults DEF Reading
<1>9. CASE OpenPngFails \/ ColourType \/ AllocPixels \/ GetData
  <2>1. pc' \in {"alloc", "getdata", "create"} \/ (pc' \in Ending /\ status' = 1)
    BY <1>9 DEF OpenPngFails, ColourType, AllocPixels, GetData, Ending
  <2> QED BY <2>1, NoResults DEF Reading
<1>10. CASE CreateImage
  <2>1. pc = "create" /\ Readable
    BY <1>10 DEF CreateImage, Contents, Reading, Readable
  <2>2. CASE pc' = "transform"
    <3>1. in' = FromPng(png) /\ png' = png
      BY <1>10, <2>2 DEF CreateImage
    <3> QED BY <2>1, <2>2, <3>1 DEF Results, Readable, Ending
  <2>3. CASE pc' # "transform"
    <3>1. pc' \in Ending /\ status' = 1
      BY <1>10, <2>3 DEF CreateImage, Ending
    <3> QED BY <3>1, NoResults
  <2> QED BY <2>2, <2>3
<1>11. CASE TransformImage
  <2>1. /\ pc = "transform" /\ Readable /\ in = FromPng(png) /\ my \in Plugin /\ ArgsRight(args)
    BY <1>11 DEF TransformImage, Contents, Results, Writing
  <2>2. CASE pc' = "write"
    <3>1. UNCHANGED <<my, args, png, in>> /\ out' = Transformed(my, args, in)
      BY <1>11, <2>2 DEF TransformImage
    <3>2. Worked'
      BY <2>1, <3>1 DEF Worked, Readable, ArgsRight
    <3> QED BY <2>2, <3>2 DEF Results, Ending
  <2>3. CASE pc' # "write"
    <3>1. pc' \in Ending /\ status' = 1
      BY <1>11, <2>3 DEF TransformImage, Ending
    <3> QED BY <3>1, NoResults
  <2> QED BY <2>2, <2>3
<1>12. CASE OpenOutput
  <2>1. pc = "write" /\ Worked /\ UNCHANGED <<my, args, png, in, out>>
    BY <1>12 DEF OpenOutput, Results
  <2>2. CASE pc' = "setdata"
    <3>1. output' = Partial
      BY <1>12, <2>2 DEF OpenOutput
    <3>2. Worked'
      BY <2>1 DEF Worked, Readable, ArgsRight
    <3> QED BY <2>2, <3>1, <3>2 DEF Results, Ending
  <2>3. CASE pc' # "setdata"
    <3>1. pc' \in Ending /\ status' = 1
      BY <1>12, <2>3 DEF OpenOutput, Ending
    <3> QED BY <3>1, NoResults
  <2> QED BY <2>2, <2>3
<1>13. CASE SetData
  <2>1. /\ pc = "setdata" /\ Worked /\ output = Partial /\ UNCHANGED <<my, args, png, in, out>>
        /\ pc' = "destroy" /\ output' \in {ToPng(out), output}
    BY <1>13 DEF SetData, Results
  <2>2. Worked'
    BY <2>1 DEF Worked, Readable, ArgsRight
  <2> QED BY <2>1, <2>2 DEF Results
<1>14. CASE DlClose \/ FreeList
  <2>1. /\ pc = "destroy" /\ UNCHANGED <<cmd, my, args, png, in, out, output>>
        /\ pc' \in Ending /\ (status' = 1 \/ status' = status)
    BY <1>14 DEF DlClose, FreeList, Ending
  <2>2. CASE status' = 1
    BY <2>1, <2>2, NoResults
  <2>3. CASE status' = status
    <3>1. Worked' <=> Worked
      BY <2>1 DEF Worked, Readable, ArgsRight
    <3>2. pc \in Ending
      BY <2>1 DEF Ending
    <3> QED BY <2>1, <2>3, <3>1, <3>2 DEF Results, Ending
  <2> QED BY <2>1, <2>2, <2>3
<1>15. CASE UNCHANGED vars
  BY <1>15 DEF vars, Results, Worked, Readable, ArgsRight
<1> QED
  BY <1>1, <1>2, <1>3, <1>4, <1>5, <1>6, <1>7, <1>8, <1>9, <1>10, <1>11, <1>12, <1>13,
     <1>14, <1>15 DEF Next

\* A run that reports success for a command exec has written what the plugin's
\* description makes of the rows of the input file, or not all of it: for images of
\* any size an unsigned holds, any factor and any number of tiles.
THEOREM PicturesRight == Spec => []OutputRight
<1>1. Init => IInv /\ Contents /\ Results
  BY InitIInv, InitContents, InitResults
<1>2. (IInv /\ Contents /\ Results) /\ [Next]_vars => (IInv /\ Contents /\ Results)'
  BY NextIInv, NextContents, NextResults
<1>3. Results => OutputRight
  <2> SUFFICES ASSUME Results, pc = "exited", status = 0, cmd = "exec", png.bits = 8,
                      output # Partial
               PROVE  RowsOf(output) = Promised!Meaning(my, args, RowsOf(png))
    BY DEF OutputRight
  <2>1. Worked /\ output = ToPng(out)
    BY DEF Results, Ending
  <2>2. IsImage(in)
    BY <2>1, FromPngType DEF Worked, Readable
  <2>3. IsImage(out)
    BY <2>1, <2>2, TransformedType DEF Worked, ArgsRight
  <2>4. RowsOf(output) = RowsIn(out)
    BY <2>1, <2>3, RowsWritten
  <2>5. RowsIn(out) = Promised!Meaning(my, args, RowsIn(in))
    BY <2>1, <2>2, PromiseKept DEF Worked, ArgsRight
  <2>6. RowsOf(png) = RowsIn(in)
    BY <2>1, RowsRead DEF Worked, Readable
  <2> QED BY <2>4, <2>5, <2>6
<1> QED BY <1>1, <1>2, <1>3, PTL DEF Spec
=============================================================================
