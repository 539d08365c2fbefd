------------------------------- MODULE ImgProc -------------------------------
(***************************************************************************)
(* csf_assign04/imgproc.c with the functions of image.c and of the plugin   *)
(* that it calls: one run of the program, in which every call that can fail *)
(* may fail.  Allocations fail where the code looks at the result.         *)
(*                                                                         *)
(* life is the fate of what the run acquires: the program keeps no such     *)
(* record, so a second release, or a use after it, is only seen here.       *)
(***************************************************************************)
EXTENDS Image

CONSTANTS
  Dirs,         \* the plugin directory: sequences of plugins and other entries
  Argvs, Files, \* arguments for the plugin; PNG files
  Partial       \* an output file that was opened and not completed

ASSUME ImgProcAssumption ==
  /\ Dirs \subseteq Seq(Plugin \cup {"other", "unloadable", "incomplete"})
  /\ \A argv \in Argvs : argv \in Seq([num : Int, den : Nat \ {0}])
  /\ Null \notin Files /\ Null \notin [num : Int, den : Nat \ {0}]
  /\ \A file \in Files :
       /\ file.width \in Nat /\ file.height \in Nat
       /\ file.colour \in {"rgb", "rgba"} =>
            /\ file.bits \in {8, 16}
            /\ file.bytes \in [0 .. file.width * file.height * Bpp(file) - 1 -> Component]

Resource == {"dir", "list", "png", "pixels", "args", "in", "out"}

VARIABLES
  pc, cmd,
  todo,         \* entries that readdir has not returned yet
  libs,         \* the plugins loaded, in the order of `plugins'
  closed, open, \* how many of them destroyPlugins has unloaded; handles of dlopen
  life,
  my, args, png, in, out, output, status

vars == <<pc, cmd, todo, libs, closed, open, life, my, args, png, in, out, output, status>>
work == <<my, args, png, in, out, output>>

Init ==
  /\ pc = "main" /\ cmd = Null /\ todo = <<>> /\ libs = <<>> /\ closed = 0 /\ open = 0
  /\ life = [r \in Resource |-> "free"]
  /\ my = Null /\ args = Null /\ png = Null /\ in = Null /\ out = Null
  /\ output = Null /\ status = 0

\* A step that needs the resources in use, acquires those in get and releases
\* those in free.
Touch(use, get, free) ==
  life' = [r \in Resource |->
             IF r \in get THEN IF life[r] = "free" THEN "held" ELSE "wrong"
             ELSE IF r \in use \cup free
                  THEN IF life[r] # "held" THEN "wrong" ELSE IF r \in free THEN "free" ELSE "held"
             ELSE life[r]]

At(p) == pc = p
Go(p) == pc' = p /\ UNCHANGED status
Exit(s) == pc' = "exited" /\ status' = s       \* printErr, and the end of main
CleanUp(s) == pc' = "destroy" /\ status' = s   \* destroyPlugins, then Exit

-----------------------------------------------------------------------------
\* main: the command, and loadPlugins

Main(c) ==
  /\ At("main") /\ cmd' = c
  /\ \/ c = "none" /\ Exit(0) /\ UNCHANGED life
     \/ c = "unknown" /\ Exit(1) /\ UNCHANGED life
     \/ c \in {"list", "exec"} /\ Go("opendir") /\ Touch({}, {"list"}, {})
  /\ UNCHANGED <<todo, libs, closed, open, work>>

OpenDir(dir) ==
  /\ At("opendir") /\ todo' = dir /\ Go("readdir") /\ Touch({}, {"dir"}, {})
  /\ UNCHANGED <<cmd, libs, closed, open, work>>
OpenDirFails ==
  /\ At("opendir") /\ Exit(1)
  /\ UNCHANGED <<cmd, todo, libs, closed, open, life, work>>

ReadDir == At("readdir") /\ todo # <<>> /\ todo' = Tail(todo)

SkipEntry ==
  /\ ReadDir /\ Head(todo) = "other" /\ Go("readdir") /\ Touch({"dir"}, {}, {})
  /\ UNCHANGED <<cmd, libs, closed, open, work>>
LoadPlugin ==
  /\ ReadDir /\ Head(todo) \in Plugin /\ Go("readdir") /\ Touch({"dir", "list"}, {}, {})
  /\ libs' = Append(libs, Head(todo)) /\ open' = open + 1
  /\ UNCHANGED <<cmd, closed, work>>
LoadFails ==
  /\ ReadDir /\ Head(todo) \in {"unloadable", "incomplete"} /\ Exit(1)
  /\ open' = open + (IF Head(todo) = "incomplete" THEN 1 ELSE 0)
  /\ Touch({"dir", "list"}, {}, {})
  /\ UNCHANGED <<cmd, libs, closed, work>>

CloseDir ==
  /\ At("readdir") /\ todo = <<>> /\ Touch({}, {}, {"dir"})
  /\ Go(IF cmd = "list" THEN "print" ELSE "find")
  /\ UNCHANGED <<cmd, todo, libs, closed, open, work>>
CloseDirFails ==
  /\ At("readdir") /\ todo = <<>> /\ Exit(1)
  /\ UNCHANGED <<cmd, todo, libs, closed, open, life, work>>

PrintPlugins ==
  /\ At("print") /\ CleanUp(0) /\ Touch({"list"}, {}, {})
  /\ UNCHANGED <<cmd, todo, libs, closed, open, work>>

-----------------------------------------------------------------------------
\* main: exec

loaded == <<cmd, todo, libs, closed, open>>

FindPlugin(name) ==
  /\ At("find") /\ Touch({"list"}, {}, {})
  /\ IF \E i \in 1 .. Len(libs) : libs[i] = name THEN my' = name /\ Go("parse")
     ELSE UNCHANGED my /\ CleanUp(1)
  /\ UNCHANGED <<loaded, args, png, in, out, output>>

ParseArguments(argv) ==
  /\ At("parse")
  /\ \E result \in Parsed(my, argv) :
       IF result = Null THEN UNCHANGED <<args, life>> /\ CleanUp(1)
       ELSE args' = result /\ Touch({}, {"args"}, {}) /\ Go("open")
  /\ UNCHANGED <<loaded, my, png, in, out, output>>

\* img_read_png
OpenPng(file) ==
  /\ At("open") /\ png' = file /\ Go("colour") /\ Touch({}, {"png"}, {})
  /\ UNCHANGED <<loaded, my, args, in, out, output>>
\* pnglite does not close a file that is not a PNG file.
OpenPngFails ==
  /\ At("open") /\ CleanUp(1)
  /\ \E opened \in SUBSET {"png"} : Touch({}, opened, {})
  /\ UNCHANGED <<loaded, work>>

\* Seeded fault: clean-up copied from further down.
ColourTypeFreesPixels ==
  /\ At("colour")
  /\ IF png.colour \in {"rgb", "rgba"} THEN Go("alloc") /\ Touch({"png"}, {}, {})
     ELSE CleanUp(1) /\ Touch({}, {}, {"png", "pixels"})
  /\ UNCHANGED <<loaded, work>>

ColourType ==
  /\ At("colour")
  /\ IF png.colour \in {"rgb", "rgba"} THEN Go("alloc") /\ Touch({"png"}, {}, {})
     ELSE CleanUp(1) /\ Touch({}, {}, {"png"})
  /\ UNCHANGED <<loaded, work>>

AllocPixels ==
  /\ At("alloc")
  /\ \/ Go("getdata") /\ Touch({}, {"pixels"}, {})
     \/ CleanUp(1) /\ Touch({}, {}, {"png"})
  /\ UNCHANGED <<loaded, work>>

GetData ==
  /\ At("getdata")
  /\ \/ Go("create") /\ Touch({"png", "pixels"}, {}, {})
     \/ CleanUp(1) /\ Touch({}, {}, {"png", "pixels"})
  /\ UNCHANGED <<loaded, work>>

CreateImage ==
  /\ At("create")
  /\ \/ in' = FromPng(png) /\ Go("transform") /\ Touch({}, {"in"}, {"png", "pixels"})
     \/ UNCHANGED in /\ CleanUp(1) /\ Touch({}, {}, {"png", "pixels"})
  /\ UNCHANGED <<loaded, my, args, png, out, output>>

TransformImage ==
  /\ At("transform")
  /\ \/ /\ out' = Transformed(my, args, in)
        /\ Go("write") /\ Touch({"in"}, {"out"}, {"args"})
     \/ UNCHANGED out /\ CleanUp(1) /\ Touch({}, {}, {"in", "args"})
  /\ UNCHANGED <<loaded, my, args, png, in, output>>

\* img_write_png
OpenOutput ==
  /\ At("write")
  /\ \/ output' = Partial /\ Go("setdata") /\ Touch({"out"}, {"png", "pixels"}, {})
     \/ UNCHANGED output /\ CleanUp(1) /\ Touch({}, {}, {"in", "out"})
  /\ UNCHANGED <<loaded, my, args, png, in, out>>

\* Seeded fault: the pixel data are not released.
SetDataKeepsPixels ==
  /\ At("setdata") /\ CleanUp(0)
  /\ output' = ToPng(out) \/ UNCHANGED output
  /\ Touch({}, {}, {"in", "out", "png"})
  /\ UNCHANGED <<loaded, my, args, png, in, out>>

\* png_set_data does not say when it could not write (Pnglite), so this is a success
\* with or without a complete file.
SetData ==
  /\ At("setdata") /\ CleanUp(0)
  /\ output' = ToPng(out) \/ UNCHANGED output
  /\ Touch({}, {}, {"in", "out", "png", "pixels"})
  /\ UNCHANGED <<loaded, my, args, png, in, out>>

-----------------------------------------------------------------------------
\* destroyPlugins

DlClose ==
  /\ At("destroy") /\ closed < Len(libs) /\ Touch({"list"}, {}, {})
  /\ \/ closed' = closed + 1 /\ open' = open - 1 /\ Go("destroy")
     \/ UNCHANGED <<closed, open>> /\ Exit(1)
  /\ UNCHANGED <<cmd, todo, libs, work>>
FreeList ==
  /\ At("destroy") /\ closed = Len(libs) /\ Touch({}, {}, {"list"})
  /\ Exit(status)
  /\ UNCHANGED <<loaded, work>>

Next ==
  \/ \E c \in {"none", "unknown", "list", "exec"} : Main(c)
  \/ \E dir \in Dirs : OpenDir(dir)
  \/ OpenDirFails \/ SkipEntry \/ LoadPlugin \/ LoadFails \/ CloseDir \/ CloseDirFails
  \/ PrintPlugins
  \/ \E name \in Plugin : FindPlugin(name)
  \/ \E argv \in Argvs : ParseArguments(argv)
  \/ \E file \in Files : OpenPng(file)
  \/ OpenPngFails \/ ColourType \/ AllocPixels \/ GetData \/ CreateImage
  \/ TransformImage \/ OpenOutput \/ SetData
  \/ DlClose \/ FreeList

Spec == Init /\ [][Next]_vars

-----------------------------------------------------------------------------

IsImage(img) ==
  /\ img.width \in Nat /\ img.height \in Nat
  /\ img = Image(img.width, img.height, img.data)
  /\ img.data \in [Indices(img.width, img.height) -> Pixel]

\* Pixels stay within their 32 bits through reading and every transform, and the
\* handles that are open are those of the plugins not unloaded yet.
TypeOK ==
  /\ life \in [Resource -> {"free", "held", "wrong"}]
  /\ status \in {0, 1} /\ closed \in 0 .. Len(libs)
  /\ open = Len(libs) - closed \/ (pc = "exited" /\ open = Len(libs) + 1)
  /\ args # Null => args.num \in Nat /\ args.den \in Nat \ {0}
  /\ in # Null => IsImage(in)
  /\ out # Null => IsImage(out)

\* Nothing is released twice, used after its release or acquired over something
\* still held, and no function of a plugin is called once it is unloaded.
InOrder ==
  /\ \A r \in Resource : life[r] # "wrong"
  /\ pc \in {"print", "find", "parse", "transform"} => closed = 0

\* Whatever fails, everything that was acquired is released before the plugins
\* are, but for the arguments when there is no image for transform_image, which
\* is to free them (image_plugin.h:45), and the file when it has no PNG header.
Held == {r \in Resource : life[r] = "held"}
Leaks ==
  IF args # Null /\ in = Null THEN {"args"} \cup (IF png = Null THEN {"png"} ELSE {}) ELSE {}
Released ==
  /\ pc = "destroy" => Held \subseteq {"list"} \cup Leaks
  /\ pc = "exited" /\ status = 0 => Held = {} /\ open = 0

\* The loops of the plugins that move pixels set each pixel of the new image
\* exactly once, from a pixel of the old one, and write nowhere else: also when N
\* does not divide the image's edges or is greater than they are.
WritesOnce ==
  pc = "transform" /\ my \in {"mirrorh", "mirrorv", "tile"} =>
    LET all == Indices(in.width, in.height)
        moves == Moves(my, args, in.width, in.height)
    IN  /\ \A m \in moves : m.to \in all /\ m.from \in all
        /\ \A i \in all : \E m \in moves : m.to = i
        /\ \A m1, m2 \in moves : m1.to = m2.to => m1 = m2

\* A file as rows of pixels
RowsOf(file) ==
  LET channels == IF file.colour = "rgba" THEN 4 ELSE 3
      Byte(x, y, c) == file.bytes[((y - 1) * file.width + x - 1) * channels + c]
  IN  [y \in 1 .. file.height |->
         [x \in 1 .. file.width |->
            <<Byte(x, y, 0), Byte(x, y, 1), Byte(x, y, 2),
              IF channels = 4 THEN Byte(x, y, 3) ELSE Depth - 1>>]]

Promised == INSTANCE Pictures

\* When the program reports success and the system has taken the whole output file,
\* it holds what the plugin's description makes of the input file (with eight bits
\* to a component, which image.h:45 asks for).
OutputRight ==
  pc = "exited" /\ status = 0 /\ cmd = "exec" /\ png.bits = 8 /\ output # Partial =>
    RowsOf(output) = Promised!Meaning(my, args, RowsOf(png))
=============================================================================
