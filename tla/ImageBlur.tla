------------------------------ MODULE ImageBlur ------------------------------
(***************************************************************************)
(* src/examples/image_blurring_multithreaded.c: a first batch of tasks     *)
(* draws worms on one shared image, main saves it, a second batch blurs it *)
(* into another image, strip by strip, and main saves that one, frees both *)
(* and destroys the pool.  The blur is to be the one that                  *)
(* src/examples/image_blurring_serial.c computes.                          *)
(*                                                                         *)
(* The pool is used through its contract; main is its only client.  The    *)
(* three channels of a pixel are always equal, so a pixel is one number.   *)
(* A worm moves by less than a pixel in each direction per step, whichever *)
(* way the noise points.  Two tasks may draw on the same pixel at the same *)
(* time; both store black, so that is what the pixel becomes.              *)
(***************************************************************************)
EXTENDS Integers, Sequences, FiniteSets, FiniteSetsExt

CONSTANTS
  NumThreads,  (* NUM_THREADS                                              *)
  W, H,        (* IMAGE_WIDTH, IMAGE_HEIGHT                                *)
  KernelHalf,  (* BLUR_KERNEL_SIZE / 2                                     *)
  NumWorms,    (* NUM_WORMS                                                *)
  WormLength,  (* WORM_LENGTH                                              *)
  WormRadius   (* WORM_RADIUS                                              *)

ASSUME BlurAssumption ==
  /\ {NumThreads, W, H, WormLength} \subseteq Nat \ {0}
  /\ {KernelHalf, NumWorms, WormRadius} \subseteq Nat

VARIABLES
  accepted, backlog, active, finished, waiting, closed, gone,  (* PoolContract *)
  mpc,         (* where main is                                            *)
  pool_ok,     (* yatpool_init returned a pool                             *)
  i,           (* the loop variable of main                                *)
  images,      (* whether src_image and dest_image are allocated           *)
  src_image, dest_image,
  input_ppm, output_ppm,  (* the files, each empty or the image saved      *)
  next,        (* the next worm or row of each task                        *)
  j,           (* the steps a task's worm has made                         *)
  worm,        (* the position of a task's worm                            *)
  drawn        (* how often each worm has been drawn                       *)

Pixels == (0 .. W - 1) \X (0 .. H - 1)
Black == 0
White == 255
NoFile == {}

Worms(k) == <<"worms", k>>
Blur(k) == <<"blur", k>>
Task == {"worms", "blur"} \X (0 .. NumThreads - 1)

Pool == INSTANCE PoolContract WITH
          Client <- {"main"}, Slots <- 2 * NumThreads, Width <- NumThreads,
          MayDrop <- FALSE

poolVars == <<accepted, backlog, active, finished, waiting, closed, gone>>
fileVars == <<input_ppm, output_ppm>>
taskVars == <<src_image, dest_image, next, j, worm, drawn>>
vars == <<poolVars, mpc, pool_ok, i, images, fileVars, taskVars>>

\* Mutant: the last part ends where its share of the quotient ends.
PartEndUneven(n, k) == (k + 1) * (n \div NumThreads)

\* The n worms or rows are divided evenly, and the last part takes the rest.
PartStart(n, k) == k * (n \div NumThreads)
PartEnd(n, k) == IF k = NumThreads - 1 THEN n ELSE (k + 1) * (n \div NumThreads)

Init ==
  /\ Pool!Init
  /\ mpc = "start" /\ pool_ok = FALSE /\ i = 0 /\ images = FALSE
  /\ src_image = [q \in Pixels |-> Black]
  /\ dest_image = [q \in Pixels |-> Black]
  /\ input_ppm = NoFile /\ output_ppm = NoFile
  /\ next = [t \in Task |-> PartStart(IF t[1] = "worms" THEN NumWorms ELSE H, t[2])]
  /\ j = [t \in Task |-> 0]
  /\ worm = [t \in Task |-> <<0, 0>>]
  /\ drawn = [w \in 0 .. NumWorms - 1 |-> 0]

-----------------------------------------------------------------------------
(* main                                                                    *)

MainGoto(from, to) == mpc = from /\ mpc' = to

\* The pool and the images are created; the pool is not looked at yet.
Start ==
  /\ pool_ok' \in BOOLEAN
  /\ \/ /\ MainGoto("start", "worms")
        /\ images' = TRUE
        /\ src_image' = [q \in Pixels |-> White]
     \/ /\ MainGoto("start", "failed")
        /\ UNCHANGED <<images, src_image>>
  /\ UNCHANGED <<poolVars, i, fileVars, dest_image, next, j, worm, drawn>>

\* One turn of a loop that submits the tasks of a batch.  Without a pool
\* yatpool_put refuses, which nobody looks at.
PutTask(batch, t, then) ==
  /\ IF i < NumThreads
     THEN /\ MainGoto(batch, batch)
          /\ i' = i + 1
          /\ IF pool_ok THEN Pool!Accept(t) ELSE UNCHANGED poolVars
     ELSE /\ MainGoto(batch, then)
          /\ i' = 0
          /\ UNCHANGED poolVars
  /\ UNCHANGED <<pool_ok, images, fileVars, taskVars>>

PutWorms == PutTask("worms", Worms(i), "wait1")
PutBlur == PutTask("blur", Blur(i), "wait2")

CallWait(from, to) ==
  /\ MainGoto(from, to)
  /\ IF pool_ok THEN Pool!BeginWait("main") ELSE UNCHANGED poolVars
  /\ UNCHANGED <<pool_ok, i, images, fileVars, taskVars>>

\* Mutant: main goes on without waiting.
WaitNotDone == waiting' = {} /\ UNCHANGED <<accepted, backlog, active, finished, closed, gone>>

WaitDone == IF pool_ok THEN Pool!EndWait("main") ELSE UNCHANGED poolVars

ReturnWait(from, to) ==
  /\ MainGoto(from, to)
  /\ WaitDone
  /\ UNCHANGED <<pool_ok, i, images, fileVars, taskVars>>

\* save_image_ppm cannot open the file, or writes the image to it.
Saved(img) == {NoFile, {img}}

\* main goes on whether or not the file was saved.
SaveInput ==
  /\ MainGoto("save1", "test")
  /\ input_ppm' \in Saved(src_image)
  /\ UNCHANGED <<poolVars, pool_ok, i, images, output_ppm, taskVars>>

TestPool ==
  /\ MainGoto("test", IF pool_ok THEN "blur" ELSE "failed")
  /\ UNCHANGED <<poolVars, pool_ok, i, images, fileVars, taskVars>>

SaveOutput ==
  /\ MainGoto("save2", "free")
  /\ output_ppm' \in Saved(dest_image)
  /\ UNCHANGED <<poolVars, pool_ok, i, images, input_ppm, taskVars>>

\* The images are freed before the pool is destroyed.
FreeImages ==
  /\ MainGoto("free", "destroy")
  /\ images' = FALSE
  /\ UNCHANGED <<poolVars, pool_ok, i, fileVars, taskVars>>

BeginDestroy ==
  /\ MainGoto("destroy", "join")
  /\ Pool!Close
  /\ UNCHANGED <<pool_ok, i, images, fileVars, taskVars>>

EndDestroy ==
  /\ MainGoto("join", "done")
  /\ Pool!Release
  /\ UNCHANGED <<pool_ok, i, images, fileVars, taskVars>>

-----------------------------------------------------------------------------
(* The tasks                                                               *)

StartTask ==
  /\ Pool!Start
  /\ UNCHANGED <<mpc, pool_ok, i, images, fileVars, taskVars>>

\* The pixels of a disc around c that are in the image.
Disc(c) ==
  {q \in Pixels : (q[1] - c[1]) ^ 2 + (q[2] - c[2]) ^ 2 <= WormRadius ^ 2}

\* Mutant: a worm that leaves the image on one side is left there.
WrapUpperOnly(x, n) == IF x >= n THEN 0 ELSE x

\* A worm that leaves the image on one side comes back on the other.
Wrap(x, n) == IF x < 0 THEN n - 1 ELSE IF x >= n THEN 0 ELSE x

\* How far a worm gets in one step, in whole pixels along one axis: the noise
\* may point anywhere, and the step is of length 1.
Drift == {-1, 0, 1}

\* One turn of the inner loop of generate_worms.  A coordinate just below 0
\* is drawn as 0: the conversion to int rounds towards 0.
WormStep(k) ==
  LET t == Worms(k)
      last == j[t] + 1 = WormLength
  IN  /\ t \in active /\ next[t] < PartEnd(NumWorms, k)
      /\ \E from \in IF j[t] = 0 THEN Pixels ELSE {worm[t]}, dx, dy \in Drift :
           LET x == from[1] + dx  y == from[2] + dy
           IN  /\ \E c \in {x, Max({x, 0})} \X {y, Max({y, 0})} :
                    src_image' = [q \in Pixels |->
                                    IF q \in Disc(c) THEN Black ELSE src_image[q]]
               /\ worm' = [worm EXCEPT ![t] = IF last THEN <<0, 0>>
                                              ELSE <<Wrap(x, W), Wrap(y, H)>>]
      /\ j' = [j EXCEPT ![t] = IF last THEN 0 ELSE @ + 1]
      /\ next' = [next EXCEPT ![t] = IF last THEN @ + 1 ELSE @]
      /\ drawn' = [drawn EXCEPT ![next[t]] = IF last THEN @ + 1 ELSE @]
      /\ UNCHANGED <<poolVars, mpc, pool_ok, i, images, fileVars, dest_image>>

\* The average over the part of the kernel that is in the image.
Blurred(img, q) ==
  LET near == {s \in Pixels : /\ s[1] - q[1] \in -KernelHalf .. KernelHalf
                              /\ s[2] - q[2] \in -KernelHalf .. KernelHalf}
  IN  MapThenSumSet(LAMBDA s : img[s], near) \div Cardinality(near)

\* One turn of the outer loop of blur_task.
BlurRow(k) ==
  LET t == Blur(k)
  IN  /\ t \in active /\ next[t] < PartEnd(H, k)
      /\ dest_image' = [q \in Pixels |-> IF q[2] = next[t] THEN Blurred(src_image, q)
                                                         ELSE dest_image[q]]
      /\ next' = [next EXCEPT ![t] = @ + 1]
      /\ UNCHANGED <<poolVars, mpc, pool_ok, i, images, fileVars, src_image, j, worm, drawn>>

EndTask(k) ==
  /\ \E t \in active :
       /\ \/ t = Worms(k) /\ next[t] >= PartEnd(NumWorms, k)
          \/ t = Blur(k) /\ next[t] >= PartEnd(H, k)
       /\ Pool!Finish(t)
  /\ UNCHANGED <<mpc, pool_ok, i, images, fileVars, taskVars>>

-----------------------------------------------------------------------------

MainStep ==
  \/ Start \/ PutWorms \/ PutBlur
  \/ CallWait("wait1", "waiting1") \/ ReturnWait("waiting1", "save1")
  \/ CallWait("wait2", "waiting2") \/ ReturnWait("waiting2", "save2")
  \/ SaveInput \/ TestPool \/ SaveOutput \/ FreeImages \/ BeginDestroy \/ EndDestroy

Ended == mpc \in {"done", "failed"}

Next ==
  \/ /\ ~Ended
     /\ \/ MainStep \/ StartTask
        \/ \E k \in 0 .. NumThreads - 1 : WormStep(k) \/ BlurRow(k) \/ EndTask(k)
  \/ Ended /\ UNCHANGED vars

Spec == Init /\ [][Next]_vars

-----------------------------------------------------------------------------

(* A worm that goes on is inside the image, whichever way it went.         *)
TypeOK ==
  /\ mpc \in {"start", "worms", "wait1", "waiting1", "save1", "test", "blur", "wait2",
              "waiting2", "save2", "free", "destroy", "join", "done", "failed"}
  /\ pool_ok \in BOOLEAN /\ images \in BOOLEAN /\ i \in 0 .. NumThreads
  /\ src_image \in [Pixels -> {Black, White}]
  /\ dest_image \in [Pixels -> Black .. White]
  /\ \A t \in Task : worm[t] \in Pixels /\ j[t] \in 0 .. WormLength - 1

(* The two files that the program leaves belong together: the blurred one  *)
(* is, pixel by pixel, what apply_blur of image_blurring_serial.c makes of *)
(* the input image, and neither is taken while a task still draws.         *)
OutputIsSerial ==
  \A out \in output_ppm, in \in input_ppm :
    \A q \in Pixels : out[q] = Blurred(in, q)

(* All of the worms are in the image that is saved and blurred, each drawn *)
(* by exactly one task.                                                    *)
EveryWormOnce ==
  pool_ok /\ mpc \in {"save1", "test", "blur"} =>
    \A w \in DOMAIN drawn : drawn[w] = 1

(* No task that is queued or running has an image that is freed: it is the *)
(* second wait that protects them, as the pool is destroyed afterwards.    *)
FreedImagesUnused == ~images => backlog = <<>> /\ active = {}
=============================================================================
