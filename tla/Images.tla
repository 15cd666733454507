------------------------------- MODULE Images -------------------------------
(***************************************************************************)
(* example/opencv/demo_opencv_coro.cpp: the sizes of the images of a       *)
(* directory, found by a loop, by threads that share the images out, and   *)
(* by one coroutine an image.  An image may be unreadable: imread()        *)
(* returns an empty matrix, or throws.                                     *)
(***************************************************************************)
EXTENDS Integers, Sequences, FiniteSets

CONSTANTS
    MaxImages,  \* bound on the images
    MaxThreads  \* bound on numThreads

ASSUME ImagesAssumption == MaxImages \in Nat /\ MaxThreads \in Nat

VARIABLES
    version,       \* "sequential", "threads" or "coroutines"
    images,        \* what imread() does with each: "image", "empty" or "throws"
    threads,       \* numThreads; hardware_concurrency() may be 0
    atImage,       \* of each thread or loop: the image it is at
    holding,       \* the thread in push_back(), under resultsMutex, as a set
    tasks,         \* what the coroutines have found whose result was not taken: an
                   \*   image, or 0
    foundImages,   \* results, images by their number
    imagesOutcome  \* "running", "returned", "terminated" or "undefined"

imageVars == <<version, images, threads, atImage, holding, tasks, foundImages, imagesOutcome>>

ImageCount == Len(images)
Least(a, b) == IF a < b THEN a ELSE b

\* A mistake that the property below must tell from the code: the quotient is rounded down.
Bug_PerThread == IF ImageCount < threads THEN 1 ELSE ImageCount \div threads

\* imagesPerThread
PerThread == (ImageCount + threads - 1) \div threads

\* Thread t has the images from First(t) to End(t).
First(t) == (t - 1) * PerThread + 1
End(t) == Least(t * PerThread, ImageCount)
\* for (t = 0; t < numThreads && t * imagesPerThread < imagePaths.size(); ++t)
Started == {t \in 1 .. threads : (t - 1) * PerThread < ImageCount}

ImagesInit ==
    /\ version \in {"sequential", "threads", "coroutines"}
    /\ images \in UNION {[1 .. n -> {"image", "empty", "throws"}] : n \in 0 .. MaxImages}
    /\ threads \in IF version = "threads" THEN 0 .. MaxThreads ELSE {1}
    /\ atImage = [t \in 1 .. threads |-> IF version = "threads" THEN First(t) ELSE 1]
    /\ holding = {}
    /\ tasks = <<>>
    /\ foundImages = <<>>
    /\ imagesOutcome = IF threads = 0 THEN "undefined" ELSE "running"  \* a division by zero

\* processImage(): read first, then lock.  An exception ends a thread, and the program.
ReadImage(t) ==
    /\ version = "threads"
    /\ t \in Started \ holding
    /\ atImage[t] <= End(t)
    /\ \/ /\ images[atImage[t]] = "throws"
          /\ imagesOutcome' = "terminated"
          /\ UNCHANGED <<atImage, holding>>
       \/ /\ images[atImage[t]] = "empty"
          /\ atImage' = [atImage EXCEPT ![t] = @ + 1]
          /\ UNCHANGED <<holding, imagesOutcome>>
       \/ /\ images[atImage[t]] = "image"
          /\ holding = {}
          /\ holding' = {t}
          /\ UNCHANGED <<atImage, imagesOutcome>>
    /\ UNCHANGED <<version, images, threads, tasks, foundImages>>

PushResult(t) ==
    /\ t \in holding
    /\ foundImages' = Append(foundImages, atImage[t])
    /\ atImage' = [atImage EXCEPT ![t] = @ + 1]
    /\ holding' = {}
    /\ UNCHANGED <<version, images, threads, tasks, imagesOutcome>>

\* Every thread was joined.
JoinThreads ==
    /\ version = "threads"
    /\ holding = {}
    /\ \A t \in Started : atImage[t] > End(t)
    /\ imagesOutcome' = "returned"
    /\ UNCHANGED <<version, images, threads, atImage, holding, tasks, foundImages>>

\* The loop of processImagesSequential(); an exception leaves main().
LoopImage ==
    /\ version = "sequential"
    /\ \/ /\ atImage[1] > ImageCount
          /\ imagesOutcome' = "returned"
          /\ UNCHANGED <<atImage, foundImages>>
       \/ /\ atImage[1] <= ImageCount
          /\ images[atImage[1]] = "throws"
          /\ imagesOutcome' = "terminated"
          /\ UNCHANGED <<atImage, foundImages>>
       \/ /\ atImage[1] <= ImageCount
          /\ images[atImage[1]] # "throws"
          /\ foundImages' = foundImages \o (IF images[atImage[1]] = "image" THEN <<atImage[1]>> ELSE <<>>)
          /\ atImage' = [atImage EXCEPT ![1] = @ + 1]
          /\ UNCHANGED imagesOutcome
    /\ UNCHANGED <<version, images, threads, holding, tasks>>

\* A coroutine runs to its end when it is made; what it throws is dropped by
\* unhandled_exception(), and its result is empty, as it is for an empty image.
MakeTask ==
    /\ version = "coroutines"
    /\ atImage[1] <= ImageCount
    /\ tasks' = Append(tasks, IF images[atImage[1]] = "image" THEN atImage[1] ELSE 0)
    /\ atImage' = [atImage EXCEPT ![1] = @ + 1]
    /\ UNCHANGED <<version, images, threads, holding, foundImages, imagesOutcome>>

\* When all were made, getResult() of each; one whose size is 0 is left out.
CollectTask ==
    /\ version = "coroutines"
    /\ atImage[1] > ImageCount
    /\ tasks # <<>>
    /\ foundImages' = foundImages \o (IF Head(tasks) > 0 THEN <<Head(tasks)>> ELSE <<>>)
    /\ tasks' = Tail(tasks)
    /\ UNCHANGED <<version, images, threads, atImage, holding, imagesOutcome>>

\* The frames are destroyed.
EndTasks ==
    /\ version = "coroutines"
    /\ atImage[1] > ImageCount
    /\ tasks = <<>>
    /\ imagesOutcome' = "returned"
    /\ UNCHANGED <<version, images, threads, atImage, holding, tasks, foundImages>>

ImagesNext ==
    /\ imagesOutcome = "running"
    /\ \/ \E t \in 1 .. threads : ReadImage(t) \/ PushResult(t)
       \/ JoinThreads \/ LoopImage \/ MakeTask \/ CollectTask \/ EndTasks

ImagesSpec == ImagesInit /\ [][ImagesNext]_imageVars

-----------------------------------------------------------------------------
(* Properties *)

ImagesTypeOK ==
    /\ Len(foundImages) <= ImageCount
    /\ Cardinality(holding) <= 1
    /\ \A t \in DOMAIN atImage : atImage[t] \in 1 .. ImageCount + threads * threads + 1

\* Whatever the number of threads, each version returns each image that can be read, once;
\* only that of the threads may change their order.
FindsEachImage ==
    imagesOutcome = "returned" =>
      /\ {foundImages[k] : k \in DOMAIN foundImages} = {k \in 1 .. ImageCount : images[k] = "image"}
      /\ \A j, k \in DOMAIN foundImages : j < k => foundImages[j] # foundImages[k]
      /\ version # "threads" =>
           \A j, k \in DOMAIN foundImages : j < k => foundImages[j] < foundImages[k]

\* An image that makes imread() throw ends the program, but for the coroutines, which
\* drop it silently.
DropsSilently ==
    (\E k \in 1 .. ImageCount : images[k] = "throws") =>
      /\ imagesOutcome = "returned" => version = "coroutines"
      /\ version = "coroutines" => imagesOutcome # "terminated"

\* The three versions of the demo agree.
ImagesCorrect == ImagesTypeOK /\ FindsEachImage /\ DropsSilently
=============================================================================
