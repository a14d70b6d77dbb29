---------------------------- MODULE VulkanFrames ----------------------------
(***************************************************************************)
(* A frame of a window: VulkanUiWindowDriver::onFrame(), the swapchain and *)
(* the fences of VulkanModule, and what VulkanUiRenderer keeps per frame.  *)
(*                                                                         *)
(* The GPU runs behind the CPU.  What a submission uses -- an image, a     *)
(* command buffer, a vertex buffer, a framebuffer -- may be written,       *)
(* recorded or destroyed again only when it is through, and the fences are *)
(* all there is to tell.  Three rings turn beside each other: the module's *)
(* fences, the driver's command buffers and the renderer's vertex buffers. *)
(* The GPU, the presentation engine and the user who resizes the window    *)
(* are external.                                                           *)
(***************************************************************************)
EXTENDS Naturals, Sequences

CONSTANTS FramesInFlight,  \* of the module, the driver and the renderer
          Images,          \* of a swapchain
          NoImage,         \* none of them
          HandleSets,      \* handles the image views of a swapchain may get, again and again
          Sizes,           \* of the window; 0 is minimized
          MaxResizes,      \* bound: how often the user resizes it
          MaxFailures      \* bound: how often the device refuses a swapchain or a submission

\* Assumed of the constants.
VulkanConstants ==
    /\ FramesInFlight \in Nat \ {0} /\ NoImage \notin Images
    /\ Sizes \subseteq Nat /\ {MaxResizes, MaxFailures} \subseteq Nat

VARIABLES pc,         \* where onFrame() is, or the window's end
          next,       \* where it goes after recreateSwapchain()
          size,       \* of the window
          seen,       \* the size onFrame() was called with
          known,      \* m_lastKnownWidth and -Height, 0 before the first frame
          extent,     \* of the swapchain
          handles,    \* which of HandleSets its image views have
          slot,       \* SurfaceState::currentFrame
          fence,      \* inFlightFences: signalled, reset, pending
          inFlight,   \* imagesInFlight: the fence of the last user, or none
          image,      \* of this frame
          frameIndex, \* the driver's
          vertexSlot, \* the renderer's m_currentFrame
          cache,      \* m_framebuffers, by handle: none, fresh, stale
          cacheExtent,\* m_framebufferExtent
          drawn,      \* the framebuffer of this frame, or none when it draws nothing
          work,       \* submissions the GPU has not finished
          failed,     \* the slots whose submission was refused (a history)
          resizes, failures  \* bounds: how often so far

driver    == <<pc, next, seen, known, image, frameIndex>>
swapchain == <<extent, handles, slot, fence, inFlight>>
renderer  == <<vertexSlot, cache, cacheExtent, drawn>>
window    == <<size, resizes>>
device    == <<failed, failures>>
vars      == <<driver, swapchain, renderer, window, work, device>>

Slots   == 0 .. FramesInFlight - 1
Handles == HandleSets \X Images
NoSlot  == FramesInFlight

Init ==
    /\ pc = "idle" /\ next = "idle" /\ seen = 0 /\ known = 0
    /\ image = NoImage /\ frameIndex = 0
    /\ size \in Sizes /\ extent = size /\ resizes = 0
    /\ handles \in HandleSets /\ slot = 0
    /\ fence = [s \in Slots |-> "signalled"]
    /\ inFlight = [i \in Images |-> NoSlot]
    /\ failed = {} /\ failures = 0
    /\ vertexSlot = 0 /\ cache = [h \in Handles |-> "none"] /\ cacheExtent = 0
    /\ drawn = "none" /\ work = <<>>

-----------------------------------------------------------------------------
Goto(l) == pc' = l
After(s) == (s + 1) % FramesInFlight

\* onFrame(): a resize is followed at once, or later when the last one was a
\* moment ago.
Frame ==
    /\ pc = "idle" /\ size # 0
    /\ seen' = size
    /\ \/ /\ size # known /\ known' = size
          /\ Goto("recreate") /\ next' = "acquire"
       \/ /\ known # 0 \/ size = known
          /\ Goto("acquire") /\ UNCHANGED <<known, next>>
    /\ UNCHANGED <<image, frameIndex, swapchain, renderer, window, work, device>>

\* A mutated form: only the fence of the next frame is waited for.
OwnFenceOnly == fence[slot] = "signalled"
\* recreateSwapchain() waits for its own fences, then the new swapchain gets the
\* size the window has by then.  A window without a size gets none, the device may
\* refuse it, and when it refuses an image view of it the images are not forgotten.
Waited == \A s \in Slots : fence[s] = "signalled"
Fails == failures < MaxFailures /\ failures' = failures + 1
NoSwapchain == UNCHANGED <<extent, handles, inFlight, cache, work>>
NewSwapchain ==
    /\ size # 0 /\ extent' = size
    /\ handles' \in HandleSets
    /\ cache' = [h \in Handles |-> IF cache[h] = "none" THEN "none" ELSE "stale"]
    /\ work' = [k \in DOMAIN work |-> [work[k] EXCEPT !.lost = TRUE]]
Recreate ==
    /\ pc = "recreate" /\ Waited
    /\ \/ size = 0 /\ NoSwapchain /\ UNCHANGED failures
       \/ size # 0 /\ NoSwapchain /\ Fails
       \/ NewSwapchain /\ inFlight' = [i \in Images |-> NoSlot] /\ UNCHANGED failures
       \/ NewSwapchain /\ UNCHANGED inFlight /\ Fails
    /\ Goto(next)
    /\ UNCHANGED <<next, seen, known, image, frameIndex, slot, fence, vertexSlot,
                   cacheExtent, drawn, window, failed>>

\* A mutated form: the fence is reset before it is known whether there is an image.
OutOfDateReset == fence' = [fence EXCEPT ![slot] = "reset"]
\* acquireNextImage(): no image, and a new swapchain for the next frame.
FenceWhenOutOfDate == UNCHANGED fence
OutOfDate ==
    /\ pc = "acquire" /\ fence[slot] = "signalled"
    /\ FenceWhenOutOfDate
    /\ known' = seen
    /\ Goto("recreate") /\ next' = "idle"
    /\ UNCHANGED <<seen, image, frameIndex, extent, handles, slot, inFlight, renderer,
                   window, work, device>>

\* ... or an image, also one that is still being rendered to.
Acquire ==
    /\ pc = "acquire" /\ fence[slot] = "signalled" /\ extent = size
    /\ image' \in Images
    /\ Goto("image")
    /\ UNCHANGED <<next, seen, known, frameIndex, swapchain, renderer, window, work, device>>
\* A mutated form: the fence of the image is not waited for.
AnyImage(i) == TRUE
ImageFree(i) == inFlight[i] \in Slots => fence[inFlight[i]] = "signalled"
AcquireImage ==
    /\ pc = "image" /\ ImageFree(image)
    /\ inFlight' = [inFlight EXCEPT ![image] = slot]
    /\ fence' = [fence EXCEPT ![slot] = "reset"]
    /\ Goto("record")
    /\ UNCHANGED <<next, seen, known, image, frameIndex, extent, handles, slot,
                   renderer, window, work, device>>

\* The vertices are written, the command buffer is recorded; renderFrame() draws
\* nothing when it cannot create what it needs.  A framebuffer is kept until the
\* extent changes, and found again by the handle of its image view.
Kept == IF cacheExtent = extent THEN cache ELSE [h \in Handles |-> "none"]
Draw ==
    LET h == <<handles, image>>
        found == IF Kept[h] = "none" THEN "fresh" ELSE Kept[h]
    IN  /\ cache' = [Kept EXCEPT ![h] = found]
        /\ drawn' = found
        /\ vertexSlot' = After(vertexSlot)
DrawNothing ==
    /\ drawn' = "none"
    /\ cache' \in {cache, Kept}
    /\ UNCHANGED vertexSlot
Record ==
    /\ pc = "record"
    /\ \/ Draw /\ cacheExtent' = extent
       \/ DrawNothing /\ cacheExtent' = (IF cache' = cache THEN cacheExtent ELSE extent)
    /\ work' = [k \in DOMAIN work |->
                  [work[k] EXCEPT !.lost = @ \/ /\ cacheExtent' # cacheExtent
                                                /\ work[k].framebuffer # "none"]]
    /\ Goto("submit")
    /\ UNCHANGED <<next, seen, known, image, frameIndex, swapchain, window, device>>

\* submit(): the fence will be signalled when the GPU is through with all of it, or
\* never when the queue refuses it, which onFrame() does not look at.
VertexUsed == IF drawn = "none" THEN NoSlot
              ELSE (vertexSlot + FramesInFlight - 1) % FramesInFlight
Submission == [slot |-> slot, image |-> image, command |-> frameIndex, vertex |-> VertexUsed,
               framebuffer |-> drawn, lost |-> FALSE]
Submit ==
    /\ pc = "submit"
    /\ \/ /\ work' = Append(work, Submission)
          /\ fence' = [fence EXCEPT ![slot] = "pending"]
          /\ UNCHANGED device
       \/ /\ Fails /\ failed' = failed \cup {slot}
          /\ UNCHANGED <<work, fence>>
    /\ Goto("present")
    /\ UNCHANGED <<next, seen, known, image, frameIndex, extent, handles, slot, inFlight,
                   renderer, window>>

\* present(): the rings turn, and a swapchain that does not fit is replaced.
TurnSlot == slot' = After(slot)
Present ==
    /\ pc = "present"
    /\ TurnSlot /\ frameIndex' = After(frameIndex)
    /\ image' = NoImage /\ drawn' = "none"
    /\ next' = "idle" /\ (Goto("idle") \/ Goto("recreate"))
    /\ UNCHANGED <<seen, known, extent, handles, fence, inFlight, vertexSlot, cache,
                   cacheExtent, window, work, device>>

\* The window is closed: its render hook is gone, then detach() waits for the
\* fences and destroys what the surface has, the driver goes with the device idle.
Unhook ==
    /\ pc = "idle" /\ Goto("detach")
    /\ UNCHANGED <<next, seen, known, image, frameIndex, swapchain, renderer, window, work, device>>
Detach ==
    /\ pc = "detach" /\ Waited
    /\ work' = [k \in DOMAIN work |-> [work[k] EXCEPT !.lost = TRUE]]
    /\ Goto("gone")
    /\ UNCHANGED <<next, seen, known, image, frameIndex, swapchain, renderer, window, device>>

-----------------------------------------------------------------------------
\* The queue executes in order; the user resizes the window.
Complete ==
    /\ work # <<>>
    /\ fence' = [fence EXCEPT ![Head(work).slot] = "signalled"]
    /\ work' = Tail(work)
    /\ UNCHANGED <<driver, extent, handles, slot, inFlight, renderer, window, device>>
Resize ==
    /\ resizes < MaxResizes
    /\ size' \in Sizes \ {size} /\ resizes' = resizes + 1
    /\ UNCHANGED <<driver, swapchain, renderer, work, device>>

OnFrame ==
    \/ Frame \/ Recreate \/ OutOfDate \/ Acquire \/ AcquireImage \/ Record \/ Submit
    \/ Present \/ Detach
Next == OnFrame \/ Unhook \/ Complete \/ Resize

\* The window's thread calls onFrame() again and again, and the GPU works.
Fairness == WF_vars(OnFrame) /\ WF_vars(Complete)
Spec == Init /\ [][Next]_vars /\ Fairness

-----------------------------------------------------------------------------
TypeOK ==
    /\ slot \in Slots /\ frameIndex \in Slots /\ vertexSlot \in Slots
    /\ fence \in [Slots -> {"signalled", "reset", "pending"}]
    /\ inFlight \in [Images -> Slots \cup {NoSlot}]
    /\ Len(work) <= FramesInFlight

Pending == {work[k] : k \in DOMAIN work}
\* What is written or recorded now, no submission uses any more, however the
\* three rings have been turned against each other.
RecordsFree ==
    pc = "record" => \A p \in Pending : p.command # frameIndex /\ p.vertex # vertexSlot
\* No image is rendered to by two frames at a time.
OneFramePerImage == \A j, k \in DOMAIN work : work[j].image = work[k].image => j = k
\* Nothing is destroyed under the GPU: no swapchain, no framebuffer, no surface.
NothingLost == \A p \in Pending : ~p.lost
\* A fence that somebody may wait for will be signalled, unless its submission was
\* refused; in between only the frame being made has it.
FencesMeant ==
    \A s \in Slots :
        /\ fence[s] = "pending" <=> \E p \in Pending : p.slot = s
        /\ fence[s] = "reset" => s \in failed \/ (s = slot /\ pc \in {"record", "submit"})

Inv == TypeOK /\ RecordsFree /\ OneFramePerImage /\ NothingLost /\ FencesMeant

\* The frame, or the end of the window, waits for a fence that nobody will signal.
Never(s) == s \in failed /\ fence[s] = "reset"
Hung ==
    \/ pc = "acquire" /\ Never(slot)
    \/ pc = "image" /\ Never(inFlight[image])
    \/ pc \in {"recreate", "detach"} /\ \E s \in Slots : Never(s)
\* Every onFrame() returns, so that the window can be closed, and what is shown
\* has the window's size once the user leaves it alone; after a submission that was
\* refused one waits for its fence.
Resting   == pc \in {"idle", "gone"} \/ Hung
Fits      == pc = "gone" \/ size = 0 \/ extent = size \/ Hung
EventuallyFits == []<>Resting /\ <>[]Fits

\* A framebuffer is used only with the image view it was made for.
NoStaleFramebuffer == drawn # "stale"
=============================================================================
