--------------------------- MODULE VulkanResources ---------------------------
(***************************************************************************)
(* What VulkanModule and one VulkanUiRenderer create, and who destroys it:  *)
(* every call of the driver may fail, functions undo what they had or leave *)
(* it to the destructor, and a module that was shut down can be initialized *)
(* again.  `live` is what exists, `held` what a member still refers to.     *)
(*                                                                         *)
(* The driver and SDL are external; so is the application, which destroys   *)
(* the renderer before it shuts the module down.                            *)
(***************************************************************************)
EXTENDS Naturals, Sequences, FiniteSets

CONSTANTS Surfaces,   \* windows that can be attached
          Images,     \* of a swapchain
          White,      \* m_whiteTexture
          Textures,   \* images and fonts of the application
          MaxSets,    \* kMaxTextures
          FramesInFlight, \* the frame slots, as many as the module has frames in flight
          MaxVertices \* bound: vertices of a frame

\* Assumed of the constants.
ResourceConstants ==
    /\ IsFiniteSet(Textures) /\ White \notin Textures /\ {MaxSets, MaxVertices} \subseteq Nat /\ MaxSets > 0
    /\ Images # {} /\ IsFiniteSet(Images) /\ Images \subseteq Nat
    /\ FramesInFlight \in Nat \ {0}

VARIABLES live, held,
          up,        \* whether onInit() has run
          renderer,  \* none, inert (m_device is null), made
          sets,      \* descriptor sets allocated from the pool
          currentFrame, \* of the renderer
          capacity,  \* slot |-> of its vertex buffer
          vertices,  \* slot |-> vertexCount
          drawn      \* what the last frame drew from: nothing, buffer, null

objects == <<live, held>>
buffers == <<currentFrame, capacity, vertices>>
vars    == <<live, held, up, renderer, sets, currentFrame, capacity, vertices, drawn>>

\* The objects: a kind, and which one of it.
One(kind)  == <<kind, 0>>
Ones(ks)   == {One(k) : k \in ks}
Parts(t)   == {<<"image", t>>, <<"memory", t>>, <<"view", t>>}
View(s, i) == <<"imageView", <<s, i>>>>
Views(s)   == {View(s, i) : i \in Images}
Chain(s)   == Views(s) \cup {<<"swapchain", s>>}
Sync(s)    == {<<"fences", s>>}   \* the semaphores, made and destroyed with them, are alike
Shown(s)   == Chain(s) \cup {<<"surface", s>>} \cup Sync(s)
Slots      == 0..(FramesInFlight - 1)
Vertex(f)  == {<<"buffer", f>>, <<"bufferMemory", f>>}
Pipeline   == Ones({"renderPass", "layout", "pipeline"})
Frames     == {<<"framebuffer", i>> : i \in Images}
\* What is created in this order: by onInit(), whose createInstance() adds the messenger
\* with validation only, and by the constructor.  attachToWindow() makes the device.
Instance == <<"instance", "messenger">>
Platform == <<"video", "library">> \o Instance
Device   == {One("device")}
Infra    == <<"sampler", "setLayout", "setPool", "commandPool", "fence">>
FirstOf(list, k) == Ones({list[i] : i \in 1..k})

Init ==
    /\ live = {} /\ held = {} /\ up = FALSE /\ renderer = "none"
    /\ sets = 0 /\ currentFrame = 0 /\ drawn = "nothing"
    /\ capacity = [f \in Slots |-> 0] /\ vertices = [f \in Slots |-> 0]

Has(o) == o \in held
\* The members in `new` are set and those in `old` cleared, with their objects.
Replace(old, new) ==
    /\ live' = (live \ (old \cap held)) \cup new
    /\ held' = (held \ old) \cup new

-----------------------------------------------------------------------------
\* onInit(): it stops at the first failure and keeps what it has.
OnInit ==
    /\ ~up /\ up' = TRUE
    /\ \E k \in 0..4 : Replace({}, FirstOf(Platform, k))
    /\ UNCHANGED <<renderer, sets, buffers, drawn>>

\* teardown(), of onShutdown() and the destructor.
WithDevice == (UNION {Shown(s) : s \in Surfaces}) \cup Device
Torn == (IF Has(One("device")) THEN WithDevice ELSE {}) \cup FirstOf(Platform, 4)
Shutdown ==
    /\ up /\ renderer = "none" /\ up' = FALSE
    /\ Replace(Torn, {})
    /\ UNCHANGED <<renderer, sets, buffers, drawn>>

\* attachToWindow(): the surface, and a swapchain that could not be finished, are destroyed
\* again; a device that was created for them stays.  createSyncObjects() does not look at
\* what it was given.
AttachFails == \E made \in {{}, Device} : Replace({}, made)
AttachSucceeds(s) ==
    \E sync \in SUBSET Sync(s) : Replace({}, Device \cup Chain(s) \cup {<<"surface", s>>} \cup sync)
Attach(s) ==
    /\ Has(One("instance")) /\ ~Has(<<"surface", s>>)
    /\ AttachSucceeds(s) \/ AttachFails
    /\ UNCHANGED <<up, renderer, sets, buffers, drawn>>

\* createSwapchainFor() of a surface that has one: nothing happens without the new one;
\* with it the old goes, and views are created as far as that succeeds.
NewChain(s, n) == {<<"swapchain", s>>} \cup {View(s, i) : i \in {i \in Images : i <= n}}
RecreateSwapchain(s) ==
    /\ Has(<<"surface", s>>)
    /\ \E n \in 0..Cardinality(Images) : Replace(Chain(s), NewChain(s, n))
    /\ UNCHANGED <<up, renderer, sets, buffers, drawn>>
Detach(s) ==
    /\ Has(<<"surface", s>>)
    /\ Replace(Shown(s), {})
    /\ UNCHANGED <<up, renderer, sets, buffers, drawn>>

-----------------------------------------------------------------------------
\* createGpuTexture(): what was created is destroyed when a later step fails, and the
\* descriptor set, which cannot be given back, is the last to be allocated.
\* A mutated form: the memory stays behind.
UndoneMemory(t) == Parts(t) \ {<<"memory", t>>}
Undone(t) == Parts(t)
TextureFails(t) ==
    \E made \in {{}, {<<"image", t>>}, {<<"image", t>>, <<"memory", t>>}, Parts(t)} :
        /\ live' = (live \cup made) \ Undone(t)
        /\ UNCHANGED <<held, sets>>
TextureMade(t) ==
    /\ sets < MaxSets /\ sets' = sets + 1
    /\ Replace({}, Parts(t))

\* The constructor: an early return leaves the remaining handles null, the white texture
\* comes last.
NewRenderer ==
    /\ renderer = "none"
    /\ \/ ~Has(One("device")) /\ renderer' = "inert" /\ UNCHANGED <<objects, sets>>
       \/ /\ Has(One("device")) /\ renderer' = "made"
          /\ \/ \E k \in 0..5 : Replace({}, FirstOf(Infra, k)) /\ sets' = 0
             \/ Replace({}, FirstOf(Infra, 5) \cup Parts(White)) /\ sets' = 1
    /\ UNCHANGED <<up, buffers, drawn>>

\* loadFont() and registerImage() ask for the white texture only.
MayUpload == renderer = "made" /\ <<"image", White>> \in held
Upload(t) ==
    /\ MayUpload /\ ~Has(<<"image", t>>)
    /\ TextureMade(t) \/ TextureFails(t)
    /\ UNCHANGED <<up, renderer, buffers, drawn>>

\* growVertexBuffer(): the old one goes first, and a failure leaves none, but not the
\* count of what was in it.
Grow(f, n) ==
    \/ Replace({}, Vertex(f)) /\ capacity' = [capacity EXCEPT ![f] = n]
       /\ vertices' = [vertices EXCEPT ![f] = n]
    \/ Replace(Vertex(f), {}) /\ capacity' = [capacity EXCEPT ![f] = 0] /\ UNCHANGED vertices
\* submit(): vertices for the next frame, in the buffer its slot has or in a larger one.
Submit ==
    /\ renderer = "made"
    /\ \E n \in 0..MaxVertices :
         IF n <= capacity[currentFrame]
         THEN vertices' = [vertices EXCEPT ![currentFrame] = n] /\ UNCHANGED <<objects, capacity>>
         ELSE Grow(currentFrame, n)
    /\ UNCHANGED <<up, renderer, sets, currentFrame, drawn>>

\* ensurePipeline(): what there is in another format goes, with its framebuffers.
\* A mutated form: the framebuffers of the old render pass are kept.
DroppedAlone == Pipeline
Dropped == IF Has(One("pipeline")) THEN Pipeline \cup Frames ELSE {}
NoPipeline ==
    /\ IF Has(One("setLayout")) THEN Replace(Dropped, {}) ELSE UNCHANGED objects
    /\ drawn' = "nothing" /\ UNCHANGED currentFrame
\* ensureFramebuffer(): with another extent the cache goes; then one for the image, if it
\* can be created, and what submit() left in the slot is drawn.
Drawn == IF vertices[currentFrame] = 0 THEN "nothing"
         ELSE IF Has(<<"buffer", currentFrame>>) THEN "buffer" ELSE "null"
Draw(gone, came) ==
    \/ Replace(gone, came) /\ drawn' = "nothing" /\ UNCHANGED currentFrame
    \/ \E framebuffer \in Frames :
         /\ Replace(gone, came \cup {framebuffer})
         /\ drawn' = Drawn /\ currentFrame' = (currentFrame + 1) % FramesInFlight
\* renderFrame(), of a frame that is not out of date.
RenderFrame ==
    /\ renderer = "made"
    /\ \/ NoPipeline
       \/ Has(One("setLayout")) /\ Draw(Dropped, Pipeline)
       \/ Has(One("pipeline")) /\ \E gone \in {{}, Frames} : Draw(gone, {})
    /\ UNCHANGED <<up, renderer, sets, capacity, vertices>>

\* The destructor: everything it holds, and the sets with their pool.
Freed ==
    (UNION {Vertex(f) : f \in Slots}) \cup Frames \cup (UNION {Parts(t) : t \in Textures \cup {White}})
        \cup FirstOf(Infra, 5) \cup Pipeline
DestroyRenderer ==
    /\ renderer # "none" /\ renderer' = "none"
    /\ Replace(Freed, {})
    /\ sets' = 0 /\ currentFrame' = 0 /\ drawn' = "nothing"
    /\ capacity' = [f \in Slots |-> 0] /\ vertices' = [f \in Slots |-> 0]
    /\ UNCHANGED up

Next ==
    \/ OnInit \/ Shutdown \/ NewRenderer \/ Submit \/ RenderFrame \/ DestroyRenderer
    \/ \E s \in Surfaces : Attach(s) \/ RecreateSwapchain(s) \/ Detach(s)
    \/ \E t \in Textures : Upload(t)
Spec == Init /\ [][Next]_vars

-----------------------------------------------------------------------------
TypeOK ==
    /\ up \in BOOLEAN /\ renderer \in {"none", "inert", "made"}
    /\ sets \in 0..MaxSets /\ currentFrame \in Slots
    /\ {capacity, vertices} \subseteq [Slots -> 0..MaxVertices]
    /\ drawn \in {"nothing", "buffer", "null"}

\* Every path of failure leaves what exists equal to what a member refers to: nothing
\* leaks, and nothing is destroyed twice.
HandlesExact == live = held

\* Nothing outlives what it was created from: a surface its instance, a swapchain its
\* surface, a framebuffer and a pipeline their render pass, everything its device.
Below(parent, children) == children \cap live # {} => parent \in live
ParentsLive ==
    /\ Below(One("instance"), Device \cup {<<"surface", s>> : s \in Surfaces})
    /\ Below(One("device"), Freed \cup UNION {Shown(s) : s \in Surfaces})
    /\ \A s \in Surfaces : Below(<<"surface", s>>, Chain(s)) /\ Below(<<"swapchain", s>>, Views(s))
    /\ Below(One("renderPass"), Frames \cup Pipeline)
    /\ Below(One("setLayout"), Pipeline)

\* A module that is down holds nothing, so that it can be initialized again; and the pool
\* has given out one set for each texture there is, however many uploads failed.
CleanWhenDown == ~up => live = {}
SetsMatchTextures == sets = Cardinality({t \in Textures \cup {White} : Has(<<"image", t>>)})

Inv == TypeOK /\ HandlesExact /\ ParentsLive /\ CleanWhenDown /\ SetsMatchTextures

\* renderFrame() draws from a vertex buffer.
NoDrawFromNothing == drawn # "null"
=============================================================================
