----------------------------- MODULE Compositor -----------------------------
(***************************************************************************)
(* The host window's compositor (luna_compositor.c).  Guest threads copy   *)
(* finished frames into slots and queue the newest; one thread of the      *)
(* compositor's own takes it, draws it under the emulator's UI and swaps.  *)
(* Frames that arrive as pixels go through one pending buffer.             *)
(*                                                                         *)
(* A section under g_mu is one action.  The GPU is represented by what is  *)
(* not yet ordered: writing holds the images with a copy no fence wait of  *)
(* the compositor covers, reading those with a draw no fence wait of the   *)
(* context that copies into them covers.  A fence is an id with the images *)
(* whose commands all come before it.                                      *)
(***************************************************************************)
EXTENDS Integers, FiniteSets, FiniteSetsExt, Functions, Sequences

CONSTANTS Producers,      \* host threads that present with a GL context
          Contexts,       \* the guest contexts current on them
          Submitters,     \* host threads that present pixels
          Sizes,          \* frame sizes, positive
          Intervals,      \* swap intervals guests ask for
          SLOTS,          \* frame slots
          SOURCES,        \* share groups remembered at a time
          CreateMayFail,  \* whether eglCreateImage can fail
          MaxFrames       \* bound: frames submitted

ASSUME CompositorAssumption ==
  /\ SLOTS \in Nat /\ SLOTS >= 2 /\ SOURCES \in Nat \ {0} /\ MaxFrames \in Nat
  /\ Sizes \subseteq Nat \ {0} /\ Intervals \subseteq Nat
  /\ CreateMayFail \in BOOLEAN /\ Producers \cap Submitters = {}

VARIABLES
  active,      \* g_active
  queued,      \* g_queued: the newest submitted slot, -1 when taken
  shown,       \* g_shown: the slot the compositor samples, or -1
  slotImg,     \* g_slot_img
  readyFence,  \* g_ready_fence
  releaseFence,\* g_release_fence
  slotFrame,   \* g_frame_w/h of each slot, with the frame they are of
  gwake,       \* g_wake
  px,          \* g_px_pending, the frame in g_px_buf and g_px_cap
  src,         \* g_src
  clock,       \* g_src_clock
  retired,     \* g_retired[0 .. g_nretired - 1]
  comp,        \* the compositor thread: place, locals, textures, screen
  thr,         \* the presenting threads: place and locals of the call
  images,      \* EGL: live images
  content,     \* GPU: the frame last copied into each image
  syncs,       \* EGL: live fences, each with the images it covers
  writing, reading,
  started,     \* calls to submit a frame so far
  arrived      \* frames queued so far; a frame's n is its place among them

slots == <<queued, shown, slotImg, readyFence, releaseFence, slotFrame>>
sources == <<src, clock>>
gpu == <<content, syncs, writing, reading>>
vars == <<active, slots, gwake, px, sources, retired, comp, thr, images, gpu,
          started, arrived>>

Slots == 0 .. SLOTS - 1
Entries == 0 .. SOURCES - 1
NoSync == 0
NoImage == 0
NoFrame == [id |-> 0, n |-> 0, size |-> 0]
NoSource == [ctx |-> "none", img |-> [k \in Slots |-> NoImage], size |-> 0, used |-> 0]
Idle == [pc |-> "idle", ctx |-> "none", id |-> 0, size |-> 0, interval |-> 0, slot |-> -1,
         release |-> NoSync, ready |-> NoSync, entry |-> -1]

Init ==
  /\ active = TRUE /\ queued = -1 /\ shown = -1
  /\ slotImg = [k \in Slots |-> NoImage]
  /\ readyFence = [k \in Slots |-> NoSync] /\ releaseFence = [k \in Slots |-> NoSync]
  /\ slotFrame = [k \in Slots |-> NoFrame]
  /\ gwake = FALSE /\ px = [pending |-> FALSE, frame |-> NoFrame, cap |-> 0]
  /\ src = [e \in Entries |-> NoSource] /\ clock = 0 /\ retired = <<>>
  /\ comp = [pc |-> "setup", signalled |-> FALSE, take |-> -1, ready |-> NoSync,
             img |-> NoImage, tex |-> [k \in Slots |-> NoImage], haveFrame |-> FALSE,
             pxTex |-> NoFrame, pxShown |-> FALSE, frame |-> NoFrame, screen |-> 0]
  /\ thr = [p \in Producers \cup Submitters |-> Idle]
  /\ images = {} /\ content = [m \in 1 .. MaxFrames * SLOTS |-> 0]
  /\ syncs = <<>> /\ writing = {} /\ reading = {}
  /\ started = 0 /\ arrived = 0

-----------------------------------------------------------------------------
(* Fences and condition variables *)

\* eglCreateSync: a handle that is not in use.
NewSync == Min((1 .. Cardinality(DOMAIN syncs) + 1) \ DOMAIN syncs)
\* eglDestroySync.
Without(f, ids) == [i \in DOMAIN f \ ids |-> f[i]]
Cover(f, s) == IF s \in DOMAIN f THEN f[s] ELSE {}

\* pthread_cond_signal(&g_cv_guest): one of the blocked threads, when there is one.
SignalGuest(t) ==
  IF \E p \in DOMAIN t : t[p].pc = "wait"
  THEN {[t EXCEPT ![p].pc = "woken"] : p \in {q \in DOMAIN t : t[q].pc = "wait"}}
  ELSE {t}
\* pthread_cond_signal(&g_cv_comp).
SignalComp(c) == [c EXCEPT !.signalled = @ \/ c.pc = "asleep"]

-----------------------------------------------------------------------------
(* luna_comp_submit: a frame in the current GL context *)

\* The call begins.
SubmitBegin(p, c, z, i) ==
  /\ thr[p].pc = "idle" /\ active /\ started < MaxFrames
  /\ \A q \in Producers : thr[q].ctx # c        \* a context is current on one thread
  /\ started' = started + 1
  /\ thr' = [thr EXCEPT ![p] = [Idle EXCEPT !.ctx = c, !.id = started', !.size = z,
                                  !.interval = i, !.pc = "begin"]]
  /\ UNCHANGED <<active, slots, gwake, px, sources, retired, comp, images, gpu, arrived>>

\* What a call waits for: the frame before it has not been taken.
Pending(p) == IF p \in Producers THEN queued >= 0 ELSE px.pending
\* With vsync on a frame that is still pending holds the call.
MustWait(p) == thr[p].pc = "begin" /\ thr[p].interval > 0 /\ Pending(p)

\* The call waits, for the first time or because it was signalled for nothing.
WaitForFrame(p) ==
  /\ MustWait(p) \/ (thr[p].pc = "woken" /\ Pending(p))
  /\ thr' = [thr EXCEPT ![p].pc = "wait"]
  /\ UNCHANGED <<active, slots, gwake, px, sources, retired, comp, images, gpu,
                 started, arrived>>

\* The lowest slot that is neither shown nor queued; the queued one when there is none.
FreeSlot ==
  LET slot == Min((0 .. SLOTS) \ {shown, queued})
  IN IF slot >= SLOTS THEN queued ELSE slot

\* A wait without the bound of 100 ms.
MayGoUntimed(p) ==
  \/ thr[p].pc = "begin" /\ ~MustWait(p)
  \/ thr[p].pc = "woken" /\ ~Pending(p)
\* A call need not wait, or its wait is over: what it waited for was taken, or 100 ms
\* have passed.
MayGo(p) == thr[p].pc \in {"begin", "wait", "woken"} /\ ~MustWait(p)

\* The release fence stays in the table of the slot it was taken from.
KeepRelease(slot) == releaseFence
\* The release fence of a slot is taken out of the table.
TakeRelease(slot) == [releaseFence EXCEPT ![slot] = NoSync]

\* A slot for the frame, with its release fence.  The queued frame it replaces, if any,
\* is no longer queued and its ready fence destroyed.
SubmitSlot(p) ==
  /\ p \in Producers /\ MayGo(p)
  /\ LET slot == FreeSlot
         stale == IF slot = queued THEN {readyFence[slot]} \ {NoSync} ELSE {}
     IN /\ thr' = [thr EXCEPT ![p].pc = "scan", ![p].slot = slot,
                               ![p].release = releaseFence[slot]]
        /\ releaseFence' = TakeRelease(slot)
        /\ readyFence' = IF slot = queued THEN [readyFence EXCEPT ![slot] = NoSync]
                                          ELSE readyFence
        /\ queued' = IF slot = queued THEN -1 ELSE queued
        /\ syncs' = Without(syncs, stale)
  /\ UNCHANGED <<active, shown, slotImg, slotFrame, gwake, px, sources, retired, comp,
                 images, content, writing, reading, started, arrived>>

\* g_src is searched for the context: its entry, else the least recently used one.
EntryOf(c) ==
  LET own == {e \in Entries : src[e].ctx = c}
      lru == {e \in Entries : \A f \in Entries : src[e].used <= src[f].used}
  IN Min(IF own # {} THEN own ELSE lru)

\* The images a context copies into.
Own(c) == {src[e].img[k] : e \in {f \in Entries : src[f].ctx = c}, k \in Slots}

\* The fence is destroyed and never waited for.
UnwaitedReads(c, sync) == reading
\* eglWaitSync on a release fence: the draws it covers come before what the waiting
\* context does next, and before nothing of another context.
ReadsAfter(c, sync) == reading \ (Cover(syncs, sync) \cap Own(c))

\* The release fence is waited for and destroyed, then source_for searches g_src.
SourceScan(p) ==
  /\ thr[p].pc = "scan"
  /\ LET e == EntryOf(thr[p].ctx)
     IN thr' = [thr EXCEPT ![p].entry = e, ![p].release = NoSync,
                  ![p].pc = IF src[e].ctx = thr[p].ctx THEN "claim" ELSE "evict"]
  /\ reading' = ReadsAfter(thr[p].ctx, thr[p].release)
  /\ syncs' = Without(syncs, {thr[p].release})
  /\ UNCHANGED <<active, slots, gwake, px, sources, retired, comp, images, content,
                 writing, started, arrived>>

\* The images of an entry, in the order of the slots.
ImagesOf(e) ==
  SelectSeq([k \in 1 .. SLOTS |-> src[e].img[k - 1]], LAMBDA m : m # NoImage)
\* g_retired without a look at its length.
RetireUnbounded(e) == retired \o ImagesOf(e)
\* The images of an entry go to g_retired as long as there is room.
Retire(e) ==
  LET all == retired \o ImagesOf(e)
  IN SubSeq(all, 1, Min({Len(all), SOURCES * SLOTS}))

\* source_for, a context not seen before: the entry's images are retired.
SourceEvict(p) ==
  /\ thr[p].pc = "evict"
  /\ retired' = Retire(thr[p].entry)
  /\ thr' = [thr EXCEPT ![p].pc = "reset"]
  /\ UNCHANGED <<active, slots, gwake, px, sources, comp, images, gpu, started, arrived>>

\* source_for: a new entry is cleared; the entry is marked used; with the size it has
\* it is returned.
SourceClaim(p) ==
  /\ thr[p].pc \in {"claim", "reset"}
  /\ LET e == thr[p].entry
         s == IF thr[p].pc = "reset" THEN [NoSource EXCEPT !.ctx = thr[p].ctx] ELSE src[e]
     IN /\ src' = [src EXCEPT ![e] = [s EXCEPT !.used = clock + 1]]
        /\ thr' = [thr EXCEPT ![p].pc = IF s.size = thr[p].size /\ s.img[0] # NoImage
                                        THEN "copy" ELSE "resize"]
  /\ clock' = clock + 1
  /\ UNCHANGED <<active, slots, gwake, px, retired, comp, images, gpu, started, arrived>>

\* source_for, another size: the images of the old size are retired.
SourceResize(p) ==
  /\ thr[p].pc = "resize"
  /\ retired' = Retire(thr[p].entry)
  /\ thr' = [thr EXCEPT ![p].pc = "create"]
  /\ UNCHANGED <<active, slots, gwake, px, sources, comp, images, gpu, started, arrived>>

\* The lowest free image handles, in order.
NewImage(k) ==
  CHOOSE m \in DOMAIN content \ images :
    Cardinality({x \in DOMAIN content \ images : x < m}) = k

\* source_for makes a texture and an image for each slot.  A failure ends the submit at
\* the slot it met, before the size is noted.
SourceCreate(p) ==
  /\ thr[p].pc = "create"
  /\ \E n \in {SLOTS} \cup {k \in Slots : CreateMayFail} :
       LET new == [k \in 0 .. n - 1 |-> NewImage(k)]
           e == thr[p].entry
       IN /\ images' = images \cup {new[k] : k \in DOMAIN new}
          /\ src' = [src EXCEPT
                       ![e].img = [k \in Slots |-> IF k < n THEN new[k]
                                                   ELSE IF k = n THEN NoImage ELSE @[k]],
                       ![e].size = IF n = SLOTS THEN thr[p].size ELSE @]
          /\ thr' = [thr EXCEPT ![p] = IF n = SLOTS THEN [@ EXCEPT !.pc = "copy"] ELSE Idle]
  /\ UNCHANGED <<active, slots, gwake, px, clock, retired, comp, gpu, started, arrived>>

\* The image the frame is copied into.
Target(p) == src[thr[p].entry].img[thr[p].slot]

\* The copy is issued and fenced.  Fences made before it do not cover it.
SubmitCopy(p) ==
  /\ thr[p].pc = "copy"
  /\ LET m == Target(p)
         s == NewSync
     IN /\ syncs' = [i \in DOMAIN syncs \cup {s} |-> IF i = s THEN {m} ELSE syncs[i] \ {m}]
        /\ writing' = writing \cup ({m} \ {NoImage})
        /\ content' = [n \in DOMAIN content |-> IF n = m THEN thr[p].id ELSE content[n]]
        /\ thr' = [thr EXCEPT ![p].pc = "publish", ![p].ready = s]
  /\ UNCHANGED <<active, slots, gwake, px, sources, retired, comp, images, reading,
                 started, arrived>>

\* The frame a call hands over, next in the order of arrival.
FrameOf(p) == [id |-> thr[p].id, n |-> arrived + 1, size |-> thr[p].size]

\* The slot is queued and the compositor signalled.
SubmitPublish(p) ==
  /\ thr[p].pc = "publish"
  /\ LET k == thr[p].slot
     IN /\ readyFence' = [readyFence EXCEPT ![k] = thr[p].ready]
        /\ slotImg' = [slotImg EXCEPT ![k] = Target(p)]
        /\ slotFrame' = [slotFrame EXCEPT ![k] = FrameOf(p)]
        /\ queued' = k
  /\ arrived' = arrived + 1
  /\ comp' = SignalComp(comp)
  /\ thr' = [thr EXCEPT ![p] = Idle]
  /\ UNCHANGED <<active, shown, releaseFence, gwake, px, sources, retired, images, gpu,
                 started>>

-----------------------------------------------------------------------------
(* submit_pixels and luna_comp_wake *)

PixelsBegin(p, z, i) ==
  /\ thr[p].pc = "idle" /\ active /\ started < MaxFrames
  /\ started' = started + 1
  /\ thr' = [thr EXCEPT ![p] = [Idle EXCEPT !.id = started', !.size = z, !.interval = i,
                                            !.pc = "begin"]]
  /\ UNCHANGED <<active, slots, gwake, px, sources, retired, comp, images, gpu, arrived>>

\* The pending buffer is filled, also over a frame that was not taken in 100 ms.
PixelsFill(p) ==
  /\ p \in Submitters /\ MayGo(p)
  /\ px' = [pending |-> TRUE, frame |-> FrameOf(p), cap |-> Max({px.cap, thr[p].size})]
  /\ arrived' = arrived + 1
  /\ comp' = SignalComp(comp)
  /\ thr' = [thr EXCEPT ![p] = Idle]
  /\ UNCHANGED <<active, slots, gwake, sources, retired, images, gpu, started>>

\* The buffer cannot be made larger: the frame is dropped.
PixelsNoMemory(p) ==
  /\ p \in Submitters /\ MayGo(p)
  /\ thr[p].size > px.cap
  /\ thr' = [thr EXCEPT ![p] = Idle]
  /\ UNCHANGED <<active, slots, gwake, px, sources, retired, comp, images, gpu, started,
                 arrived>>

luna_comp_wake ==
  /\ active
  /\ gwake' = TRUE
  /\ comp' = SignalComp(comp)
  /\ UNCHANGED <<active, slots, px, sources, retired, thr, images, gpu, started, arrived>>

-----------------------------------------------------------------------------
(* comp_main *)

\* A test that leaves the pixel frame out.
WorkOfSlots == queued >= 0 \/ gwake
\* What the compositor does not sleep on.
Work == queued >= 0 \/ gwake \/ px.pending

\* The context is made current and the shaders built, or the thread ends.
CompSetup ==
  /\ comp.pc = "setup"
  /\ \/ comp' = [comp EXCEPT !.pc = "top"] /\ UNCHANGED active
     \/ comp' = [comp EXCEPT !.pc = "ended"] /\ active' = FALSE
  /\ UNCHANGED <<slots, gwake, px, sources, retired, thr, images, gpu, started, arrived>>

\* Nothing to do and the picture may stay as it is for a while.
CompSleep ==
  /\ comp.pc = "top" /\ ~Work
  /\ comp' = [comp EXCEPT !.pc = "asleep", !.signalled = FALSE]
  /\ UNCHANGED <<active, slots, gwake, px, sources, retired, thr, images, gpu, started,
                 arrived>>

\* A sleep without a period.
CompGoesSignalled == comp.pc = "top" \/ (comp.pc = "asleep" /\ comp.signalled)
\* When the thread goes on: at once with work or a picture due, after a sleep when it is
\* signalled or its period ends.
CompGoes == comp.pc \in {"top", "asleep"}

\* One signal for both kinds of frame.
GuestsSignalledOnce(take) ==
  IF take >= 0 \/ px.pending THEN SignalGuest(thr) ELSE {thr}
\* g_cv_guest is signalled for a taken slot and again for a taken pixel frame.
GuestsSignalled(take) ==
  LET taken == IF take >= 0 THEN SignalGuest(thr) ELSE {thr}
  IN IF px.pending THEN UNION {SignalGuest(t) : t \in taken} ELSE taken

\* The queued slot becomes the shown one; a fence after all draws so far releases the
\* slot shown until now.  A pending pixel frame is uploaded.
CompTake ==
  /\ CompGoes
  /\ gwake' = FALSE
  /\ LET take == queued
         releases == take >= 0 /\ shown >= 0 /\ shown # take
         old == IF releases THEN {releaseFence[shown]} ELSE {}
         kept == Without(syncs, old)
         done == NewSync
     IN /\ syncs' = IF releases
                    THEN [i \in DOMAIN kept \cup {done} |-> IF i = done THEN reading
                                                                        ELSE kept[i]]
                    ELSE syncs
        /\ releaseFence' = IF releases THEN [releaseFence EXCEPT ![shown] = done]
                                       ELSE releaseFence
        /\ readyFence' = IF take >= 0 THEN [readyFence EXCEPT ![take] = NoSync]
                                      ELSE readyFence
        /\ queued' = -1
        /\ shown' = IF take >= 0 THEN take ELSE shown
        /\ px' = [px EXCEPT !.pending = FALSE]
        /\ thr' \in GuestsSignalled(take)
        /\ comp' = [comp EXCEPT
                      !.pc = "bind", !.signalled = FALSE, !.take = take,
                      !.ready = IF take >= 0 THEN readyFence[take] ELSE NoSync,
                      !.img = IF take >= 0 THEN slotImg[take] ELSE NoImage,
                      !.frame = IF take >= 0 THEN slotFrame[take] ELSE @,
                      !.pxTex = IF px.pending THEN px.frame ELSE @,
                      !.pxShown = px.pending \/ (@ /\ take < 0),
                      !.haveFrame = @ \/ px.pending]
  /\ UNCHANGED <<active, slotImg, slotFrame, sources, retired, images, content, writing,
                 reading, started, arrived>>

\* A slot's texture is bound to the first image it is given only.
BoundOnce ==
  IF comp.take >= 0 /\ comp.tex[comp.take] = NoImage
  THEN [comp.tex EXCEPT ![comp.take] = comp.img] ELSE comp.tex
\* The compositor's textures once the taken image is bound to the one of its slot.
Rebound == IF comp.take >= 0 THEN [comp.tex EXCEPT ![comp.take] = comp.img] ELSE comp.tex

\* A sweep that looks at the compositor's own textures only.
InTexture(m) == \E k \in Slots : m = Rebound[k]
\* A retired image is in use: bound to a texture or held by a slot.
InUse(m) == \E k \in Slots : m \in {Rebound[k], slotImg[k]}

\* The taken image is bound once its copy is ordered before, then retired images that
\* nothing is bound to are destroyed.
CompBind ==
  /\ comp.pc = "bind"
  /\ LET gone == {m \in {retired[i] : i \in DOMAIN retired} : ~InUse(m)}
     IN /\ retired' = SelectSeq(retired, InUse)
        /\ images' = images \ gone
        /\ writing' = (writing \ Cover(syncs, comp.ready)) \ gone
        /\ reading' = reading \ gone
        /\ syncs' = [i \in DOMAIN syncs \ {comp.ready} |-> syncs[i] \ gone]
        /\ comp' = [comp EXCEPT !.pc = "draw", !.tex = Rebound, !.take = -1, !.ready = NoSync,
                                !.img = NoImage,
                                !.haveFrame = @ \/ comp.take >= 0]
  /\ UNCHANGED <<active, slots, gwake, px, sources, thr, content, started, arrived>>

\* What is drawn: the pixel texture, or the shown slot's image.
DrawsSlot == comp.haveFrame /\ ~comp.pxShown /\ shown >= 0

\* The picture is drawn and swapped; a window without a size is not drawn, and a picture
\* whose overlay cannot be drawn now is not swapped.
CompDraw(outcome) ==
  /\ comp.pc = "draw"
  /\ LET drawn == IF outcome # "hidden" /\ DrawsSlot THEN {comp.tex[shown]} ELSE {}
         frame == IF comp.pxShown THEN comp.pxTex.n
                  ELSE IF DrawsSlot THEN slotFrame[shown].n ELSE 0
     IN /\ reading' = reading \cup drawn
        /\ syncs' = [i \in DOMAIN syncs |-> syncs[i] \ drawn]
        /\ comp' = [comp EXCEPT !.pc = "top",
                                !.screen = IF outcome = "swapped" THEN frame ELSE @]
  /\ UNCHANGED <<active, slots, gwake, px, sources, retired, thr, images, content, writing,
                 started, arrived>>

-----------------------------------------------------------------------------
SubmitGo(p) ==
  \/ SubmitSlot(p) \/ SourceScan(p) \/ SourceEvict(p) \/ SourceClaim(p)
  \/ SourceResize(p) \/ SourceCreate(p) \/ SubmitCopy(p) \/ SubmitPublish(p)
PixelsGo(p) == PixelsFill(p) \/ PixelsNoMemory(p)
CompStep ==
  \/ CompSetup \/ CompSleep \/ CompTake \/ CompBind
  \/ \E outcome \in {"hidden", "busy", "swapped"} : CompDraw(outcome)

Next ==
  \/ \E p \in Producers : \/ SubmitGo(p)
                          \/ \E c \in Contexts, z \in Sizes, i \in Intervals :
                               SubmitBegin(p, c, z, i)
  \/ \E p \in Submitters : \/ PixelsGo(p)
                           \/ \E z \in Sizes, i \in Intervals : PixelsBegin(p, z, i)
  \/ \E p \in Producers \cup Submitters : WaitForFrame(p)
  \/ luna_comp_wake
  \/ CompStep

Spec == Init /\ [][Next]_vars

\* A presenting thread runs, and a timed wait ends, by the host's scheduler and clock.
\* The compositor is given no fairness: it may stand still in eglSwapBuffers.
FairGuests == /\ \A p \in Producers : WF_vars(SubmitGo(p) \/ WaitForFrame(p))
              /\ \A q \in Submitters : WF_vars(PixelsGo(q) \/ WaitForFrame(q))
FairSpec == Spec /\ FairGuests

\* The compositor thread runs; the window does not stay hidden nor the overlay locked.
FairComp == WF_vars(CompStep) /\ SF_vars(CompDraw("swapped"))

-----------------------------------------------------------------------------
(* Properties *)

\* Everywhere a fence handle can be: the two tables, the locals of the calls and of
\* the compositor.
Holders ==
  ({"readyFence", "releaseFence"} \X Slots) \cup ({"release", "ready"} \X Producers)
    \cup {<<"comp", 0>>}
FenceAt(h) ==
  CASE h[1] = "readyFence" -> readyFence[h[2]]
    [] h[1] = "releaseFence" -> releaseFence[h[2]]
    [] h[1] = "release" -> thr[h[2]].release
    [] h[1] = "ready" -> thr[h[2]].ready
    [] h[1] = "comp" -> comp.ready
Holding == {h \in Holders : FenceAt(h) # NoSync}
Held == {FenceAt(h) : h \in Holding}

\* The slots, fences, lists and calls of luna_compositor.c have their ranges; a slot
\* index taken, queued or shown is one of the three.
TypeOK ==
  /\ active \in BOOLEAN /\ gwake \in BOOLEAN
  /\ queued \in Slots \cup {-1} /\ shown \in Slots \cup {-1}
  /\ slotImg \in [Slots -> {NoImage} \cup DOMAIN content]
  /\ DOMAIN readyFence = Slots /\ DOMAIN releaseFence = Slots
  /\ Len(retired) <= SOURCES * SLOTS
  /\ images \subseteq DOMAIN content
  /\ writing \subseteq images /\ reading \subseteq images
  /\ comp.pc \in {"setup", "top", "asleep", "bind", "draw", "ended"}
  /\ \A p \in DOMAIN thr : thr[p].slot \in Slots \cup {-1}

\* The compositor never draws an image whose copy is not ordered before the draw, and a
\* guest never copies into an image some draw of which is not ordered before the copy
\* (the ready and release fences).  This is for one presenting thread with one entry in
\* g_src: a fence that another context takes from the slot is not waited for here.
NoTear ==
  /\ comp.pc = "draw" /\ DrawsSlot => comp.tex[shown] \notin writing
  /\ \A p \in Producers : thr[p].pc = "copy" => Target(p) \notin reading

\* The image bound to the shown slot holds the frame that was taken, at the size noted
\* for it, whatever was submitted, resized or evicted since (comp_main's rebind, and
\* g_frame_w/h read without g_mu).
DrawsShownFrame ==
  comp.pc = "draw" /\ DrawsSlot =>
    content[comp.tex[shown]] = comp.frame.id /\ slotFrame[shown] = comp.frame

\* An image that a slot holds or that the compositor has bound has not been destroyed, and
\* a guest that has a source has a live image to publish (the sweep of g_retired).
LiveImages ==
  /\ ({slotImg[k] : k \in Slots} \cup {comp.tex[k] : k \in Slots} \cup {comp.img})
       \ {NoImage} \subseteq images
  /\ \A p \in Producers : thr[p].pc \in {"copy", "publish"} => Target(p) \in images

\* A fence is in one place at a time, and one that is still to be waited for has not been
\* destroyed.
SyncsLinear ==
  /\ Held \subseteq DOMAIN syncs
  /\ IsInjective([h \in Holding |-> FenceAt(h)])

\* The compositor does not sleep on work: a frame or a wake that came while it slept has
\* signalled it.
CompAwake ==
  comp.pc = "asleep" /\ (queued >= 0 \/ gwake \/ px.pending) => comp.signalled

\* Submitting returns, also when the compositor has stopped (the bounded waits).
SubmitReturns ==
  \A p \in Producers \cup Submitters : (thr[p].pc # "idle") ~> (thr[p].pc = "idle")

\* Frame n, or a newer one, is on the screen; or the compositor never started, or a pixel
\* frame taken in the same turn or later is shown in its place.
Reached(n) == comp.screen >= n \/ ~active \/ (comp.pxShown /\ comp.frame.n >= n)

\* A frame that was queued, or a newer one, gets on the screen of a compositor that runs
\* (comp_main redraws by itself when the window was hidden or the overlay busy): again and
\* again the screen is up to date.  Frames are numbered and at most MaxFrames, so this is
\* the same as (arrived >= n) ~> Reached(n) for every n.
FrameReachesScreen == FairComp => []<>Reached(arrived)

\* A guest waits in submit only while the frame before it has not been taken.
WaitsOnlyWhileQueued == \A p \in DOMAIN thr : thr[p].pc = "wait" => Pending(p)

\* A fence that was made is destroyed, or somebody still holds it.
NoSyncLeak == DOMAIN syncs \subseteq Held

\* The pixel frame is shown until a frame of either kind arrives after it.
LatestShown ==
  comp.pc = "draw" /\ comp.pxShown /\ shown >= 0 => comp.frame.n < comp.pxTex.n
=============================================================================
