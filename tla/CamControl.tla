----------------------------- MODULE CamControl -----------------------------
(***************************************************************************)
(* The control thread of the USB camera HAL (ControlThread.cpp).  Client  *)
(* calls become messages on mMessageQueue; the synchronous ones block the *)
(* caller until the handler replies.  The thread (threadLoop) handles one *)
(* message per iteration, giving the queue priority over frames, and in a *)
(* preview state otherwise dequeues a frame from the driver.  Buffers it  *)
(* lends to the pipe and picture threads come back as RETURN_BUFFER       *)
(* messages.  The thread's fields are the record ct; the driver, the      *)
(* allocators and the other threads are free choices.                     *)
(***************************************************************************)
EXTENDS Naturals, Sequences, SequencesExt

CONSTANTS
  MaxQueue,         \* messages the client and the other threads may queue
  MaxPictures,      \* takePicture calls in one behaviour
  DriverMayFail,    \* driver start/stop, frame grabs and allocations may fail
  HasFaceDetector   \* FaceDetectorFactory::createDetector returned a detector

ASSUME MaxQueue \in Nat \ {0} /\ MaxPictures \in Nat
ASSUME DriverMayFail \in BOOLEAN /\ HasFaceDetector \in BOOLEAN

States == {"STOPPED", "PREVIEW_STILL", "PREVIEW_VIDEO", "RECORDING", "CAPTURE"}
Streaming == {"PREVIEW_STILL", "PREVIEW_VIDEO", "RECORDING"}
CapSlots == {"yuv", "postview", "inter"}   \* yuvBuffer, postviewBuffer, interBuff
SyncIds == {"START_PREVIEW", "STOP_PREVIEW", "START_RECORDING",
            "STOP_RECORDING", "SET_PARAMETERS", "GET_PARAMETERS"}
AsyncIds == {"TAKE_PICTURE", "CANCEL_PICTURE", "AUTO_FOCUS", "CANCEL_AUTO_FOCUS",
             "RELEASE_RECORDING_FRAME", "STORE_META_DATA", "COMMAND", "EXIT"}
NoCall == "NONE"
NoArg == "NONE"
Frame == [slot |-> "FRAME", shot |-> 0]   \* a returned driver, preview, video or pool buffer
Outcome == IF DriverMayFail THEN BOOLEAN ELSE {TRUE}

VARIABLES
  ct,       \* the ControlThread fields, its queue and the buffers it lent
  client,   \* the synchronous call the client is blocked in, or NoCall
  running   \* mThreadRunning

vars == <<ct, client, running>>

Msg(id, arg) == [id |-> id, arg |-> arg]
CapReturn(s, n) == Msg("RETURN_BUFFER", [slot |-> s, shot |-> n])

Init ==
  /\ \E hint \in BOOLEAN :
       ct = [st |-> "STOPPED",        \* mState
             drv |-> "OFF",           \* mode the driver was started in
             live |-> FALSE,          \* the preview buffer pools are allocated
             leaked |-> FALSE,        \* a set of pools was allocated over live ones
             restart |-> FALSE,       \* mRestartdevice
             jpegDrv |-> FALSE,       \* mJpegFromDriver
             thumb |-> FALSE,         \* mThumbSupported
             cap |-> [s \in CapSlots |-> 0],  \* the picture a capture pointer holds
             shots |-> 0,             \* takePicture messages handled
             lastRec |-> FALSE,       \* mLastRecordingBuff and mLastRecordJpegBuff set
             face |-> FALSE,          \* mFaceDetectionActive
             meta |-> FALSE,          \* CAMERA_MSG_PREVIEW_METADATA enabled
             hint |-> hint,           \* KEY_RECORDING_HINT of mParameters
             storeMeta |-> TRUE,      \* mStoreMetaDataInVideoBuffers
             q |-> <<>>,              \* mMessageQueue
             pipe |-> FALSE,          \* the pipe thread holds preview buffers
             pic |-> {},              \* capture buffers the picture thread holds
             enc |-> 0]               \* the picture last handed to mPictureThread->encode
  /\ client = NoCall
  /\ running = TRUE

Send(c, m) == [c EXCEPT !.q = Append(@, m)]

\* startFaceDetection
StartFaceDetection(c) ==
  IF c.st = "STOPPED" \/ c.face \/ ~HasFaceDetector THEN c
  ELSE [c EXCEPT !.face = TRUE, !.meta = TRUE]

\* stopFaceDetection
StopFaceDetection(c) ==
  IF ~c.face THEN c ELSE [c EXCEPT !.face = FALSE, !.meta = FALSE]

\* startPreviewCore: allocates the pools over whatever the pointers held,
\* frees them again only when an allocation fails, and changes mState
\* only when the driver starts.
StartPreviewCore(c, video, allocOk, startOk) ==
  LET alloc == [c EXCEPT !.leaked = @ \/ c.live, !.live = allocOk]
  IN  IF c.st # "STOPPED" THEN c
      ELSE IF ~allocOk \/ ~startOk THEN alloc
      ELSE [alloc EXCEPT !.st = IF video THEN "PREVIEW_VIDEO" ELSE "PREVIEW_STILL",
                         !.drv = IF video THEN "VIDEO" ELSE "PREVIEW"]

\* stopPreviewCore: flushes the pipe, drops every queued RETURN_BUFFER,
\* stops the driver (mState = STOPPED only if that succeeds) and frees
\* the pools in any case.
StopPreviewCore(c, stopOk) ==
  [c EXCEPT !.pipe = FALSE,
            !.q = SelectSeq(@, LAMBDA m : m.id # "RETURN_BUFFER"),
            !.st = IF stopOk THEN "STOPPED" ELSE @,
            !.drv = IF stopOk THEN "OFF" ELSE @,
            !.live = FALSE,
            !.lastRec = FALSE]

\* stopCapture: the picture thread's flush hands its buffers back through
\* the queue, then the driver is stopped.  The pools are left alone.
StopCapture(c, stopOk) ==
  IF c.st # "CAPTURE" THEN c
  ELSE LET flushed == [c EXCEPT !.q = @ \o SetToSeq({CapReturn(b.slot, b.shot) : b \in c.pic}),
                                !.pic = {}]
       IN  IF stopOk THEN [flushed EXCEPT !.st = "STOPPED", !.drv = "OFF"] ELSE flushed

\* restartPreview
RestartPreview(c, video, ok) ==
  LET stopped == StopPreviewCore(StopFaceDetection(c), ok[1])
      started == IF ok[1] THEN StartPreviewCore(stopped, video, ok[2], ok[3]) ELSE stopped
  IN  IF c.face THEN StartFaceDetection(started) ELSE started

Ok(c) == c.st # "STOPPED"

\* handleMessageStartPreview: a failed stopCapture returns before the reply.
HandleStartPreview(c, ok) ==
  LET c1 == IF c.st = "CAPTURE" THEN StopCapture(c, ok[1]) ELSE c
  IN  IF c.st = "CAPTURE" /\ ~ok[1] THEN c1
      ELSE IF c1.st = "STOPPED"
           THEN StartPreviewCore(StopFaceDetection(c1), c1.hint, ok[2], ok[3])
           ELSE c1

\* handleMessageStartPreview replies unless stopCapture failed.
StartPreviewReplies(c, ok) == ~(c.st = "CAPTURE" /\ ~ok[1])

\* handleMessageStopPreview: in STATE_CAPTURE only stopCapture runs.
HandleStopPreview(c, ok) ==
  IF c.st = "CAPTURE" THEN StopCapture(c, ok[1])
  ELSE IF c.st # "STOPPED" THEN StopPreviewCore(StopFaceDetection(c), ok[1])
  ELSE StopFaceDetection(c)

\* handleMessageStartRecording: from still preview the driver is restarted
\* in video mode first.
HandleStartRecording(c, ok) ==
  IF c.st = "PREVIEW_VIDEO" THEN [c EXCEPT !.st = "RECORDING"]
  ELSE IF c.st # "PREVIEW_STILL" THEN c
  ELSE LET stopped == StopPreviewCore(c, ok[1])
           started == StartPreviewCore(stopped, TRUE, ok[2], ok[3])
       IN  IF ~ok[1] THEN stopped
           ELSE IF Ok(started) THEN [started EXCEPT !.st = "RECORDING"] ELSE started

\* handleMessageStopRecording
HandleStopRecording(c) ==
  IF c.st = "RECORDING" THEN [c EXCEPT !.st = "PREVIEW_VIDEO"] ELSE c

\* mPictureThread->encode for picture n, handed the capture buffers of
\* slots S.
Encode(c, S, n) == [c EXCEPT !.pic = @ \cup {[slot |-> s, shot |-> c.cap[s]] : s \in S}, !.enc = n]

\* handleMessageTakePicture from still or video preview (picture n): with
\* mRestartdevice the driver is restarted in capture mode for a snapshot
\* into a new yuvBuffer; postviewBuffer and interBuff are allocated when a
\* thumbnail is wanted and the JPEG is not the driver's.  Every failure
\* returns at once, freeing only the buffers of that allocation.
CapturePreview(c, ok, n) ==
  LET r == c.restart
      a == IF r THEN [c EXCEPT !.cap.yuv = IF ok[2] THEN n ELSE 0] ELSE c
      b == IF r /\ ok[3] THEN [a EXCEPT !.drv = "CAPTURE"] ELSE a
      d == IF r /\ ~c.jpegDrv THEN Send(b, Msg("RETURN_BUFFER", Frame)) ELSE b
      e == IF c.thumb /\ ~ok[5] THEN [d EXCEPT !.cap.postview = 0, !.cap.yuv = 0]
           ELSE IF c.thumb THEN [d EXCEPT !.cap.postview = n] ELSE d
      f == IF ~c.jpegDrv /\ ~ok[6]
           THEN [e EXCEPT !.cap.inter = 0, !.cap.yuv = 0, !.cap.postview = 0]
           ELSE IF ~c.jpegDrv THEN [e EXCEPT !.cap.inter = n] ELSE e
      g == IF r THEN Encode(f, {s \in CapSlots : f.cap[s] = n}, n) ELSE f
  IN  IF r /\ ~ok[2] THEN a
      ELSE IF r /\ ~(ok[3] /\ ok[4]) THEN b
      ELSE IF c.thumb /\ ~ok[5] THEN e
      ELSE IF ~c.jpegDrv /\ ~ok[6] THEN f
      ELSE [g EXCEPT !.st = "CAPTURE"]

\* handleMessageTakePicture while recording: the picture is encoded from
\* the last recording buffers, if dequeueRecording has kept any.
CaptureRecording(c, ok, n) ==
  LET e == IF c.thumb THEN [c EXCEPT !.cap.postview = IF ok[5] THEN n ELSE 0] ELSE c
  IN  IF ~c.lastRec THEN c
      ELSE IF c.thumb /\ ~ok[5] THEN e
      ELSE Encode(e, {s \in {"postview"} : e.cap[s] = n}, n)

\* isThumbSupported: a thumbnail is made in the streaming and capture
\* states when its configured width and height are non-zero (sized).
IsThumbSupported(state, sized) ==
  state \in {"PREVIEW_STILL", "CAPTURE", "PREVIEW_VIDEO", "RECORDING"} /\ sized

\* handleMessageTakePicture: the picture does not fit the preview (fits is
\* FALSE) when it is wider than the preview or of another aspect ratio.
HandleTakePicture(c, ok, fits, thumbSized, jpegDrv) ==
  LET n == c.shots + 1
      c0 == [c EXCEPT !.shots = n]
      still == c.st \in {"PREVIEW_STILL", "PREVIEW_VIDEO"}
      c1 == IF still /\ ~fits
            THEN [StopPreviewCore(StopFaceDetection(c0), ok[1]) EXCEPT !.restart = TRUE]
            ELSE StopFaceDetection(c0)
      c2 == [c1 EXCEPT !.thumb = IsThumbSupported(c.st, thumbSized), !.jpegDrv = jpegDrv]
  IN  IF c.st \notin Streaming THEN c0
      ELSE IF still /\ ~fits /\ ~ok[1] THEN c1
      ELSE IF still THEN CapturePreview(c2, ok, n)
      ELSE CaptureRecording(c2, ok, n)

\* handleMessageAutoFocus: face callbacks pause and autoFocusDone() queues
\* AUTO_FOCUS_DONE.
HandleAutoFocus(c) ==
  Send(IF c.face THEN [c EXCEPT !.meta = FALSE] ELSE c, Msg("AUTO_FOCUS_DONE", NoArg))

\* handleMessageCancelAutoFocus and handleMessageAutoFocusDone
ResumeFaceCallbacks(c) == IF c.face THEN [c EXCEPT !.meta = TRUE] ELSE c

\* Mutant of HandleReturnBuffer: a returned capture buffer frees whatever
\* its slot's pointer holds now, matched by buffer type, not by pointer.
HandleReturnBufferBySlot(c, buf) ==
  IF c.st = "STOPPED" \/ buf = Frame THEN c
  ELSE IF c.cap[buf.slot] # 0 THEN [c EXCEPT !.cap[buf.slot] = 0]
  ELSE c

\* handleMessageReturnBuffer: ignored in STATE_STOPPED; a capture buffer
\* is freed by returnCaptureBuffer only if a capture pointer still holds it.
HandleReturnBuffer(c, buf) ==
  IF c.st = "STOPPED" \/ buf = Frame THEN c
  ELSE IF c.cap[buf.slot] = buf.shot THEN [c EXCEPT !.cap[buf.slot] = 0]
  ELSE c

\* processStaticParameters: a new preview or video size or preview format
\* (changed) restarts a running preview in the mode of mParameters'
\* recording hint; in any other state nothing is restarted.
ProcessStaticParameters(c, ok, changed) ==
  IF changed /\ c.st \in {"PREVIEW_STILL", "PREVIEW_VIDEO"}
  THEN RestartPreview(c, c.hint, ok)
  ELSE c

\* handleMessageSetParameters: a set that validateParameters refuses
\* changes nothing; a valid one replaces mParameters and then has its
\* static parameters processed.
HandleSetParameters(c, ok, p) ==
  IF ~p.valid THEN c
  ELSE ProcessStaticParameters([c EXCEPT !.hint = p.hint], ok, p.format)

\* handleMessageStoreMetaData: a change while in video restarts the
\* preview in video mode and puts mState back as it was.
HandleStoreMetaData(c, ok, enable) ==
  LET c1 == [c EXCEPT !.storeMeta = enable]
  IN  IF c.storeMeta = enable THEN c
      ELSE IF c.st \in {"PREVIEW_VIDEO", "RECORDING"}
           THEN [RestartPreview(c1, TRUE, ok) EXCEPT !.st = c.st]
           ELSE c1

\* handleMessageCommand
HandleCommand(c, cmd) ==
  IF cmd = "START_FACE_DETECTION" THEN StartFaceDetection(c) ELSE StopFaceDetection(c)

-----------------------------------------------------------------------------
(* The client: one caller of the HAL entry points at a time.              *)

Room == Len(ct.q) < MaxQueue

\* A synchronous entry point: send(&msg, id) blocks until the reply.
CallSync(id, arg) ==
  /\ client = NoCall /\ Room
  /\ ct' = Send(ct, Msg(id, arg))
  /\ client' = id
  /\ UNCHANGED running

\* An asynchronous entry point: send(&msg) returns at once.
CallAsync(id, arg) ==
  /\ client = NoCall /\ Room
  /\ ct' = Send(ct, Msg(id, arg))
  /\ UNCHANGED <<client, running>>

StartPreview == CallSync("START_PREVIEW", NoArg)

\* stopPreview reads mState without mStateLock and returns at once when
\* it is STATE_STOPPED.
StopPreview == ct.st # "STOPPED" /\ CallSync("STOP_PREVIEW", NoArg)

StartRecording == CallSync("START_RECORDING", NoArg)
StopRecording == CallSync("STOP_RECORDING", NoArg)
GetParameters == CallSync("GET_PARAMETERS", NoArg)

\* setParameters with a string that validateParameters accepts or not, and
\* that changes the preview size or format or not.
SetParameters ==
  \E valid, format, hint \in BOOLEAN :
    CallSync("SET_PARAMETERS", [valid |-> valid, format |-> format, hint |-> hint])

TakePicture ==
  /\ ct.shots + Len(SelectSeq(ct.q, LAMBDA m : m.id = "TAKE_PICTURE")) < MaxPictures
  /\ CallAsync("TAKE_PICTURE", NoArg)

CancelPicture == CallAsync("CANCEL_PICTURE", NoArg)
AutoFocus == CallAsync("AUTO_FOCUS", NoArg)
CancelAutoFocus == CallAsync("CANCEL_AUTO_FOCUS", NoArg)
ReleaseRecordingFrame == CallAsync("RELEASE_RECORDING_FRAME", NoArg)
StoreMetaDataInVideoBuffers == \E enable \in BOOLEAN : CallAsync("STORE_META_DATA", enable)

\* sendCommand queues the command even when it reports BAD_VALUE.
SendCommand ==
  \E cmd \in {"START_FACE_DETECTION", "STOP_FACE_DETECTION"} : CallAsync("COMMAND", cmd)

\* requestExitAndWait: EXIT is queued and the caller waits for the thread.
RequestExit ==
  /\ client = NoCall /\ Room
  /\ ct' = Send(ct, Msg("EXIT", NoArg))
  /\ client' = "EXIT"
  /\ UNCHANGED running

-----------------------------------------------------------------------------
(* The pipe and picture threads give back the buffers they hold.          *)

PipeReturn ==
  /\ ct.pipe /\ Room
  /\ ct' = [Send(ct, Msg("RETURN_BUFFER", Frame)) EXCEPT !.pipe = FALSE]
  /\ UNCHANGED <<client, running>>

PictureReturn ==
  \E b \in ct.pic :
    /\ Room
    /\ ct' = [Send(ct, CapReturn(b.slot, b.shot)) EXCEPT !.pic = @ \ {b}]
    /\ UNCHANGED <<client, running>>

-----------------------------------------------------------------------------
(* The control thread: one iteration of threadLoop.                       *)

Oks == [1..6 -> Outcome]
Pending(id) == running /\ ct.q # <<>> /\ Head(ct.q).id = id
Popped == [ct EXCEPT !.q = Tail(@)]
Arg == Head(ct.q).arg

\* waitForAndExecuteMessage has run the handler of message id, which left
\* the fields c and replied or not; in STATE_CAPTURE after a restart the
\* loop then clears mRestartdevice.
Executed(id, c, replied) ==
  /\ ct' = IF ct.st = "CAPTURE" /\ ct.restart THEN [c EXCEPT !.restart = FALSE] ELSE c
  /\ client' = IF id \in SyncIds /\ replied THEN NoCall ELSE client
  /\ running' = (id # "EXIT")

MsgStartPreview ==
  /\ Pending("START_PREVIEW")
  /\ \E ok \in Oks : Executed("START_PREVIEW", HandleStartPreview(Popped, ok),
                              StartPreviewReplies(Popped, ok))

MsgStopPreview ==
  Pending("STOP_PREVIEW") /\ \E ok \in Oks : Executed("STOP_PREVIEW", HandleStopPreview(Popped, ok), TRUE)

MsgStartRecording ==
  Pending("START_RECORDING") /\ \E ok \in Oks : Executed("START_RECORDING", HandleStartRecording(Popped, ok), TRUE)

MsgStopRecording == Pending("STOP_RECORDING") /\ Executed("STOP_RECORDING", HandleStopRecording(Popped), TRUE)

MsgTakePicture ==
  /\ Pending("TAKE_PICTURE")
  /\ \E ok \in Oks, fits, thumbSized, jpegDrv \in BOOLEAN :
       Executed("TAKE_PICTURE", HandleTakePicture(Popped, ok, fits, thumbSized, jpegDrv), TRUE)

MsgAutoFocus == Pending("AUTO_FOCUS") /\ Executed("AUTO_FOCUS", HandleAutoFocus(Popped), TRUE)

MsgResumeFace ==
  \E id \in {"CANCEL_AUTO_FOCUS", "AUTO_FOCUS_DONE"} :
    Pending(id) /\ Executed(id, ResumeFaceCallbacks(Popped), TRUE)

MsgReturnBuffer == Pending("RETURN_BUFFER") /\ Executed("RETURN_BUFFER", HandleReturnBuffer(Popped, Arg), TRUE)

MsgSetParameters ==
  Pending("SET_PARAMETERS") /\ \E ok \in Oks : Executed("SET_PARAMETERS", HandleSetParameters(Popped, ok, Arg), TRUE)

MsgStoreMetaData ==
  Pending("STORE_META_DATA") /\ \E ok \in Oks : Executed("STORE_META_DATA", HandleStoreMetaData(Popped, ok, Arg), TRUE)

MsgCommand == Pending("COMMAND") /\ Executed("COMMAND", HandleCommand(Popped, Arg), TRUE)

\* handleMessageGetParameters: flattens mParameters for the caller and
\* replies; nothing the model keeps changes.
MsgGetParameters == Pending("GET_PARAMETERS") /\ Executed("GET_PARAMETERS", Popped, TRUE)

\* handleMessageCancelPicture is an unimplemented stub.
MsgCancelPicture == Pending("CANCEL_PICTURE") /\ Executed("CANCEL_PICTURE", Popped, TRUE)

\* handleMessageReleaseRecordingFrame: in STATE_RECORDING the encoder's
\* buffer is unlocked and its processor count dropped; buffer reference
\* counts are not kept by the model.
MsgReleaseRecordingFrame ==
  Pending("RELEASE_RECORDING_FRAME") /\ Executed("RELEASE_RECORDING_FRAME", Popped, TRUE)

\* handleMessageExit: mThreadRunning = false ends threadLoop.
MsgExit == Pending("EXIT") /\ Executed("EXIT", Popped, TRUE)

\* dequeuePreview (STATE_PREVIEW_STILL, or STATE_CAPTURE without a driver
\* restart), with the queue empty and a frame available.  A frame of the
\* shutter in STATE_CAPTURE is encoded and mState goes to PREVIEW_STILL.
\* It first takes a free buffer of the pools (getFreeGraBuffer) and
\* returns with nothing done when there is none.
DequeuePreview ==
  /\ running /\ ct.q = <<>> /\ ct.live
  /\ ct.st = "PREVIEW_STILL" \/ (ct.st = "CAPTURE" /\ ~ct.restart)
  /\ \E grabbed \in Outcome, convFree \in BOOLEAN :
       LET c1 == IF ct.st # "CAPTURE" \/ ~ct.jpegDrv THEN Send(ct, Msg("RETURN_BUFFER", Frame)) ELSE ct
           shot == {s \in {"postview"} : ct.thumb} \cup {s \in {"inter"} : ~ct.jpegDrv}
           c2 == [c1 EXCEPT !.pipe = TRUE]
       IN  ct' = IF ~grabbed \/ ~convFree THEN Send(ct, Msg("RETURN_BUFFER", Frame))
                 ELSE IF ct.st = "CAPTURE"
                      THEN [Encode(c2, {s \in shot : ct.cap[s] # 0}, ct.shots) EXCEPT !.st = "PREVIEW_STILL"]
                      ELSE c2
  /\ UNCHANGED <<client, running>>

\* dequeueRecording (STATE_PREVIEW_VIDEO or STATE_RECORDING), with the
\* queue empty and a frame available.  It keeps the frame for a video
\* snapshot only in STATE_CAPTURE.
DequeueRecording ==
  /\ running /\ ct.q = <<>> /\ ct.live
  /\ ct.st \in {"PREVIEW_VIDEO", "RECORDING"}
  /\ \E grabbed \in Outcome, convFree, vppFree \in BOOLEAN :
       LET c1 == IF ct.st # "CAPTURE" THEN Send(ct, Msg("RETURN_BUFFER", Frame)) ELSE ct
           c2 == IF ct.st = "CAPTURE" THEN [c1 EXCEPT !.lastRec = TRUE] ELSE c1
       IN  ct' = IF ~grabbed THEN Send(ct, Msg("RETURN_BUFFER", Frame))
                 ELSE IF ~convFree THEN Send(c1, Msg("RETURN_BUFFER", Frame))
                 ELSE IF ct.st = "RECORDING" /\ ~vppFree
                      THEN Send(Send(c2, Msg("RETURN_BUFFER", Frame)), Msg("RETURN_BUFFER", Frame))
                 ELSE [c2 EXCEPT !.pipe = TRUE]
  /\ UNCHANGED <<client, running>>

\* One iteration of threadLoop that handles the message at the head of
\* mMessageQueue.
HandleMessage ==
  \/ MsgStartPreview \/ MsgStopPreview \/ MsgStartRecording \/ MsgStopRecording
  \/ MsgTakePicture \/ MsgAutoFocus \/ MsgResumeFace \/ MsgReturnBuffer
  \/ MsgSetParameters \/ MsgStoreMetaData \/ MsgCommand \/ MsgGetParameters
  \/ MsgCancelPicture \/ MsgReleaseRecordingFrame \/ MsgExit

Next ==
  \/ StartPreview \/ StopPreview \/ StartRecording \/ StopRecording
  \/ GetParameters \/ SetParameters \/ TakePicture \/ CancelPicture
  \/ AutoFocus \/ CancelAutoFocus \/ ReleaseRecordingFrame
  \/ StoreMetaDataInVideoBuffers \/ SendCommand \/ RequestExit
  \/ PipeReturn \/ PictureReturn
  \/ HandleMessage
  \/ DequeuePreview \/ DequeueRecording

Spec == Init /\ [][Next]_vars

TypeOK ==
  /\ ct.st \in States
  /\ ct.drv \in {"OFF", "PREVIEW", "VIDEO", "CAPTURE"}
  /\ ct.live \in BOOLEAN /\ ct.leaked \in BOOLEAN /\ ct.shots \in 0..MaxPictures
  /\ ct.cap \in [CapSlots -> 0..MaxPictures] /\ ct.enc \in 0..MaxPictures
  /\ client \in SyncIds \cup {NoCall, "EXIT"}
  /\ running \in BOOLEAN

(***************************************************************************)
(* The preview buffer pools are allocated at most once at a time: every   *)
(* startPreviewCore finds the pools of the previous preview freed.  The   *)
(* comment of handleMessageStopPreview says that in STATE_CAPTURE "preview *)
(* is already stopped, nothing to do", so only stopCapture runs there;    *)
(* but handleMessageTakePicture enters STATE_CAPTURE without stopping the *)
(* preview when the picture fits it, and a stopPreview or startPreview    *)
(* that the queue delivers before the next frame leaves those pools       *)
(* allocated for startPreviewCore to allocate over.                       *)
(***************************************************************************)
PreviewPoolsNotLeaked == ~ct.leaked

(***************************************************************************)
(* A capture buffer is never freed while the picture thread still holds   *)
(* it: returnCaptureBuffer frees a buffer only when it is the one the     *)
(* capture pointer of its slot still holds, so a late return of an older  *)
(* picture's buffer never frees the newer buffer handed out in its place. *)
(***************************************************************************)
CaptureBufferNotFreedWhileLent ==
  [][\A b \in ct.pic : ct.cap[b.slot] = b.shot /\ ct'.cap[b.slot] = 0 => b \notin ct'.pic]_vars

=============================================================================
