---------------------------- MODULE DataDumpGui -----------------------------
(***************************************************************************)
(* The window that shows header and payload of messages (DataDumpGui.cxx). *)
(*                                                                         *)
(* FairMQ calls ConditionalRun() again and again in one thread: it takes a *)
(* message if there is one, and draws the window once. Each section of the *)
(* window is open or collapsed, and the button Next may be pressed when    *)
(* the section "Actions" is open. Messages are numbered; a payload is the  *)
(* number of the message whose copy it points to, or Null. The use of a    *)
(* copy that was deleted is undefined behaviour: the device dies or goes   *)
(* on. The copies of the headers come and move with the payloads, but      *)
(* nobody ever deletes them: they are left out. The module keeps its names *)
(* apart from those of the other devices, so that one module can extend    *)
(* them all.                                                               *)
(***************************************************************************)
EXTENDS Naturals

CONSTANTS MaxMessages  \* bound: messages that come

ASSUME MessagesAssumption == MaxMessages \in Nat

Null == 0              \* nullptr

Messages == 1 .. MaxMessages

Chunks == Messages \cup {Null}

VARIABLES
  pc,                    \* "poll", "actions", "payload", or "dead"
  lastMessage,           \* the last message with two parts
  newDataAvailable,
  noDataMessage,         \* the window says "No data available."
  next, current,         \* payloads: the latest one, and the one in the window
  allocated,             \* messages whose copy of the payload is not deleted
  shown,                 \* what the section "Payload" showed last
  dangling,              \* history: a deleted copy was read or deleted again
  impatient              \* history: Next was pressed twice for a message

guiVars == <<pc, lastMessage, newDataAvailable, noDataMessage, next, current,
          allocated, shown, dangling, impatient>>

GuiInit ==
  /\ pc = "poll"
  /\ lastMessage = 0
  /\ newDataAvailable = FALSE
  /\ noDataMessage = FALSE
  /\ next = Null
  /\ current = Null
  /\ allocated = {}
  /\ shown = Null
  /\ dangling = FALSE
  /\ impatient = FALSE

-----------------------------------------------------------------------------
\* handleParts(): the copy replaces the next one, which nobody deletes.
HandleParts ==
  /\ pc = "poll"
  /\ lastMessage < MaxMessages
  /\ lastMessage' = lastMessage + 1
  /\ newDataAvailable' = TRUE
  /\ next' = lastMessage'
  /\ allocated' = allocated \cup {lastMessage'}
  /\ pc' = "actions"
  /\ UNCHANGED <<noDataMessage, current, shown, dangling, impatient>>

\* There is no message, or it does not have two parts.
NoParts ==
  /\ pc = "poll"
  /\ pc' = "actions"
  /\ UNCHANGED <<lastMessage, newDataAvailable, noDataMessage, next, current,
                 allocated, shown, dangling, impatient>>

\* What may happen when the copy of m is used.
Use(m, to) ==
  IF m \in allocated
  THEN pc' = to /\ UNCHANGED dangling
  ELSE pc' \in {to, "dead"} /\ dangling' = TRUE

\* Next is pressed with a message there: the current payload is deleted, and
\* newDataAvailable stays.
MutantDeleted == {}

Deleted == {current}

MutantMoved == IF current = Null THEN next ELSE current

Moved == next

PressNext ==
  /\ pc = "actions"
  /\ newDataAvailable
  /\ IF current # Null
     THEN Use(current, "payload")
     ELSE pc' = "payload" /\ UNCHANGED dangling
  /\ allocated' = allocated \ Deleted
  /\ current' = Moved
  /\ impatient' = (impatient \/ current = next)
  /\ UNCHANGED <<lastMessage, newDataAvailable, noDataMessage, next, shown>>

\* Next is pressed too early.
PressNextTooEarly ==
  /\ pc = "actions"
  /\ ~newDataAvailable
  /\ pc' = "payload"
  /\ UNCHANGED <<lastMessage, newDataAvailable, noDataMessage, next, current,
                 allocated, shown, dangling, impatient>>

NotPressed ==
  /\ pc = "actions"
  /\ noDataMessage' = ~newDataAvailable
  /\ pc' = "payload"
  /\ UNCHANGED <<lastMessage, newDataAvailable, next, current,
                 allocated, shown, dangling, impatient>>

\* The section "Actions", or "Payload", is collapsed.
Collapsed ==
  /\ \/ pc = "actions" /\ pc' = "payload"
     \/ pc = "payload" /\ pc' = "poll"
  /\ UNCHANGED <<lastMessage, newDataAvailable, noDataMessage, next, current,
                 allocated, shown, dangling, impatient>>

\* updatePayloadGui() reads every byte of the current payload.
UpdatePayloadGui ==
  /\ pc = "payload"
  /\ IF current = Null
     THEN pc' = "poll" /\ UNCHANGED <<shown, dangling>>
     ELSE Use(current, "poll") /\ shown' = current
  /\ UNCHANGED <<lastMessage, newDataAvailable, noDataMessage, next, current,
                 allocated, impatient>>

GuiNext ==
  \/ HandleParts \/ NoParts
  \/ PressNext \/ PressNextTooEarly \/ NotPressed \/ Collapsed
  \/ UpdatePayloadGui

GuiSpec == GuiInit /\ [][GuiNext]_guiVars

-----------------------------------------------------------------------------
GuiTypeOK ==
  /\ pc \in {"poll", "actions", "payload", "dead"}
  /\ lastMessage \in Chunks
  /\ newDataAvailable \in BOOLEAN
  /\ noDataMessage \in BOOLEAN
  /\ next \in Chunks /\ current \in Chunks
  /\ allocated \subseteq Messages
  /\ shown \in Chunks
  /\ dangling \in BOOLEAN
  /\ impatient \in BOOLEAN

(* As long as nobody presses Next twice for one message, no copy is read or *)
(* deleted after it was deleted, however messages and presses interleave    *)
(* (DataDumpGui.cxx 70-86, 270-281). Nothing in the code prevents a second  *)
(* press: newDataAvailable is never set back.                               *)
PatientIsSafe == ~impatient => ~dangling

(* The window never goes back to an older message, and copies that were     *)
(* taken off the window are gone for good.                                  *)
ShowsForward ==
  [][/\ shown' >= shown
     /\ current' # current => current \notin allocated']_guiVars
=============================================================================
