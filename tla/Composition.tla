----------------------------- MODULE Composition -----------------------------
(***************************************************************************)
(* A text field of a dialog under an input method editor: useComposition,    *)
(* the Input and Textarea that use it, and the composition state a Dialog    *)
(* keeps for its fields.                                                    *)
(*                                                                         *)
(* The key that ends a composition (Escape gives it up, Enter commits it)     *)
(* belongs to the editor.  Most browsers deliver it before the composition    *)
(* ends; Safari ends the composition first and delivers the key at once       *)
(* afterwards, as if it were pressed by itself.  The code therefore remembers *)
(* a composition a little longer, with timers of 0 + 0, 100 and 150 ms.        *)
(* There is no clock: a timer fires at any time, except that no timer of 100   *)
(* or 150 ms set when a composition ended fires before the key that ended it.  *)
(***************************************************************************)
EXTENDS Naturals

CONSTANTS
  MaxPending    \* 100 ms timers pending at once (a bound)

ASSUME SomePending == MaxPending \in Nat \ {0}

VARIABLES
  field,        \* what the field is
  inDialog,     \* the field is in a Dialog
  opened,       \* the field is on the page
  native,       \* a composition is under way, as keyboard events say
  composed,     \* useComposition: c
  zeros,        \* useComposition: timeouts of 0 ms before c is cleared
  composing,    \* Dialog: composingRef
  lates,        \* Input, Textarea: pending timeouts of 100 ms
  justEnded,    \* Dialog: justEndedRef
  ends,         \* Dialog: pending timeouts of 150 ms
  owed,         \* the key that ended the last composition, not yet delivered
  hurried,      \* history: a composition began within 100 ms of another's end
  strayed       \* history: what keys that ended a composition did besides

compositionVars == <<field, inDialog, opened, native, composed, zeros, composing, lates,
                     justEnded, ends, owed, hurried, strayed>>

Keys == {"Escape", "Enter", "ShiftEnter"}
NoKey == "no key"

CompositionTypeOK ==
  /\ field \in {"input", "textarea"}
  /\ {inDialog, opened, native, composed, composing, justEnded, hurried} \subseteq BOOLEAN
  /\ zeros \in 0 .. 2 /\ lates \in 0 .. MaxPending /\ ends \in 0 .. MaxPending
  /\ owed \in Keys \cup {NoKey}
  /\ strayed \subseteq {"closed", "handed"}

CompositionInit ==
  /\ field \in {"input", "textarea"} /\ inDialog \in BOOLEAN
  /\ opened = TRUE
  /\ native = FALSE /\ composed = FALSE /\ zeros = 0
  /\ composing = FALSE /\ lates = 0 /\ justEnded = FALSE /\ ends = 0
  /\ owed = NoKey /\ hurried = FALSE /\ strayed = {}

-----------------------------------------------------------------------------
(* onCompositionStart clears useComposition's timeouts, and not the field's.   *)
CompositionStart ==
  /\ opened /\ ~ native /\ owed = NoKey
  /\ native' = TRUE
  /\ composed' = TRUE /\ zeros' = 0
  /\ composing' = inDialog
  /\ hurried' = (hurried \/ lates > 0)
  /\ UNCHANGED <<field, inDialog, opened, lates, justEnded, ends, owed, strayed>>

(* Mutant: the timeout of an earlier end is left pending. *)
MarkCompositionEnd_NotCleared ==
  /\ justEnded' = TRUE
  /\ ends < MaxPending /\ ends' = ends + 1

(* Dialog: markCompositionEnd replaces its timeout.                           *)
MarkCompositionEnd ==
  /\ justEnded' = TRUE
  /\ ends' = 1

(* onCompositionEnd.  Outside of a dialog the dialog's part does nothing.      *)
CompositionEnd ==
  /\ native /\ native' = FALSE
  /\ zeros' = 2
  /\ IF inDialog THEN MarkCompositionEnd /\ lates < MaxPending /\ lates' = lates + 1
                 ELSE UNCHANGED <<justEnded, ends, lates>>
  /\ owed' \in Keys \cup {NoKey}
  /\ UNCHANGED <<field, inDialog, opened, composed, composing, hurried, strayed>>

(* The inner of the two timeouts of 0 ms clears c.                            *)
ZeroTimeout ==
  /\ zeros > 0 /\ zeros' = zeros - 1
  /\ composed' = (composed /\ zeros > 1)
  /\ UNCHANGED <<field, inDialog, opened, native, composing, lates, justEnded, ends, owed,
                 hurried, strayed>>

(* Of n pending timeouts the last belongs to the composition that ended last.  *)
Due(n) == n > IF owed = NoKey THEN 0 ELSE 1

(* setComposing(false), also when another composition has begun meanwhile.     *)
SetComposingFalse ==
  /\ Due(lates) /\ lates' = lates - 1
  /\ composing' = FALSE
  /\ UNCHANGED <<field, inDialog, opened, native, composed, zeros, justEnded, ends, owed,
                 hurried, strayed>>

EndTimeout ==
  /\ Due(ends) /\ ends' = ends - 1
  /\ justEnded' = FALSE
  /\ UNCHANGED <<field, inDialog, opened, native, composed, zeros, composing, lates, owed,
                 hurried, strayed>>

-----------------------------------------------------------------------------
(* Dialog: Escape closes it unless a composition is under way.                *)
EscapeCloses(k) == inDialog /\ k = "Escape" /\ ~ (native \/ composing)

(* useComposition: Escape and Enter go no further during a composition.        *)
Stopped(k) == composed /\ k \in {"Escape", "Enter"}

(* Input and Textarea: Enter is withheld from the page during a composition     *)
(* and just after; a Textarea lets Shift+Enter pass.                          *)
InputWithholds(k)    == field = "input" /\ k \in {"Enter", "ShiftEnter"} /\ (native \/ justEnded)
TextareaWithholds(k) == field = "textarea" /\ k = "Enter" /\ (native \/ justEnded)

Handed(k) == ~ (Stopped(k) \/ InputWithholds(k) \/ TextareaWithholds(k))

KeyDown(k) ==
  /\ opened /\ owed \in {NoKey, k}
  /\ opened' = ~ EscapeCloses(k)
  /\ strayed' = IF ~ native /\ owed = NoKey THEN strayed
                ELSE strayed \cup {s \in {"closed", "handed"} :
                                     \/ s = "closed" /\ EscapeCloses(k)
                                     \/ s = "handed" /\ k = "Enter" /\ Handed(k)}
  /\ owed' = NoKey
  /\ UNCHANGED <<field, inDialog, native, composed, zeros, composing, lates, justEnded, ends,
                 hurried>>

(* A closed dialog opens again: a new field, the same Dialog.                 *)
OpenAgain ==
  /\ ~ opened /\ opened' = TRUE
  /\ composed' = FALSE /\ zeros' = 0
  /\ UNCHANGED <<field, inDialog, native, composing, lates, justEnded, ends, owed, hurried,
                 strayed>>

CompositionNext ==
  \/ CompositionStart \/ CompositionEnd
  \/ ZeroTimeout \/ SetComposingFalse \/ EndTimeout
  \/ \E k \in Keys : KeyDown(k)
  \/ OpenAgain

CompositionSpec == CompositionInit /\ [][CompositionNext]_compositionVars

-----------------------------------------------------------------------------
(* "If IME is composing, prevent dialog from closing" (dialog.tsx:109), and      *)
(* Enter "that confirms input" (input.tsx:41) is not acted on: in a dialog, the  *)
(* key that ends a composition neither closes the dialog nor reaches the page,   *)
(* in either order of events.  For Escape this needs that no composition began  *)
(* within 100 ms of another's end: the timeout of the first is not cleared, and  *)
(* clears composingRef under the second (input.tsx:45).                       *)
KeyEndsOnlyItsComposition ==
  inDialog => /\ "handed" \notin strayed
              /\ hurried \/ "closed" \notin strayed
=============================================================================
