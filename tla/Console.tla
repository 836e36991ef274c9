------------------------------ MODULE Console ------------------------------
(***************************************************************************)
(* Console input of the client application: a thread feeds bytes in chunks *)
(* of any size, another one reads lines.  With a raw sink (src/app/client/ *)
(* line_editor.cpp) every byte goes to the queue of the line editor, which *)
(* decodes keystrokes and edits a line with a history; without one         *)
(* (src/term/scoped_terminal_config.cpp) on_passthrough() edits the line   *)
(* itself and delivers it whole.  What is drawn is left out.               *)
(*                                                                         *)
(* Bytes are numbers.  An editor is a record of the line's text, the       *)
(* cursor, the place in the history (0 when not browsing) and the draft    *)
(* that browsing put aside.                                                *)
(***************************************************************************)
EXTENDS Naturals, Sequences, FiniteSets, SequencesExt

CONSTANTS RawChunks,    \* the chunks that the terminal sends; <<>> is its end
          CookedChunks, \* and those when there is no raw sink
          MaxChunks,    \* bound on the chunks
          MaxWaiting    \* bound on the bytes that wait when one is sent

ASSUME ConsoleAssumption ==
    /\ \A chunk \in RawChunks \cup CookedChunks : chunk \in Seq(0 .. 255)
    /\ MaxChunks \in Nat /\ MaxWaiting \in Nat

VARIABLES
    raw,       \* whether a raw sink is set
    sent,      \* the number of chunks fed
    fed,       \* feed_queue_: bytes and eof
    decoding,  \* the bytes of the keystroke that is being read
    reading,   \* "idle", "reading" and at the end of the input "over"
    editor,    \* line_edit_state
    history,   \* the lines submitted
    cooked,    \* the state of on_passthrough(): line_buffer and last_was_cr
    delivered, \* what on_passthrough() wrote to the pipe
    page       \* the line as the user sees it, see the last section

lineVars == <<decoding, reading, editor, history, page>>
consoleVars == <<raw, sent, fed, cooked, delivered, lineVars>>

CR == 13
LF == 10
ESC == 27
EndOfInput == 256

----------------------------------------------------------------------------
(***************************************************************************)
(* line_edit_state.                                                        *)
(***************************************************************************)
NewEditor == [buffer |-> <<>>, cursor |-> 0, history_index |-> 0, draft |-> <<>>]

\* What every change of the text does: it is a new line from now on.
Edited(ed, buffer, cursor) ==
    [ed EXCEPT !.buffer = buffer, !.cursor = cursor, !.history_index = 0]

DeleteForward(ed) ==
    IF ed.cursor < Len(ed.buffer) THEN Edited(ed, RemoveAt(ed.buffer, ed.cursor + 1), ed.cursor)
    ELSE ed

Recalled(ed, i) ==
    [ed EXCEPT !.history_index = i, !.buffer = history[i], !.cursor = Len(history[i])]

\* Mutant of navigate_history: what was being typed is not put aside.
navigate_history_forgets(ed, up) ==
    LET i == ed.history_index IN
    CASE history = <<>> -> ed
      [] i = 0 /\ history # <<>> -> IF up THEN Recalled(ed, Len(history)) ELSE ed
      [] i # 0 /\ up -> IF i = 1 THEN ed ELSE Recalled(ed, i - 1)
      [] i # 0 /\ ~up -> IF i < Len(history) THEN Recalled(ed, i + 1)
                         ELSE [ed EXCEPT !.history_index = 0, !.buffer = ed.draft,
                                         !.cursor = Len(ed.draft)]

\* Up and down: the oldest entry is the end, and past the newest one is the
\* draft.
navigate_history(ed, up) ==
    LET i == ed.history_index IN
    CASE history = <<>> -> ed
      [] i = 0 /\ history # <<>> ->
             IF up THEN Recalled([ed EXCEPT !.draft = ed.buffer], Len(history)) ELSE ed
      [] i # 0 /\ up -> IF i = 1 THEN ed ELSE Recalled(ed, i - 1)
      [] i # 0 /\ ~up -> IF i < Len(history) THEN Recalled(ed, i + 1)
                         ELSE [ed EXCEPT !.history_index = 0, !.buffer = ed.draft,
                                         !.cursor = Len(ed.draft)]

\* apply(), for the keys that leave the line open.
apply(ed, key, ch) ==
    CASE key = "char" -> Edited(ed, InsertAt(ed.buffer, ed.cursor + 1, ch), ed.cursor + 1)
      [] key = "backspace" -> IF ed.cursor = 0 THEN ed
                              ELSE Edited(ed, RemoveAt(ed.buffer, ed.cursor), ed.cursor - 1)
      [] key \in {"delete", "eof"} -> DeleteForward(ed)
      [] key = "left" -> [ed EXCEPT !.cursor = IF @ > 0 THEN @ - 1 ELSE @]
      [] key = "right" -> [ed EXCEPT !.cursor = IF @ < Len(ed.buffer) THEN @ + 1 ELSE @]
      [] key = "home" -> [ed EXCEPT !.cursor = 0]
      [] key = "end" -> [ed EXCEPT !.cursor = Len(ed.buffer)]
      [] key = "up" -> navigate_history(ed, TRUE)
      [] key = "down" -> navigate_history(ed, FALSE)
      [] key = "interrupt" -> NewEditor
      [] key = "ignored" -> ed

\* How apply() leaves the line.
LineOutcome(key) ==
    CASE key = "enter" -> "submitted"
      [] key = "eof" /\ editor.buffer = <<>> -> "eof"
      [] OTHER -> "editing"

----------------------------------------------------------------------------
(***************************************************************************)
(* line_editor.                                                            *)
(***************************************************************************)
\* The third byte of an escape sequence, and the fourth, which is dropped.
EscapeCode(code) ==
    CASE code = 65 -> "up" [] code = 66 -> "down" [] code = 67 -> "right" [] code = 68 -> "left"
      [] code = 72 -> "home" [] code = 70 -> "end"
      [] code \in {49, 55, 51, 52, 56} -> "more"
      [] OTHER -> "ignored"
EscapeTilde(code) == IF code = 51 THEN "delete" ELSE IF code \in {49, 55} THEN "home" ELSE "end"

\* decode_byte_stream(), of the bytes read so far: "more" are needed, or it is
\* a keystroke.
decode_byte_stream(s) ==
    LET c == s[1]
        n == Len(s)
    IN CASE c \in {EndOfInput, 4} -> "eof"
         [] c \in {CR, LF} -> "enter"
         [] c \in {127, 8} -> "backspace"
         [] c = 3 -> "interrupt"
         [] c = ESC /\ n = 1 -> "more"
         [] c = ESC /\ n = 2 -> IF s[2] \in {91, 79} THEN "more" ELSE "ignored"
         [] c = ESC /\ n = 3 -> EscapeCode(s[3])
         [] c = ESC /\ n = 4 -> EscapeTilde(s[3])
         [] OTHER -> IF c < 32 THEN "ignored" ELSE "char"

\* pop_fed_byte(): waits for a byte, or for the end when there is none left.
Popped == IF fed.bytes # <<>> THEN Head(fed.bytes) ELSE EndOfInput
pop_fed_byte ==
    /\ fed.bytes # <<>> \/ fed.eof
    /\ fed' = [fed EXCEPT !.bytes = IF @ = <<>> THEN @ ELSE Tail(@)]
    /\ UNCHANGED <<raw, sent, cooked, delivered>>

----------------------------------------------------------------------------
(***************************************************************************)
(* The same line as the user sees it: a page of lines, the history and the *)
(* one being typed below it, with a text before and after the cursor.      *)
(***************************************************************************)
NewPage == [at |-> Len(history) + 1, before |-> <<>>, after |-> <<>>, typed |-> <<>>]

\* The page after the cursor moved to line i.
Turned(i) ==
    LET typed == IF page.at > Len(history) THEN page.before \o page.after ELSE page.typed
    IN IF i \notin 1 .. Len(history) + 1 \/ i = page.at THEN page
       ELSE [at |-> i, after |-> <<>>, typed |-> typed,
             before |-> IF i > Len(history) THEN typed ELSE history[i]]

\* A change of a line that was submitted is made to a copy at the bottom.
Typed(before, after) ==
    IF <<before, after>> = <<page.before, page.after>> THEN page
    ELSE [page EXCEPT !.at = Len(history) + 1, !.before = before, !.after = after]

PageAfter(key, ch) ==
    LET before == page.before
        after == page.after
        text == before \o after
        Moved(b, a) == [page EXCEPT !.before = b, !.after = a]
    IN CASE key = "char" -> Typed(Append(before, ch), after)
         [] key = "backspace" -> Typed(IF before = <<>> THEN before ELSE Front(before), after)
         [] key \in {"delete", "eof"} -> Typed(before, IF after = <<>> THEN after ELSE Tail(after))
         [] key = "left" -> IF before = <<>> THEN page
                            ELSE Moved(Front(before), <<Last(before)>> \o after)
         [] key = "right" -> IF after = <<>> THEN page
                             ELSE Moved(Append(before, Head(after)), Tail(after))
         [] key = "home" -> Moved(<<>>, text)
         [] key = "end" -> Moved(text, <<>>)
         [] key = "up" -> Turned(page.at - 1)
         [] key = "down" -> Turned(page.at + 1)
         [] key = "interrupt" -> NewPage
         [] key = "ignored" -> page
----------------------------------------------------------------------------
ConsoleInit ==
    /\ raw \in BOOLEAN
    /\ sent = 0
    /\ fed = [bytes |-> <<>>, eof |-> FALSE]
    /\ decoding = <<>>
    /\ reading = "idle"
    /\ editor = NewEditor
    /\ history = <<>>
    /\ cooked = [line_buffer |-> <<>>, last_was_cr |-> FALSE, input |-> <<>>]
    /\ delivered = <<>>
    /\ page = [at |-> 1, before |-> <<>>, after |-> <<>>, typed |-> <<>>]

\* read_line(): a new line_edit_state over the history.
read_line ==
    /\ raw
    /\ reading = "idle"
    /\ reading' = "reading"
    /\ editor' = NewEditor
    /\ page' = NewPage
    /\ UNCHANGED <<raw, sent, fed, decoding, history, cooked, delivered>>

\* A byte that does not complete a keystroke.
PartOfKey ==
    LET s == Append(decoding, Popped) IN
    /\ reading = "reading"
    /\ decode_byte_stream(s) = "more"
    /\ pop_fed_byte
    /\ decoding' = s
    /\ UNCHANGED <<reading, editor, history, page>>

\* run_edit_loop(): a keystroke.  A line that is not empty and not the last
\* one again goes to the history; the interrupt clears the line.
Keystroke ==
    LET s == Append(decoding, Popped)
        key == decode_byte_stream(s)
    IN /\ reading = "reading"
       /\ key # "more"
       /\ pop_fed_byte
       /\ decoding' = <<>>
       /\ CASE LineOutcome(key) = "submitted" ->
                 /\ reading' = "idle"
                 /\ history' = IF editor.buffer = <<>> THEN history
                               ELSE IF history # <<>> /\ Last(history) = editor.buffer THEN history
                               ELSE Append(history, editor.buffer)
                 /\ UNCHANGED <<editor, page>>
            [] LineOutcome(key) = "eof" -> reading' = "over" /\ UNCHANGED <<editor, history, page>>
            [] LineOutcome(key) = "editing" ->
                 /\ editor' = apply(editor, key, s[1])
                 /\ page' = PageAfter(key, s[1])
                 /\ UNCHANGED <<reading, history>>

\* feed(), from the thread of the transport.
feed(chunk) ==
    /\ raw
    /\ fed' = [bytes |-> fed.bytes \o chunk, eof |-> fed.eof \/ chunk = <<>>]
    /\ UNCHANGED <<cooked, delivered>>

\* Mutant of ProcessByte: the two bytes of \r\n each end a line.
ProcessByteTwice(st, c) ==
    IF c \in {CR, LF}
    THEN [line_buffer |-> <<>>, last_was_cr |-> c = CR, out |-> st.out \o Append(st.line_buffer, LF)]
    ELSE [st EXCEPT !.last_was_cr = FALSE,
                    !.line_buffer = IF c \notin {8, 127} THEN Append(@, c)
                                    ELSE IF @ = <<>> THEN @ ELSE Front(@)]

\* process_passthrough_chunk(), a byte at a time.
ProcessByte(st, c) ==
    IF st.last_was_cr /\ c = LF THEN [st EXCEPT !.last_was_cr = FALSE]
    ELSE IF c \in {CR, LF}
    THEN [line_buffer |-> <<>>, last_was_cr |-> c = CR, out |-> st.out \o Append(st.line_buffer, LF)]
    ELSE [st EXCEPT !.last_was_cr = FALSE,
                    !.line_buffer = IF c \notin {8, 127} THEN Append(@, c)
                                    ELSE IF @ = <<>> THEN @ ELSE Front(@)]
process_passthrough_chunk(st, chunk) ==
    LET state[i \in 0 .. Len(chunk)] ==
            IF i = 0 THEN [line_buffer |-> st.line_buffer, last_was_cr |-> st.last_was_cr,
                           out |-> <<>>]
            ELSE ProcessByte(state[i - 1], chunk[i])
    IN state[Len(chunk)]

\* on_passthrough() without a sink: an empty chunk closes the pipe.
on_passthrough(chunk) ==
    LET st == process_passthrough_chunk(cooked, chunk) IN
    /\ ~raw
    /\ fed' = [fed EXCEPT !.eof = @ \/ chunk = <<>>]
    /\ cooked' = [line_buffer |-> st.line_buffer, last_was_cr |-> st.last_was_cr,
                  input |-> cooked.input \o chunk]
    /\ delivered' = delivered \o st.out

\* The terminal sends a chunk; the empty one is its last.
Passthrough(chunk) ==
    /\ sent < MaxChunks /\ ~fed.eof /\ Len(fed.bytes) <= MaxWaiting
    /\ sent' = sent + 1
    /\ feed(chunk) \/ on_passthrough(chunk)
    /\ UNCHANGED <<raw, lineVars>>

ChunksSent == IF raw THEN RawChunks ELSE CookedChunks
ConsoleNext ==
    \/ read_line \/ PartOfKey \/ Keystroke
    \/ \E chunk \in ChunksSent : Passthrough(chunk)

\* The reading thread runs; the user need not type.
ConsoleFairness == WF_consoleVars(PartOfKey) /\ WF_consoleVars(Keystroke)
----------------------------------------------------------------------------
\* The lines of an input: \r\n, \r and \n each end one.
LineEnds(input) ==
    {i \in DOMAIN input : \/ input[i] = CR
                          \/ input[i] = LF /\ (i = 1 \/ input[i - 1] # CR)}

\* The editor agrees with the page, whatever was typed, recalled and left
\* again (line_edit_state::apply(), navigate_history()): text and cursor are
\* the user's, a recalled line that is changed does not change the history, and
\* past the newest line is what was being typed.
LineAsTyped ==
    reading = "reading" =>
        /\ editor.buffer = page.before \o page.after
        /\ editor.cursor = Len(page.before)
        /\ page.at = IF editor.history_index = 0 THEN Len(history) + 1 ELSE editor.history_index
        /\ editor.history_index # 0 => editor.draft = page.typed

\* Without the editor, on_passthrough() delivers every line of the input once,
\* and whole, however the bytes were cut into chunks.
LinesDelivered ==
    /\ Cardinality({i \in DOMAIN delivered : delivered[i] = LF}) =
           IF raw THEN 0 ELSE Cardinality(LineEnds(cooked.input))
    /\ \A i \in DOMAIN delivered : delivered[i] \notin {CR, 8, 127}
    /\ delivered # <<>> => Last(delivered) = LF

\* Every keystroke that was fed is read, and the end of the input ends the
\* reading of an empty line.
KeysRead ==
    /\ (reading = "reading" /\ fed.bytes # <<>>) ~> (fed.bytes = <<>> \/ reading # "reading")
    /\ (reading = "reading" /\ fed.eof /\ fed.bytes = <<>> /\ decoding = <<>>
        /\ editor.buffer = <<>>) ~> (reading # "reading")
============================================================================
