------------------------------ MODULE Console ------------------------------
(***************************************************************************)
(* The consoles of the Angular client: abstract.console.component.ts with  *)
(* abstract.windows.component.ts or bash.component.ts, which react to      *)
(* their keys in the same way.                                             *)
(*                                                                         *)
(* The line that is edited is kept twice, as the command and as the three  *)
(* parts around the cursor that the prompt shows.  Enter runs the command  *)
(* in Kudu and locks the keys until its answer.  Tab asks Kudu for the     *)
(* files of the directory, and completes the line as it is when the answer *)
(* comes; the next Tab goes on to the next of the files that matched.      *)
(*                                                                         *)
(* A line is a sequence of characters.  A key adds its name to it, which   *)
(* is one character or, for keys such as ScrollLock, several, while the    *)
(* cursor moves by one.  The directory, the messages and the prompts that  *)
(* stay in the view are left out, and so is the focus.                     *)
(***************************************************************************)
EXTENDS Naturals, Sequences, FiniteSets, SequencesExt

CONSTANTS
  Chars,                \* the characters of the model, Space and KeyC among them
  Space,
  KeyC,                 \* c, which is accepted while a command runs: for Ctrl + C
  KeyNames,             \* the names of the keys that are appended to the line
  Files,                \* the names in the directory
  MaxText,              \* bound: such a line is neither added to nor entered
  MaxHistory,           \* bound: commands entered
  MaxTabs               \* bound: listings that are awaited at the same time

ASSUME CharsAssumption == {Space, KeyC} \subseteq Chars
ASSUME KeyNamesAssumption == KeyNames \subseteq Seq(Chars) /\ <<>> \notin KeyNames
ASSUME FilesAssumption == Files \subseteq Seq(Chars) /\ IsFiniteSet(Files)
ASSUME ConsoleBoundsAssumption == {MaxText, MaxHistory, MaxTabs} \subseteq Nat

VARIABLES
  command,              \* the line
  ptrPosition,          \* the characters left of the cursor
  commandInParts,       \* leftCmd, middleCmd (under the cursor) and rightCmd
  commandHistory,
  commandHistoryIndex,
  enterPressed,         \* a command is in progress: the keys are locked
  call,                 \* lastAPICall is open
  longKey,              \* history: a key name of several characters has been
                        \* appended since the line was last divided
  listings,             \* listings that Tab has asked for
  listOfDir,            \* the names that matched
  dirIndex,             \* the one in the line, counted from 1; 0: none
  tabKeep               \* tabKeyPointer + 1: the characters before the completed word

lineVars == <<command, ptrPosition, commandInParts, longKey>>
tabVars == <<listOfDir, dirIndex, tabKeep>>
consoleVars == <<lineVars, tabVars, commandHistory, commandHistoryIndex, enterPressed, call,
                 listings>>

Line == Seq(Chars)

ConsoleTypeOK ==
  /\ command \in Line
  /\ ptrPosition \in 0 .. Len(command)
  /\ commandInParts \in [left : Line, middle : Line, right : Line]
  /\ commandHistory \in Seq(Line)
  /\ commandHistoryIndex \in 0 .. Len(commandHistory)
  /\ enterPressed \in BOOLEAN
  /\ call \in BOOLEAN
  /\ longKey \in BOOLEAN
  /\ listings \in 0 .. MaxTabs
  /\ listOfDir \in Seq(Line)
  /\ dirIndex \in Nat
  /\ tabKeep \in Nat

NoParts == [left |-> <<>>, middle |-> <<Space>>, right |-> <<>>]

ConsoleInit ==
  /\ command = <<>>
  /\ ptrPosition = 0
  /\ commandInParts = NoParts
  /\ commandHistory = << <<>> >>
  /\ commandHistoryIndex = 1
  /\ enterPressed = FALSE
  /\ call = FALSE
  /\ longKey = FALSE
  /\ listings = 0
  /\ listOfDir = <<>>
  /\ dirIndex = 0
  /\ tabKeep = 0
-----------------------------------------------------------------------------
\* divideCommandForPtr.
Divided(line, p) ==
  IF p = Len(line) THEN [left |-> line, middle |-> <<Space>>, right |-> <<>>]
  ELSE [left |-> SubSeq(line, 1, p), middle |-> <<line[p + 1]>>,
        right |-> SubSeq(line, p + 2, Len(line))]

\* The line is replaced, with the cursor behind it.
SetLine(line) ==
  /\ command' = line
  /\ ptrPosition' = Len(line)
  /\ commandInParts' = Divided(line, Len(line))
  /\ longKey' = FALSE

\* _resetCommand.
ResetCommand ==
  /\ command' = <<>>
  /\ ptrPosition' = 0
  /\ commandInParts' = NoParts
  /\ longKey' = FALSE

\* _refreshTabFunctionElements, at the end of every key but Tab.
RefreshTab == listOfDir' = <<>> /\ dirIndex' = 0 /\ UNCHANGED tabKeep

\* _isKeyEventValid.
KeyValid == ~enterPressed

\* _appendToCommand, at the end of the line or within it.
TypeKey(key) ==
  /\ KeyValid \/ key = <<KeyC>>
  /\ Len(command) < MaxText
  /\ LET left == commandInParts.left \o key IN
       /\ commandInParts' = [commandInParts EXCEPT !.left = left]
       /\ command' = IF ptrPosition = Len(command) THEN left
                     ELSE left \o commandInParts.middle \o commandInParts.right
  /\ ptrPosition' = ptrPosition + 1
  /\ longKey' = (longKey \/ Len(key) > 1)
  /\ commandHistoryIndex' = Len(commandHistory)
  /\ RefreshTab
  /\ UNCHANGED <<commandHistory, enterPressed, call, listings>>

\* _backspaceKeyEvent.
Backspace ==
  /\ KeyValid
  /\ IF ptrPosition < 1 THEN UNCHANGED lineVars
     ELSE LET left == Front(commandInParts.left) IN
          /\ ptrPosition' = ptrPosition - 1
          /\ IF ptrPosition = Len(command)
             THEN /\ command' = left
                  /\ commandInParts' = [commandInParts EXCEPT !.left = left]
                  /\ UNCHANGED longKey
             ELSE /\ command' = left \o commandInParts.middle \o commandInParts.right
                  /\ commandInParts' = Divided(command', ptrPosition')
                  /\ longKey' = FALSE
  /\ RefreshTab
  /\ UNCHANGED <<commandHistory, commandHistoryIndex, enterPressed, call, listings>>

\* _leftArrowKeyEvent and _rightArrowKeyEvent.
MoveCursor ==
  /\ KeyValid
  /\ \/ ptrPosition >= 1 /\ ptrPosition' = ptrPosition - 1
     \/ ptrPosition < Len(command) /\ ptrPosition' = ptrPosition + 1
  /\ commandInParts' = Divided(command, ptrPosition')
  /\ longKey' = FALSE
  /\ RefreshTab
  /\ UNCHANGED <<command, commandHistory, commandHistoryIndex, enterPressed, call, listings>>

\* _topArrowKeyEvent.
ArrowUp ==
  /\ KeyValid
  /\ commandHistoryIndex > 0
  /\ SetLine(commandHistory[commandHistoryIndex])
  /\ commandHistoryIndex' = commandHistoryIndex - 1
  /\ RefreshTab
  /\ UNCHANGED <<commandHistory, enterPressed, call, listings>>

\* _downArrowKeyEvent.
ArrowDown ==
  /\ KeyValid
  /\ commandHistoryIndex + 1 < Len(commandHistory)
  /\ commandHistoryIndex' = commandHistoryIndex + 1
  /\ SetLine(commandHistory[commandHistoryIndex + 2])
  /\ RefreshTab
  /\ UNCHANGED <<commandHistory, enterPressed, call, listings>>

\* Escape, or a key that changes nothing, such as Ctrl.
EscapeOrOther ==
  /\ \/ KeyValid /\ ResetCommand
     \/ UNCHANGED lineVars
  /\ RefreshTab
  /\ UNCHANGED <<commandHistory, commandHistoryIndex, enterPressed, call, listings>>

\* handlePaste: it is not a key, and works while a command runs.
Paste ==
  /\ \E ch \in Chars : SetLine(Append(command, ch))
  /\ Len(command) < MaxText
  /\ UNCHANGED <<tabVars, commandHistory, commandHistoryIndex, enterPressed, call, listings>>
-----------------------------------------------------------------------------
Blank(line) == \A i \in 1 .. Len(line) : line[i] = Space

\* _enterKeyEvent.  A blank line, cls, clear and exit run nothing in Kudu.
Enter ==
  /\ KeyValid
  /\ Len(commandHistory) < MaxHistory /\ Len(command) < MaxText
  /\ commandHistory' = Append(commandHistory, command)
  /\ commandHistoryIndex' = Len(commandHistory) + 1
  /\ \/ ~Blank(command) /\ enterPressed' = TRUE /\ call' = TRUE
     \/ enterPressed' = FALSE /\ UNCHANGED call
  /\ ResetCommand
  /\ RefreshTab
  /\ UNCHANGED listings

\* connectToKudu, answered or failed.
CommandEnds ==
  /\ call
  /\ call' = FALSE
  /\ enterPressed' = FALSE
  /\ UNCHANGED <<lineVars, tabVars, commandHistory, commandHistoryIndex, listings>>

\* handleCopy, for Ctrl + C: the command is given up if it runs.
Copy ==
  /\ call' = FALSE
  /\ ResetCommand
  /\ UNCHANGED <<tabVars, commandHistory, commandHistoryIndex, enterPressed, listings>>
-----------------------------------------------------------------------------
\* String.substring(0, n).
Take(line, n) == SubSeq(line, 1, IF n < Len(line) THEN n ELSE Len(line))

\* (The operators named ..._Bug are plausible mistakes, for checking that the
\* properties see them; nothing uses them.)
\* setCommandOnTabKeyEvent alone: the cursor and the parts stay.
ReplaceWithFileName_CursorBug(line, files, index, keep) ==
  /\ command' = Take(line, keep) \o files[index]
  /\ UNCHANGED <<ptrPosition, commandInParts, longKey>>

\* replaceWithFileName: the last word becomes the name of a file.
ReplaceWithFileName(line, files, index, keep) == SetLine(Take(line, keep) \o files[index])

\* The characters up to the last space.
UpToLastSpace(line) ==
  LET spaces == {i \in 1 .. Len(line) : line[i] = Space} IN
  IF spaces = {} THEN 0 ELSE CHOOSE i \in spaces : \A j \in spaces : j <= i

\* findMatchingStrings.  A listing gives the names in any order.
Matching(word) == SetToSeqs({f \in Files : IsPrefix(word, f)})

\* tabKeyEvent.
Tab ==
  /\ KeyValid
  /\ IF listOfDir = <<>>
     THEN /\ listings < MaxTabs
          /\ listings' = listings + 1
          /\ dirIndex' = 0
          /\ UNCHANGED <<lineVars, listOfDir, tabKeep>>
     ELSE /\ dirIndex' = (dirIndex % Len(listOfDir)) + 1
          /\ ReplaceWithFileName(command, listOfDir, dirIndex', tabKeep)
          /\ UNCHANGED <<listings, listOfDir, tabKeep>>
  /\ UNCHANGED <<commandHistory, commandHistoryIndex, enterPressed, call>>

\* The listing that Tab asked for comes, and completes the line of now, or fails.
Listed ==
  /\ listings > 0
  /\ listings' = listings - 1
  /\ LET line == Take(command, ptrPosition)
         keep == UpToLastSpace(line) IN
       \/ \E found \in Matching(SubSeq(line, keep + 1, Len(line))) :
            /\ tabKeep' = keep
            /\ listOfDir' = found
            /\ IF found = <<>> THEN UNCHANGED <<lineVars, dirIndex>>
               ELSE /\ dirIndex' = (dirIndex % Len(found)) + 1
                    /\ ReplaceWithFileName(line, found, dirIndex', keep)
       \/ UNCHANGED <<lineVars, tabVars>>
  /\ UNCHANGED <<commandHistory, commandHistoryIndex, enterPressed, call>>
-----------------------------------------------------------------------------
ConsoleNext ==
  \/ \E key \in KeyNames : TypeKey(key)
  \/ Backspace \/ MoveCursor \/ ArrowUp \/ ArrowDown \/ EscapeOrOther \/ Paste
  \/ Enter \/ CommandEnds \/ Copy \/ Tab \/ Listed

ConsoleSpec == ConsoleInit /\ [][ConsoleNext]_consoleVars
-----------------------------------------------------------------------------
\* What the prompt shows: the parts together, or all but the blank of a cursor
\* behind the line.
PromptText(parts) ==
  {parts.left \o parts.middle \o parts.right} \cup
    IF parts.middle = <<Space>> /\ parts.right = <<>> THEN {parts.left} ELSE {}

\* The prompt shows the line that Enter would run, whatever keys, pastes,
\* completions and listings that come late have made it; and it shows the cursor
\* where the next key will act, but for the names of several characters that have
\* been appended (abstract.console.component.ts:348-379, 452-465, 520-544).
PartsMatch ==
  /\ command \in PromptText(commandInParts)
  /\ ~longKey => commandInParts = Divided(command, ptrPosition)

\* What is needed besides to make PartsMatch inductive: behind such a name the
\* cursor is left of where the prompt shows it.
CursorLags ==
  longKey => Len(commandInParts.middle) = 1 /\ ptrPosition < Len(commandInParts.left)

ConsoleIInv == ConsoleTypeOK /\ PartsMatch /\ CursorLags
=============================================================================
