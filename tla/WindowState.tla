----------------------------- MODULE WindowState -----------------------------
(***************************************************************************)
(* window-state.ts and its use in createWindow: the place and size of the  *)
(* window are saved behind a timer and in order, read back at the next     *)
(* start, and fitted into the displays there are by then.  Widths are in   *)
(* coarse units and one dimension stands for both.                         *)
(***************************************************************************)
EXTENDS Integers, Sequences, SequencesExt, FiniteSets, FiniteSetsExt

CONSTANTS Screens,     \* arrangements of displays: sequences of [x, width], the primary one first
          Places,      \* where the user may put the window: [x, width]
          MinWidth,    \* WINDOW_MIN_WIDTH
          DefaultWidth,
          MinOverlap,  \* what must be visible for the place to be kept
          MaxMoves     \* user actions in a run of the program

VARIABLES bScreen,   \* the displays connected
          bWindow,   \* [x, width, maximized] or NoWindow
          bTimer,    \* the 150 ms timer is running
          bQueue,    \* saves queued in WindowStateStore
          bFile,     \* window-state.json
          bInvalid,  \* #invalidPrimary
          bAside,    \* what became of a file that could not be read: "none", "kept" or "overwritten"
          bMoves,
          bFailed,   \* history: a save failed in this run of the program
          bHad       \* history: there was a file that could not be read

boundsVars == <<bScreen, bWindow, bTimer, bQueue, bFile, bInvalid, bAside, bMoves, bFailed, bHad>>

NoWindow == [x |-> 0, width |-> 0, maximized |-> FALSE]
NoFile == [x |-> 0, width |-> 0, maximized |-> FALSE]
Garbage == [x |-> 0, width |-> -1, maximized |-> FALSE]

BoundsInit ==
    /\ bScreen \in Screens /\ bWindow = NoWindow /\ bTimer = FALSE /\ bQueue = <<>>
    /\ bFile \in {NoFile, Garbage} /\ bInvalid = FALSE /\ bAside = "none" /\ bMoves = 0 /\ bFailed = FALSE
    /\ bHad = (bFile = Garbage)

-----------------------------------------------------------------------------
(* resolveWindowBounds.  The area with the largest overlap, the earlier one
   of two; the primary display when too little is visible anywhere. *)
Least(m, n) == IF m < n THEN m ELSE n
Greatest(m, n) == IF m > n THEN m ELSE n
Half(n) == (n + 1) \div 2
overlapArea(b, area) == Greatest(0, Least(b.x + b.width, area.x + area.width) - Greatest(b.x, area.x))
clamp(value, low, high) == Greatest(low, Least(Greatest(low, high), value))
Centred(width, area) == area.x + Half(area.width - width)

Best(b, areas) == Min({k \in DOMAIN areas : \A j \in DOMAIN areas : overlapArea(b, areas[k]) >= overlapArea(b, areas[j])})

TrustsFile(b, areas) == [x |-> b.x, width |-> clamp(b.width, Least(MinWidth, areas[1].width), areas[1].width)]
resolveWindowBounds(b, areas) ==
    LET visible == overlapArea(b, areas[Best(b, areas)]) >= MinOverlap
        area == IF visible THEN areas[Best(b, areas)] ELSE areas[1]
        width == clamp(b.width, Least(MinWidth, area.width), area.width)
    IN [x |-> IF visible THEN clamp(b.x, area.x, area.x + area.width - width) ELSE Centred(width, area),
        width |-> width]

Readable(f) == f # NoFile /\ f # Garbage
Default(areas) == [x |-> Centred(DefaultWidth, areas[1]), width |-> DefaultWidth, maximized |-> FALSE]

-----------------------------------------------------------------------------
(* persistWindowState: a save joins the queue unless its bounds are refused. *)
OneAtATime(queue, window) == IF queue = <<>> THEN <<window>> ELSE queue
Saves(queue, window) == IF window.width < MinWidth THEN queue ELSE Append(queue, window)

(* A new run of the program: read, resolveWindowBounds, and ready-to-show,
   which maximizes and saves.  The run before did not wait for its queue. *)
Start(screen) ==
    LET read == IF Readable(bFile) THEN bFile ELSE Default(screen)
        fitted == resolveWindowBounds(read, screen)
        window == [x |-> fitted.x, width |-> fitted.width, maximized |-> read.maximized]
    IN /\ bWindow = NoWindow /\ bWindow' = window /\ bQueue' = Saves(<<>>, window) /\ bScreen' = screen
       /\ bInvalid' = (bFile = Garbage) /\ bFailed' = FALSE /\ bMoves' = 0
       /\ UNCHANGED <<bTimer, bFile, bAside, bHad>>

UserMoves(place) ==
    /\ bWindow # NoWindow /\ bMoves < MaxMoves /\ bMoves' = bMoves + 1
    /\ bWindow' = [place EXCEPT !.maximized = bWindow.maximized] /\ bTimer' = TRUE
    /\ UNCHANGED <<bScreen, bQueue, bFile, bInvalid, bAside, bFailed, bHad>>

TimerFires ==
    /\ bTimer /\ bTimer' = FALSE /\ bQueue' = Saves(bQueue, bWindow)
    /\ UNCHANGED <<bScreen, bWindow, bFile, bInvalid, bAside, bMoves, bFailed, bHad>>

(* getNormalBounds stay what they were. *)
ToggleMaximized ==
    /\ bWindow # NoWindow /\ bMoves < MaxMoves /\ bMoves' = bMoves + 1
    /\ bWindow' = [bWindow EXCEPT !.maximized = ~@] /\ bQueue' = Saves(bQueue, bWindow')
    /\ UNCHANGED <<bScreen, bTimer, bFile, bInvalid, bAside, bFailed, bHad>>

(* A file found unreadable at the start is renamed before the first save; that
   the rename fails is ignored. *)
NotSetAside(renamed) == bAside
SetAside(renamed) ==
    CASE bInvalid /\ bFile = Garbage /\ renamed -> "kept"
      [] bInvalid /\ bFile = Garbage /\ ~renamed -> "overwritten"
      [] OTHER -> bAside

(* One save: the temporary file is written and renamed over the old one. *)
SaveRuns(renamed) ==
    /\ bQueue # <<>> /\ bQueue' = Tail(bQueue)
    /\ bFile' = Head(bQueue) /\ bAside' = SetAside(renamed) /\ bInvalid' = FALSE
    /\ UNCHANGED <<bScreen, bWindow, bTimer, bMoves, bFailed, bHad>>

(* A failure ends this save only, the old file renamed already or not. *)
SaveFails(renamed) ==
    /\ bQueue # <<>> /\ bQueue' = Tail(bQueue) /\ bFailed' = TRUE
    /\ bAside' = IF renamed THEN SetAside(TRUE) ELSE bAside
    /\ bFile' = IF bInvalid /\ renamed THEN NoFile ELSE bFile
    /\ UNCHANGED <<bScreen, bWindow, bTimer, bInvalid, bMoves, bHad>>

(* The close event saves once more.  While the renderer has not approved it
   the window stays; then the program quits. *)
CloseRequested ==
    /\ bWindow # NoWindow /\ bMoves < MaxMoves /\ bMoves' = bMoves + 1 /\ bQueue' = Saves(bQueue, bWindow)
    /\ UNCHANGED <<bScreen, bWindow, bTimer, bFile, bInvalid, bAside, bFailed, bHad>>
CloseWindow ==
    /\ bWindow # NoWindow /\ bWindow' = NoWindow /\ bTimer' = FALSE /\ bQueue' = Saves(bQueue, bWindow)
    /\ UNCHANGED <<bScreen, bFile, bInvalid, bAside, bMoves, bFailed, bHad>>

BoundsNext ==
    \/ TimerFires \/ ToggleMaximized \/ CloseRequested \/ CloseWindow
    \/ \E place \in Places : UserMoves(place)
    \/ \E renamed \in BOOLEAN : SaveRuns(renamed) \/ SaveFails(renamed)
    \/ \E screen \in Screens : Start(screen)

-----------------------------------------------------------------------------
(* A window that just opened lies wholly on one display, whatever was saved
   and whatever displays were unplugged or rearranged since. *)
OpensOnScreen ==
    bWindow # NoWindow /\ bMoves = 0 =>
        \E k \in DOMAIN bScreen :
            /\ bWindow.x >= bScreen[k].x
            /\ bWindow.x + bWindow.width <= bScreen[k].x + bScreen[k].width

(* When the timer and the queue have come to rest the file says where the
   window is, unless a save failed. *)
RestSaved ==
    bWindow # NoWindow /\ ~bTimer /\ bQueue = <<>> /\ ~bFailed /\ bWindow.width >= MinWidth => bFile = bWindow

(* A file the program could not read is set aside before anything replaces
   it, over failing saves and restarts, unless renaming it failed. *)
UnreadableKept == bHad /\ bFile # Garbage => bAside # "none"
=============================================================================
