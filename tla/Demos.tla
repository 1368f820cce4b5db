------------------------------- MODULE Demos -------------------------------
(***************************************************************************)
(* The camera vendor's demos, asi_demo: "snap" takes single exposures,     *)
(* "video" and "mac" stream.  The main thread takes pictures into an image *)
(* that the display thread shows; the two share plain flags.  Widths and   *)
(* heights are counted in units of 160 x 120 pixels.                       *)
(***************************************************************************)
EXTENDS Naturals

CONSTANTS
    Programs,  \* subset of {"snap", "video", "mac"}
    MaxSize,   \* the sensor in units: iMaxWidth and iMaxHeight
    Widths,    \* widths that are typed in (bound)
    MaxKeys    \* keys the user presses (bound)

ASSUME DemosAssumption ==
    /\ Programs \subseteq {"snap", "video", "mac"} /\ MaxSize \in Nat \ {0} /\ MaxKeys \in Nat
    /\ Widths \subseteq 1..MaxSize

VARIABLES
    program, main, show,            \* what runs, and where the two threads are
    bDisplay, bMain, bChangeFormat, bSendTiggerSignal, change,
    key,            \* the key the display thread works on
    keys,           \* keys pressed
    format,         \* width, height, bin, Image_type of the main thread
    roi,            \* the camera's own
    color,          \* a colour camera
    asi120,         \* an ASI120
    image,          \* the image is there
    camera,         \* "closed", "open" or "capturing"
    status          \* of the exposure

demoVars == <<program, main, show, bDisplay, bMain, bChangeFormat, bSendTiggerSignal,
              change, key, keys, format, roi, color, asi120, image, camera, status>>
demoFlags == <<bDisplay, bMain, bChangeFormat, bSendTiggerSignal, change>>
shape == <<format, roi, color, asi120>>

RAW8 == 0  RGB24 == 1  RAW16 == 2  Y8 == 3
Formats == [size : 1..MaxSize, bin : 1..2, type : RAW8..Y8]
Full(type) == [size |-> MaxSize, bin |-> 1, type |-> type]

\* ASISetROIFormat: what the sensor has, of the types the camera has; of an ASI120 only
\* multiples of 1024 pixels, which 160 x 120, 19200, is for even sizes.
RuleOf120(f) == f.size % 2 = 0
Takes(f) ==
    /\ f.size \in 1..MaxSize \div f.bin /\ (color \/ f.type \in {RAW8, RAW16})
    /\ asi120 => RuleOf120(f)
ASISetROIFormat(f) == roi' = IF Takes(f) THEN f ELSE roi

DemosInit ==
    /\ program \in Programs /\ color \in BOOLEAN /\ asi120 \in BOOLEAN
    /\ main = "start" /\ show = "none" /\ image = FALSE /\ camera = "closed"
    /\ bDisplay = FALSE /\ bMain = TRUE /\ bChangeFormat = FALSE
    /\ bSendTiggerSignal = FALSE /\ change = "imagetype"
    /\ key = "none" /\ keys = 0 /\ status = "IDLE"
    /\ format = Full(RAW8) /\ roi = Full(RAW8)
-----------------------------------------------------------------------------
\* The main thread opens the camera, asks for a format and creates the display thread.
NoCamera ==
    /\ main = "start" /\ main' = "exit"
    /\ UNCHANGED <<program, show, demoFlags, key, keys, shape, image, camera, status>>

Begins(f) ==
    /\ main = "start" /\ main' = "loop" /\ show' = "loop" /\ bDisplay' = TRUE
    /\ format' = f /\ ASISetROIFormat(f) /\ image' = TRUE
    /\ UNCHANGED <<program, bMain, bChangeFormat, bSendTiggerSignal, change, key, keys,
                   color, asi120, status>>

\* A format that is typed in is asked for until the camera takes it.
Typed == {f \in Formats : f.size \in Widths /\ Takes(f)}
SnapBegins == program = "snap" /\ camera' = "open" /\ \E f \in Typed : Begins(f)

\* "else if(definedformat = 1)": every choice but 0 is choice 1.
VideoMenu == {Full(RAW8), Full(RAW16)}
VideoBegins ==
    program = "video" /\ camera' = "capturing" /\ \E f \in Typed \cup VideoMenu : Begins(f)

MacMenu ==
    {Full(RAW8), Full(RAW16)} \cup [size : {12}, bin : {1}, type : {RAW8, RAW16}]
        \cup {[size |-> 2, bin |-> 2, type |-> RAW8]}
MacBegins ==
    program = "mac" /\ camera' = "capturing" /\ \E f \in Typed \cup MacMenu : Begins(f)
-----------------------------------------------------------------------------
\* The display thread: it shows the image and waits for a key, or sleeps and looks for one.
ShowUnchanged == UNCHANGED <<program, main, shape, image, camera, status>>
ShowTests ==
    /\ show = "loop" /\ show' = IF bDisplay THEN "show" ELSE "end"
    /\ UNCHANGED <<demoFlags, key, keys>> /\ ShowUnchanged

\* Two writes for every key: the flag first, and then what it says.
KeyPressed(k) ==
    /\ show = "show" /\ keys < MaxKeys /\ keys' = keys + 1 /\ key' = k
    /\ CASE k = "quit"    -> /\ bDisplay' = FALSE /\ show' = "key"
                             /\ UNCHANGED <<bChangeFormat, bSendTiggerSignal>>
         [] k = "trigger" -> /\ bSendTiggerSignal' = TRUE /\ show' = "loop"
                             /\ UNCHANGED <<bDisplay, bChangeFormat>>
         [] OTHER         -> /\ bChangeFormat' = TRUE /\ show' = "key"
                             /\ UNCHANGED <<bDisplay, bSendTiggerSignal>>
    /\ UNCHANGED <<bMain, change>> /\ ShowUnchanged

FormatKeys == {"imagetype", "bin", "smaller", "bigger"}
SnapKey == program = "snap" /\ \E k \in FormatKeys \cup {"quit"} : KeyPressed(k)
VideoKey == program = "video" /\ \E k \in FormatKeys \cup {"quit", "trigger"} : KeyPressed(k)
MacKey == program = "mac" /\ \E k \in FormatKeys \cup {"quit", "trigger"} : KeyPressed(k)

NoKey ==
    /\ show = "show" /\ show' = "loop"
    /\ UNCHANGED <<demoFlags, key, keys>> /\ ShowUnchanged

KeyDone ==
    /\ show = "key"
    /\ bMain' = (bMain /\ key # "quit")
    /\ change' = IF key = "quit" THEN change ELSE key
    \* ESC goes to the end; 'q' of "mac" tests bDisplay once more.
    /\ show' = IF key = "quit" /\ program # "mac" THEN "end" ELSE "loop"
    /\ key' = "none"
    /\ UNCHANGED <<bDisplay, bChangeFormat, bSendTiggerSignal, keys>>
    /\ ShowUnchanged

\* ASIStopVideoCapture, by the thread that ends and whether or not main has closed the camera.
ShowEnds ==
    /\ show = "end" /\ show' = "ended"
    /\ camera' = IF camera = "capturing" THEN "open" ELSE camera
    /\ UNCHANGED <<program, main, demoFlags, key, keys, shape, image, status>>
-----------------------------------------------------------------------------
\* The main thread's loop.
MainUnchanged == UNCHANGED <<program, key, keys, color, asi120>>
MainTests ==
    /\ main = "loop" /\ main' = IF bMain THEN "frame" ELSE "leave"
    /\ UNCHANGED <<show, demoFlags, format, roi, image, camera, status>> /\ MainUnchanged

\* ASIGetVideoData has a timeout; the answer only counts frames.
TakesVideo ==
    /\ main = "frame" /\ program # "snap"
    /\ main' = "change" /\ bSendTiggerSignal' = FALSE
    /\ UNCHANGED <<show, bDisplay, bMain, bChangeFormat, change, format, roi, image, camera,
                   status>>
    /\ MainUnchanged

StartsExposure ==
    /\ main = "frame" /\ program = "snap" /\ main' = "status" /\ status' = "WORKING"
    /\ UNCHANGED <<show, demoFlags, format, roi, image, camera>> /\ MainUnchanged
ExposureEnds ==
    /\ status = "WORKING" /\ status' \in {"SUCCESS", "FAILED"}
    /\ UNCHANGED <<program, main, show, demoFlags, key, keys, shape, image, camera>>
ExposureDone ==
    /\ main = "status" /\ status # "WORKING" /\ main' = "change" /\ status' = "IDLE"
    /\ UNCHANGED <<show, demoFlags, format, roi, image, camera>> /\ MainUnchanged

ChangeTests ==
    /\ main = "change"
    /\ IF bChangeFormat
       THEN main' = "join" /\ bChangeFormat' = FALSE /\ bDisplay' = FALSE
       ELSE main' = "loop" /\ UNCHANGED <<bChangeFormat, bDisplay>>
    /\ UNCHANGED <<show, bMain, bSendTiggerSignal, change, format, roi, image, camera, status>>
    /\ MainUnchanged

WithoutJoin == TRUE
DisplayJoined == show = "ended"

\* switch(change)
NextType(f) == [f EXCEPT !.type = (@ + 1) % 4]
NextBin(f) ==
    IF f.bin = 1 THEN [f EXCEPT !.bin = 2, !.size = @ \div 2]
    ELSE [f EXCEPT !.bin = 1, !.size = @ * 2]
Smaller(f) == IF f.size > 2 THEN [f EXCEPT !.size = @ \div 2] ELSE f
BiggerUnchecked(f) == [f EXCEPT !.size = @ * 2]
Bigger(f) == IF f.size * 2 * f.bin <= MaxSize THEN [f EXCEPT !.size = @ * 2] ELSE f
Changed(f) ==
    CASE change = "imagetype" -> NextType(f) [] change = "bin"    -> NextBin(f)
      [] change = "smaller"   -> Smaller(f)  [] change = "bigger" -> Bigger(f)

\* cvReleaseImage; "mac" mallocs a new buffer and never frees the old one.
Releases ==
    /\ main = "join" /\ DisplayJoined /\ main' = "format"
    /\ image' = (program = "mac")
    /\ camera' = "open" /\ format' = Changed(format)
    /\ UNCHANGED <<show, demoFlags, roi, status>> /\ MainUnchanged

ShowsAgain ==
    /\ main = "format" /\ main' = "loop" /\ image' = TRUE
    /\ show' = "loop" /\ bDisplay' = TRUE /\ ASISetROIFormat(format)
    /\ UNCHANGED <<bMain, bChangeFormat, bSendTiggerSignal, change, status>> /\ MainUnchanged
SnapShowsAgain ==   \* ASIGetROIFormat
    program = "snap" /\ ShowsAgain /\ format' = roi' /\ UNCHANGED camera
VideoShowsAgain == program = "video" /\ ShowsAgain /\ camera' = "capturing" /\ UNCHANGED format
MacShowsAgain == program = "mac" /\ ShowsAgain /\ camera' = "capturing" /\ UNCHANGED format

\* Main joins a display thread that is still wanted, not one that a key has ended.
WantedKept == bDisplay
Wanted == FALSE
Leaves ==
    /\ main = "leave" /\ bDisplay' = Wanted
    /\ main' = IF bDisplay THEN "last" ELSE "close"
    /\ UNCHANGED <<show, bMain, bChangeFormat, bSendTiggerSignal, change, format, roi, image,
                   camera, status>>
    /\ MainUnchanged
LastJoin ==
    /\ main = "last" /\ show = "ended" /\ main' = "close"
    /\ UNCHANGED <<show, demoFlags, format, roi, image, camera, status>> /\ MainUnchanged
MainExits ==
    /\ main = "close" /\ main' = "exit" /\ image' = FALSE /\ camera' = "closed"
    /\ UNCHANGED <<show, demoFlags, format, roi, status>> /\ MainUnchanged
-----------------------------------------------------------------------------
Display ==
    main # "exit" /\ (ShowTests \/ SnapKey \/ VideoKey \/ MacKey \/ NoKey \/ KeyDone \/ ShowEnds)
DisplayRuns == main # "exit" /\ (ShowTests \/ NoKey \/ KeyDone \/ ShowEnds)
MainRuns ==
    \/ NoCamera \/ SnapBegins \/ VideoBegins \/ MacBegins \/ MainTests \/ TakesVideo
    \/ StartsExposure \/ ExposureDone \/ ChangeTests \/ Releases
    \/ SnapShowsAgain \/ VideoShowsAgain \/ MacShowsAgain \/ Leaves \/ LastJoin \/ MainExits
DemosEnd == main = "exit" /\ UNCHANGED demoVars

DemosNext == Display \/ MainRuns \/ ExposureEnds \/ DemosEnd

\* The two threads are scheduled, and an exposure ends.  Nobody has to press a key.
DemosSpec ==
    /\ DemosInit /\ [][DemosNext]_demoVars
    /\ WF_demoVars(DisplayRuns) /\ WF_demoVars(MainRuns) /\ WF_demoVars(ExposureEnds)
-----------------------------------------------------------------------------
\* The variables' values, and main behind the loop only after the key to quit or no start.
DemosTypeOK ==
    /\ program \in {"snap", "video", "mac"}
    /\ format \in [size : 0..MaxSize + 12, bin : 1..2, type : RAW8..Y8] /\ roi \in Formats
    /\ main \in {"start", "loop", "frame", "status", "change", "join", "format", "leave",
                 "last", "close", "exit"}
    /\ show \in {"none", "loop", "show", "key", "end", "ended"}
    /\ camera \in {"closed", "open", "capturing"} /\ keys \in 0..MaxKeys
    /\ change \in FormatKeys /\ key \in FormatKeys \cup {"none", "quit", "trigger"}
    /\ bDisplay \in BOOLEAN /\ bMain \in BOOLEAN /\ bChangeFormat \in BOOLEAN
    /\ bSendTiggerSignal \in BOOLEAN /\ color \in BOOLEAN /\ asi120 \in BOOLEAN
    /\ image \in BOOLEAN
    /\ status \in {"IDLE", "WORKING", "SUCCESS", "FAILED"}
    /\ main \in {"leave", "last", "close"} => ~bMain

\* The display thread never shows an image that main has released, however the keys and the
\* changes of format fall together (main_SDK2_video.cpp:403-408, 464-476).  Nor does "snap"
\* take pictures of another format than the camera's, whatever camera it is and whatever
\* formats the keys ask for: the result of ASISetROIFormat is not looked at, but the format
\* is read back before the image and the buffer are made (main_SDK2_snap.cpp:346-353).
DemoShowsRightly ==
    /\ show = "show" => image
    /\ program = "snap" /\ main \in {"loop", "frame", "status", "change"} => format = roi

\* The key to quit was pressed, and the camera is not closed or the program not at its end.
Quitting == ~bMain /\ ~(main = "exit" /\ camera = "closed")
=============================================================================
