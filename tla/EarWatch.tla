------------------------------ MODULE EarWatch ------------------------------
(***************************************************************************)
(* What the ear-detection rule promises (the module comment of             *)
(* ear_media.rs): properties of EarMedia with the history they need.       *)
(***************************************************************************)
EXTENDS EarMedia

VARIABLES
    ours,           \* players auris paused and nobody touched since
    pause,          \* the latest ear pause: age, and the count it lost
    raced           \* the ear race was met since that pause was decided

earWatchVars == <<evars, ours, pause, raced>>

(* The ear race: the session decides a pause, or the user touches a        *)
(* player, while a reading or a command is still on its way; a player did  *)
(* not obey a pause; the session bus was lost with a command.  A reading   *)
(* says only whether a player plays, so the session can not tell then      *)
(* which stop was its own.                                                 *)
EarRace ==
    \/ ~Quiet /\ (ear_does' = PausePlaying \/ ear_does'.act = "user")
    \/ ear_does'.act = "paused" /\ PlayingNow' # {}
    \/ ear_does'.act = "bus lost" /\ commands # <<>>

EarWatchInit ==
    EarInit /\ ours = {} /\ pause = [age |-> RESUME_WINDOW, lost |-> 0] /\ raced = FALSE
EarWatchNext ==
    /\ EarNext
    /\ ours' = CASE ear_does'.act = "paused" -> ours \cup (PlayingNow \ PlayingNow')
                 [] ear_does'.act \in {"user", "played"} -> ours \ {ear_does'.player}
                 [] OTHER -> ours
    /\ pause' = IF ear_does' = PausePlaying THEN [age |-> 0, lost |-> ear_settled]
                ELSE IF paused'.age > paused.age THEN [pause EXCEPT !.age = Up(@, RESUME_WINDOW)]
                ELSE pause
    /\ raced' = (EarRace \/ (raced /\ ear_does' # PausePlaying))
EarWatchSpec == EarWatchInit /\ [][EarWatchNext]_earWatchVars

(* auris starts only what it paused itself and nobody touched since, and   *)
(* starts it once, however late readings, commands and ticks come, unless  *)
(* the ear race was met (ear_media.rs 21, 27-28, 33-34; mpris.rs 214-219). *)
OnlyOwnPauseUndone ==
    [][ear_does'.act = "played" => ear_does'.player \in ours \/ raced]_earWatchVars

(* The same without the exception, as ear_media.rs 21 and 27-28 say it.    *)
UntouchedByTheUser ==
    [][ear_does'.act = "played" => ear_does'.player \in ours]_earWatchVars

(* A resume answers the pause: as many buds are in as were before it, and  *)
(* the window has not passed (ear_media.rs 22-26).                         *)
ResumeAnswersPause ==
    [][ear_does'.act = "Play" => ear_settled' >= pause.lost /\ pause.age < RESUME_WINDOW]_earWatchVars

(* "pause when any bud that was in an ear leaves it" (ear_media.rs 11):    *)
(* once a removal is settled while a local player plays to the AirPods,    *)
(* and every reading is delivered, the players are paused.                 *)
RemovalPauses ==
    [][ear_settled' < ear_settled /\ ear_settled' # None /\ PausesOn(ear_settled') /\ audio_on_airpods
           /\ PlayingNow # {} /\ Quiet
       => ear_does' = PausePlaying]_earWatchVars
=============================================================================
