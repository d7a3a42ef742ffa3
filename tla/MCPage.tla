------------------------------- MODULE MCPage --------------------------------
(* A small instance of Page for TLC: a tab with its pages and another one with its *)
(* settings, and names that are too short, too long, and cut behind a hyphen.  Two *)
(* families of behaviours, for what a page does by itself does not concern other   *)
(* tabs: the tabs, the device and storage act, and pages come and go; or one tab   *)
(* acts alone, stores nothing, and does everything there is to do on a page.        *)
EXTENDS Page

CONSTANTS h, o

Names == {<<>>, <<"a", "-">>, <<"a", "-", "a">>, <<"-", "a", "a", "-", "a">>}

VARIABLE family

FamilyInit ==
  /\ PageInit /\ family \in {"tabs", "alone"}
  /\ family = "tabs" => box = "plain"
  /\ family = "alone" => stored = "none" /\ device = "light"

FamilyNext ==
  /\ PageNext /\ UNCHANGED family
  /\ family = "tabs" => /\ card'.asked = FALSE /\ copy'.asks = 0
                        /\ form'.name = <<>> /\ form'.slug = <<>>
                        /\ box' = "plain" /\ page' # "projects"
  /\ family = "alone" => UNCHANGED <<device, news, control[o], shown[o], ready[o]>>

FamilySpec == FamilyInit /\ [][FamilyNext]_<<vars, family>> /\ PageFairness
==============================================================================
