---------------------------- MODULE ValueHolder ----------------------------
(***************************************************************************)
(* What any and optional promise: variables that hold a value or none,     *)
(* whose copies are independent of each other, without blocks, pools or    *)
(* raw storage.  `last` is the operation just finished: a holder changes   *)
(* only as the operation on it says.                                       *)
(***************************************************************************)
CONSTANTS
    Holders, Contents,
    None, Gone,         \* an empty holder; one that is not constructed
    EmptyCopyKeeps      \* assigning a copy of an empty holder changes nothing

VARIABLES
    val, last,
    broken              \* the program did what makes all promises void

holderVars == <<val, last, broken>>

Request == [op : {"value", "copy", "move", "destroy", "none"}, to : Holders, from : Holders,
            content : Contents \cup {None}]

HolderInit == val = [h \in Holders |-> Gone] /\ last.op = "none" /\ ~broken

(* Construction or assignment of a value.                                  *)
Give(h) == val' = [val EXCEPT ![h] = last'.content]

Copy(h, g) ==
    /\ val[g] # Gone
    /\ val' = IF val[g] = None /\ EmptyCopyKeeps /\ val[h] # Gone THEN val
              ELSE [val EXCEPT ![h] = val[g]]

(* A moved-from holder gets what the other had, nothing if that is new.    *)
Move(h, g) ==
    /\ val[g] # Gone
    /\ val' = [val EXCEPT ![h] = val[g], ![g] = IF val[h] = Gone THEN None ELSE val[h]]

Destroy(h) == val[h] # Gone /\ val' = [val EXCEPT ![h] = Gone]

HolderNext ==
    \/ /\ ~broken /\ ~broken'
       /\ \/ last'.op = "value" /\ Give(last'.to)
          \/ last'.op = "copy" /\ Copy(last'.to, last'.from)
          \/ last'.op = "move" /\ Move(last'.to, last'.from)
          \/ last'.op = "destroy" /\ Destroy(last'.to)
          \/ last'.op = "none" /\ val' = val      \* an operation that threw
    \/ broken'

HolderSpec == HolderInit /\ [][HolderNext]_holderVars
============================================================================
