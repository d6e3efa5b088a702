----------------------------- MODULE BigIntValue -----------------------------
(***************************************************************************)
(* What the special member functions and the storage functions of          *)
(* basic_big_int promise to a caller who cannot see the storage: every     *)
(* live object holds one integer, a call changes the integers it names and *)
(* no other, and a call that fails changes none (the strong guarantee).    *)
(* BigIntStorage implements this module.                                   *)
(***************************************************************************)

CONSTANTS
  Objects,    \* the basic_big_int objects of the program
  Values,     \* the integers they may hold
  ZeroValue,  \* the integer zero, a member of Values
  Absent      \* no member of Values: the value of an object outside its lifetime

VARIABLES
  value,  \* value[o]: the integer held by o, or Absent
  call    \* the call just made: its name, target, argument and outcome

vars == <<value, call>>

Exists(o) == value[o] # Absent

Init ==
  /\ value = [o \in Objects |-> Absent]
  /\ call = [name |-> "none", target |-> Absent, arg |-> Absent, outcome |-> "ok"]

(***************************************************************************)
(* The successful calls, told apart by the label in call.                  *)
(***************************************************************************)

(* A constructor or an assignment from an integer. *)
Set(o) ==
  /\ call'.name \in IF Exists(o) THEN {"assign_integer"}
                                 ELSE {"construct", "construct_from_limbs"}
  /\ call'.arg \in Values
  /\ value' = [value EXCEPT ![o] = call'.arg]

(* A copy, with or without an explicit allocator. *)
Copy(o, x) ==
  /\ Exists(x)
  /\ call'.name = IF Exists(o) THEN "copy_assign" ELSE "copy_construct"
  /\ call'.arg = x
  /\ value' = [value EXCEPT ![o] = value[x]]

(* A move. The source stays a valid object: it holds zero when its buffer *)
(* was taken and its old value when it was only copied.                    *)
Move(o, x) ==
  /\ Exists(x)
  /\ call'.name = IF Exists(o) THEN "move_assign" ELSE "move_construct"
  /\ call'.arg = x
  /\ \E left \in {value[x], ZeroValue} :
       value' = [value EXCEPT ![x] = left, ![o] = value[x]]

Swap(o, x) ==
  /\ Exists(o) /\ Exists(x)
  /\ call'.name = "swap"
  /\ call'.arg = x
  /\ value' = [value EXCEPT ![o] = value[x], ![x] = value[o]]

(* reserve and shrink_to_fit never change a value. *)
Resize(o) ==
  /\ Exists(o)
  /\ call'.name \in {"reserve", "shrink_to_fit"}
  /\ UNCHANGED value

Destroy(o) ==
  /\ Exists(o)
  /\ call'.name = "destroy"
  /\ value' = [value EXCEPT ![o] = Absent]

(* A call that throws, or that ends the program, changes no value. *)
Fail ==
  /\ call'.outcome \in {"bad_alloc", "length_error", "terminated"}
  /\ UNCHANGED value

Next ==
  \/ \E o \in Objects :
       /\ call'.target = o
       /\ call'.outcome = "ok"
       /\ \/ Set(o)
          \/ Resize(o)
          \/ Destroy(o)
          \/ \E x \in Objects : Copy(o, x) \/ Move(o, x) \/ Swap(o, x)
  \/ Fail

Spec == Init /\ [][Next]_vars
==============================================================================
