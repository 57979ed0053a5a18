----------------------------- MODULE Singleflight -----------------------------
(***************************************************************************)
(* singleflight.Group.Do of golang.org/x/sync, as the decryption cache and *)
(* the schematic resolver use it: the first caller of a key runs the       *)
(* function, those that come while it runs wait for its result, and the    *)
(* key is forgotten when it ends.                                          *)
(***************************************************************************)
EXTENDS Integers, FiniteSets

CONSTANTS
  Callers,   (* the goroutines                                             *)
  Keys       (* what a call is made for; calls of one key share a flight   *)

VARIABLES
  running,   (* running[k]: the flight under way for key k, or 0           *)
  aboard,    (* aboard[c]: the flight caller c is in, or 0                 *)
  flights,   (* flights begun so far, numbered from 1                      *)
  ended      (* history: the flights that are over                         *)

flightVars == <<running, aboard, flights, ended>>

FlightInit ==
  /\ running = [k \in Keys |-> 0]
  /\ aboard = [c \in Callers |-> 0]
  /\ flights = 0
  /\ ended = {}

(* Do(k) finds no flight: c runs the function. *)
Lead(c, k) ==
  /\ running[k] = 0
  /\ flights' = flights + 1
  /\ running' = [running EXCEPT ![k] = flights + 1]
  /\ aboard' = [aboard EXCEPT ![c] = flights + 1]
  /\ UNCHANGED ended

(* Do(k) finds one: c waits for it. *)
Board(c, k) ==
  /\ running[k] # 0
  /\ aboard' = [aboard EXCEPT ![c] = running[k]]
  /\ UNCHANGED <<running, flights, ended>>

Passengers(k) == {c \in Callers : running[k] # 0 /\ aboard[c] = running[k]}

(* The function has returned: every passenger has its result. *)
Land(k) ==
  /\ running[k] # 0
  /\ ended' = ended \cup {running[k]}
  /\ running' = [running EXCEPT ![k] = 0]
  /\ aboard' = [c \in Callers |-> IF c \in Passengers(k) THEN 0 ELSE aboard[c]]
  /\ UNCHANGED flights
=============================================================================
