---------------------------- MODULE MCDishManager ----------------------------
(* A small instance of DishManager. *)
EXTENDS DishManager
===============================================================================
