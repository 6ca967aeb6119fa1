------------------------------- MODULE Copies -------------------------------
(***************************************************************************)
(* What a mesh promises about the copies of its items, whatever catalogs   *)
(* are exchanged meanwhile: each is made by importing the item or by       *)
(* receiving what somebody who had it offered, and goes only because a     *)
(* person deleted it there or asked for that, or because the item was      *)
(* destroyed.  A device that has destroyed an item never has it again, and *)
(* nothing is destroyed that was not condemned.                            *)
(***************************************************************************)
EXTENDS Naturals

CONSTANTS Device, Item

VARIABLES
  copies,     \* copies[d]: the items d has a copy of
  had,        \* had[f]: the devices that ever had a copy of f
  offered,    \* copies on their way, as <<to, item>>
  asked,      \* asked[f]: the devices ever asked to delete their copy
  condemned,  \* condemned[d]: items d has been told to destroy
  destroyed,  \* items destroyed somewhere
  gone,       \* gone[d]: items d knows destroyed and does not have
  acts        \* how often a person, the clock or the operating system acted

vars == <<copies, had, offered, asked, condemned, destroyed, gone, acts>>

Init ==
  /\ copies = [d \in Device |-> {}]
  /\ had = [f \in Item |-> {}]
  /\ offered = {}
  /\ asked = [f \in Item |-> {}]
  /\ condemned = [d \in Device |-> {}]
  /\ destroyed = {}
  /\ gone = [d \in Device |-> {}]
  /\ acts = 0

Act == acts' = acts + 1

\* Device d comes to have a copy of f, or to have none.
Gain(d, f) == /\ copies' = [copies EXCEPT ![d] = @ \cup {f}]
              /\ had' = [had EXCEPT ![f] = @ \cup {d}]
Lose(d, f) == copies' = [copies EXCEPT ![d] = @ \ {f}]

\* An item that never was is made.
Create(d, f) ==
  /\ Act /\ had[f] = {}
  /\ Gain(d, f)
  /\ UNCHANGED <<offered, asked, condemned, destroyed, gone>>

\* Who has a copy sends it to another.
Offer(d, t, f) ==
  /\ Act /\ d # t /\ f \in copies[d]
  /\ offered' = offered \cup {<<t, f>>}
  /\ UNCHANGED <<copies, had, asked, condemned, destroyed, gone>>

\* It arrives, but not where the item is gone.
Receive(d, f) ==
  /\ <<d, f>> \in offered /\ f \notin gone[d]
  /\ Gain(d, f)
  /\ offered' \subseteq offered
  /\ UNCHANGED <<asked, condemned, destroyed, gone, acts>>

\* It never does.
Withdraw ==
  /\ offered' \subseteq offered
  /\ UNCHANGED <<copies, had, asked, condemned, destroyed, gone, acts>>

\* A device that had a copy is asked to delete it.
Ask(t, f) ==
  /\ Act /\ t \in had[f]
  /\ asked' = [asked EXCEPT ![f] = @ \cup {t}]
  /\ UNCHANGED <<copies, had, offered, condemned, destroyed, gone>>

\* A copy is deleted by hand, or because it was asked for.
Delete(d, f) ==
  /\ Act \/ (d \in asked[f] /\ acts' = acts)
  /\ Lose(d, f)
  /\ offered' \subseteq offered
  /\ UNCHANGED <<had, asked, condemned, destroyed, gone>>

\* Items are condemned on d by hand or by the clock; some may be spared.
Condemn(d, F) ==
  /\ Act
  /\ condemned' = [condemned EXCEPT ![d] = @ \cup F]
  /\ UNCHANGED <<copies, had, offered, asked, destroyed, gone>>

Spare(d, F) ==
  /\ condemned' = [condemned EXCEPT ![d] = @ \ F]
  /\ UNCHANGED <<copies, had, offered, asked, destroyed, gone, acts>>

\* The first device destroys an item because it is condemned there, every other
\* because it has been destroyed.
Destroy(d, f) ==
  /\ f \in condemned[d] \cup destroyed
  /\ Lose(d, f)
  /\ gone' = [gone EXCEPT ![d] = @ \cup {f}]
  /\ destroyed' = destroyed \cup {f}
  /\ \E F \in SUBSET {f} : condemned' = [condemned EXCEPT ![d] = @ \ F]
  /\ UNCHANGED <<had, offered, asked, acts>>

\* Something a person does that is none of this module's, or the end of a process:
\* nothing it was about to destroy is condemned any more.
Other(d) ==
  /\ Act
  /\ condemned' \in {condemned, [condemned EXCEPT ![d] = {}]}
  /\ UNCHANGED <<copies, had, offered, asked, destroyed, gone>>

Next ==
  \/ Withdraw
  \/ \E d \in Device :
       \/ Other(d)
       \/ \E F \in SUBSET Item : Condemn(d, F) \/ Spare(d, F)
       \/ \E f \in Item : \/ Create(d, f) \/ Receive(d, f) \/ Ask(d, f)
                          \/ Delete(d, f) \/ Destroy(d, f)
                          \/ \E t \in Device : Offer(d, t, f)

Spec == Init /\ [][Next]_vars
=============================================================================
