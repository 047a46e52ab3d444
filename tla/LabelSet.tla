------------------------------ MODULE LabelSet ------------------------------
(***************************************************************************)
(* The labels of a metric or a notification, daemon/label_set.c: an array  *)
(* of name/value pairs kept sorted by name, so that bsearch finds a label  *)
(* and equal sets of labels give equal identities.  One label set and      *)
(* every sequence of calls on it; a label set has one owner.               *)
(*                                                                         *)
(* Names are integers, compared as strcmp compares the strings.  A set has *)
(* at most MaxLabels labels, fewer than the bytes of a label_pair_t, which *)
(* matters in label_set_delete.                                            *)
(***************************************************************************)
EXTENDS Integers, Sequences, FiniteSets, Functions

CONSTANTS
  LabelNames,     \* the names in use, integers
  BadNames,       \* those with characters a label name must not have
  LabelValues,
  NoValue,          \* the value "" or NULL
  Garbled,        \* an array element with a pointer to no string
  MaxLabels

Pair(n, v) == [name |-> n, value |-> v]

ASSUME LabelAssumption ==
  /\ LabelNames \subseteq Int
  /\ NoValue \notin LabelValues
  /\ \A n \in LabelNames, v \in LabelValues : Pair(n, v) # Garbled

VARIABLES
  labels,         \* the array: pairs [name, value]; its length is labels->num
  meant           \* what the calls say: a function from names to values

labelvars == <<labels, meant>>

LabelInit == labels = << >> /\ meant = << >>

(* bsearch: the position, counted from 0, of the element with that name in
   the array, which is sorted; -1 for NULL *)
label_set_read(name) ==
  LET found == {i \in 0..Len(labels) - 1 : labels[i + 1].name = name}
  IN  IF found = {} THEN -1 ELSE CHOOSE i \in found : TRUE

(* qsort by name *)
qsort(s) ==
  LET p == CHOOSE p \in Bijection(DOMAIN s, DOMAIN s) :
             \A i, j \in DOMAIN s : i < j => s[p[i]].name <= s[p[j]].name
  IN  [i \in 1..Len(s) |-> s[p[i]]]

\* Mutant: the new label stays at the end of the array.
CreateUnsorted(name, value) ==
  IF name \in BadNames \/ label_set_read(name) >= 0 \/ value = NoValue THEN labels
  ELSE Append(labels, Pair(name, value))

(* label_set_create: EINVAL, EEXIST and an empty value leave the set alone *)
label_set_create(name, value) ==
  IF name \in BadNames \/ label_set_read(name) >= 0 \/ value = NoValue THEN labels
  ELSE qsort(Append(labels, Pair(name, value)))

(* label_set_delete of element i, counted from 0.  memmove is given the number
   of the labels behind it where it takes a number of bytes: it overwrites
   the first bytes of the element and moves nothing else. *)
label_set_delete(i) ==
  LET n == Len(labels)
  IN  IF i = n - 1 THEN SubSeq(labels, 1, n - 1)
      ELSE [SubSeq(labels, 1, n - 1) EXCEPT ![i + 1] = Garbled]

label_set_add(name, value) ==
  LET i == label_set_read(name)
  IN  IF i < 0 THEN IF value = NoValue THEN labels ELSE label_set_create(name, value)
      ELSE IF value = NoValue THEN label_set_delete(i)
      ELSE [labels EXCEPT ![i + 1].value = value]

-----------------------------------------------------------------------------
Intact == \A i \in DOMAIN labels : labels[i] # Garbled

Meaning(name, value) ==
  IF name \in BadNames THEN meant
  ELSE IF value = NoValue THEN Restrict(meant, DOMAIN meant \ {name})
  ELSE [n \in DOMAIN meant \cup {name} |-> IF n = name THEN value ELSE meant[n]]

(* metric_label_set and its like for notifications.  What a call does once
   an element is garbled is not defined; the model stops there. *)
AddLabel(name, value) ==
  /\ Intact /\ Len(labels) < MaxLabels
  /\ labels' = label_set_add(name, value)
  /\ meant' = Meaning(name, value)

CreateLabel(name, value) ==
  /\ Intact /\ Len(labels) < MaxLabels
  /\ labels' = label_set_create(name, value)
  /\ meant' = IF name \in DOMAIN meant \/ value = NoValue THEN meant
              ELSE Meaning(name, value)

label_set_reset == Intact /\ labels' = << >> /\ meant' = << >>

LabelNext ==
  \/ \E n \in LabelNames, v \in LabelValues \cup {NoValue} :
       AddLabel(n, v) \/ CreateLabel(n, v)
  \/ label_set_reset

LabelSpec == LabelInit /\ [][LabelNext]_labelvars

-----------------------------------------------------------------------------
Matches ==
  /\ \A i \in 1..Len(labels) - 1 : labels[i].name < labels[i + 1].name
  /\ {labels[i] : i \in DOMAIN labels} = {Pair(n, meant[n]) : n \in DOMAIN meant}

(* In whatever order labels are set, changed and removed from the end, the
   array is sorted, holds every name once and has the values set last: the
   identity metric_identity prints depends on the labels alone. *)
LabelsUnlessGarbled == Intact => Matches

(* metric_label_set removes the label it is given the empty value for, and no
   other.  label_set_delete garbles the element it deletes and drops the
   last label, unless it deletes the last one. *)
LabelsAreMeant == Intact /\ Matches
=============================================================================
