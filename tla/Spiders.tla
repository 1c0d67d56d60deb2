------------------------------ MODULE Spiders ------------------------------
(***************************************************************************)
(* What the requests on spiders and samples promise: each happens at once  *)
(* and as a whole, as long as nothing fails half-way.  SpiderFiles is how  *)
(* the files on disk implement it.                                         *)
(***************************************************************************)
EXTENDS Functions

CONSTANTS Name, Id, Content

VARIABLES spiders,  \* spider -> [settings, samples: id -> [data, page]]
          intact    \* nothing has failed: otherwise nothing is promised

WithSamples(n, s) == [spiders EXCEPT ![n].samples = s]
SamplesOf(n) == spiders[n].samples
Without(f, x) == Restrict(f, DOMAIN f \ {x})
With(f, x, y) == [z \in DOMAIN f \cup {x} |-> IF z = x THEN y ELSE f[z]]

Init == spiders = <<>> /\ intact = TRUE

Create(n, c) == /\ n \notin DOMAIN spiders
                /\ spiders' = With(spiders, n, [settings |-> c, samples |-> <<>>])
Edit(n, c) == spiders' = [spiders EXCEPT ![n].settings = c]
AddSample(n, x, s) == /\ x \notin DOMAIN SamplesOf(n)
                      /\ spiders' = WithSamples(n, With(SamplesOf(n), x, s))
EditSample(n, x, c) ==
  spiders' = WithSamples(n, [SamplesOf(n) EXCEPT ![x].data = c])
StorePage(n, x, c) ==
  spiders' = WithSamples(n, [SamplesOf(n) EXCEPT ![x].page = c])
RemoveSample(n, x) == spiders' = WithSamples(n, Without(SamplesOf(n), x))
Remove(n) == spiders' = Without(spiders, n)
Rename(n, m) == /\ m \notin DOMAIN spiders
                /\ spiders' = With(Without(spiders, n), m, spiders[n])

Fail == intact' = FALSE

Request ==
  \/ \E n \in Name, c \in Content : Create(n, c)
  \/ \E n \in DOMAIN spiders :
       \/ \E c \in Content : Edit(n, c)
       \/ \E x \in Id, c \in Content :
            AddSample(n, x, [data |-> c, page |-> "none"])
       \/ \E x \in DOMAIN SamplesOf(n) :
            \/ \E c \in Content : EditSample(n, x, c) \/ StorePage(n, x, c)
            \/ RemoveSample(n, x)
       \/ Remove(n)
       \/ \E m \in Name : Rename(n, m)

Next == Fail \/ (intact' = TRUE /\ Request)

Spec == Init /\ [][Next]_<<spiders, intact>>
=============================================================================
