----------------------------- MODULE MCChecker ------------------------------
EXTENDS Checker

CONSTANTS NonEmpty, MeanIsAbove, Broken, QcCommon, QcOther, QcMissing

Def(n, c, l) == [name |-> n, className |-> c, libraryName |-> l]

MCClasses    == {NonEmpty, MeanIsAbove, Broken}
MCLibraries  == {QcCommon, QcOther, QcMissing}
MCLibraryOf  == [c \in MCClasses |-> IF c = MeanIsAbove THEN QcOther ELSE QcCommon]
MCInstalled  == {QcCommon, QcOther}

\* Well specified; without a library; by a library that is not there; in the
\* wrong library; of a class that cannot be instantiated.
filled   == Def("filled", NonEmpty, QcCommon)
implicit == Def("implicit", NonEmpty, NoLibrary)
missing  == Def("missing", NonEmpty, QcMissing)
mean     == Def("mean", MeanIsAbove, QcOther)
wrong    == Def("wrong", MeanIsAbove, QcCommon)
broken   == Def("broken", Broken, QcCommon)

MCCheckDefs == {filled, implicit, missing, mean, wrong, broken}

MCArrays == {<<{filled, mean, implicit}, NotAnObject, {}>>,
             <<{mean}, {implicit}>>,
             <<{implicit, wrong}>>,
             <<{filled}, {missing}>>,
             <<{broken, mean}, {filled}>>}
=============================================================================
