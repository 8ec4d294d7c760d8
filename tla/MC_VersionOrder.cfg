CONSTANTS
    Majors = {0, 1, 2, 5, 10}
    Minors = {0, 2, 3, 4, 10}
    Patches = {0, 1, 13}
SPECIFICATION Spec

INVARIANT NotSkippedIsAtLeastMin
