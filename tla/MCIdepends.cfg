\* The same graphs: what the build host set leaves out
CONSTANTS
    Packages <- MCPackages
    Inputs <- MCInputs

SPECIFICATION Spec

INVARIANT BuildHostSetIsComplete

CHECK_DEADLOCK FALSE
