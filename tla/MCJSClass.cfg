\* Script finalizers rescue objects and call their methods; objects inherit.
CONSTANTS
    Objects = {x, y, z}
    Hooks = TRUE
    Derive = TRUE
    None = None
SPECIFICATION Spec
SYMMETRY Symmetry
INVARIANTS TypeOK NothingDangles NothingLeaks
