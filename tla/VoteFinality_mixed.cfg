SPECIFICATION Spec
CONSTANTS
    h1 = h1
    h2 = h2
    h3 = h3
    byz = byz
    a1 = a1
    b1 = b1
    c2 = c2
    ka = ka
    kb = kb
    Validators = {h1, h2, h3, byz}
    Honest = {h1, h2, h3}
    Units <- MCUnits
    Owner <- MCOwner
    Blocks = {a1, b1, c2}
    HeightOf <- MCHeightOf
    Ballots <- MCBallots
    Collectors = {ka, kb}
    BlockOf <- MCBlockOf
    CallerRoutes = FALSE
    Order <- MCOrder
    Fees = {7}
    Elapsed = {0, 3}
    InflationBps = 5000
    SecondsPerYear = 2
    Penalties = {0, 5000, 10000}
INVARIANT
    FinalityIsForOneBlock
